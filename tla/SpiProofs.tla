----------------------------- MODULE SpiProofs -----------------------------
(***************************************************************************)
(* Theorems about Spi, for any number of objects on one device and any     *)
(* settings: undisturbed calls are atomic, disturbed ones lose no more     *)
(* than mode()'s read and write explain, and no descriptor leaks.          *)
(***************************************************************************)
EXTENDS Spi, TLAPS

Flags   == ModeBits \cup {"LSB_FIRST", "CS_HIGH"}
Devices == [flags : SUBSET Flags, speed : Speeds, bits : Words]
Setups  == [mode : SUBSET ModeBits, order : Orders, extra : SUBSET {"CS_HIGH"},
            speed : Speeds, bits : Words]

Ops    == {"none", "construct", "mode", "bit_order", "speed", "bits_per_word", "get",
           "print", "transfer"}
Places == {"idle", "wr_mode", "wr_speed", "wr_bits", "show"}
Values == (SUBSET ModeBits) \cup Orders \cup Speeds \cup Words
Reads  == UNION {[D -> Values] : D \in SUBSET Fields}

Calls == [op : Ops, at : Places, data8 : SUBSET Flags, read : Reads,
          before : Setups \cup {{}}, goal : Setups \cup {{}}, calm : BOOLEAN,
          during : [Fields -> SUBSET Values]]

Typed ==
  /\ dev \in Devices
  /\ life \in [Handles -> {"none", "building", "alive"}]
  /\ call \in [Handles -> Calls]
  /\ res \in [Handles -> {"pending", "returned", "threw"}]
-----------------------------------------------------------------------------
(* What is known of a call. *)

\* How far a constructor is, and what mode() is about to write.
Located(c, how, l) ==
  /\ c.op = "none" => c.at = "idle"
  /\ c.op # "none" => c.before \in Setups /\ c.goal \in Setups
  /\ c.at # "idle" =>
       /\ how = "pending"
       /\ \/ c.op = "construct" /\ l = "building" /\ c.at \in {"wr_mode", "wr_speed", "wr_bits"}
          \/ c.op = "mode" /\ l = "alive" /\ c.at = "wr_mode"
          \/ c.op = "print" /\ l = "alive" /\ c.at = "show"
  /\ c.op = "construct" /\ c.at = "wr_mode" => c.data8 = InitialFlags(c.goal)

\* The byte that mode() writes was made from the flags it read.
Prepared(c) ==
  c.op = "mode" /\ c.at = "wr_mode" =>
    /\ c.goal = [c.before EXCEPT !.mode = c.goal.mode]
    /\ \E d \in Devices : /\ c.before = Settings(d)
                          /\ c.data8 = WithMode(d.flags, c.goal.mode)

\* What CallsExact asks of a call that is over.
Exact(c, how, d) ==
  /\ how = "returned" =>
       /\ Settings(d) = c.goal
       /\ c.op \in {"get", "print"} => \A f \in DOMAIN c.read : c.read[f] = Given(f, d)
  /\ how = "threw" =>
       IF c.op = "construct" THEN Settings(d) \in HalfWritten(c.before, c.goal)
       ELSE Settings(d) = c.before

\* An undisturbed call knows the settings d of the device.
Tracks(c, how, d) ==
  /\ c.op # "none" /\ c.at = "idle" => Exact(c, how, d)
  /\ c.at = "wr_mode" => Settings(d) = c.before
  /\ c.at = "wr_speed" =>
       Settings(d) = [c.goal EXCEPT !.speed = c.before.speed, !.bits = c.before.bits]
  /\ c.at = "wr_bits" => Settings(d) = [c.goal EXCEPT !.bits = c.before.bits]
  /\ c.at = "show" => Settings(d) = c.before /\ c.goal = c.before
  /\ c.at = "show" => \A f \in DOMAIN c.read : c.read[f] = Given(f, d)

\* A call that prints, disturbed or not, has noted the settings that it read.
Shows(c, how, d) ==
  c.op = "print" =>
    /\ c.at = "show" => \A f \in Fields : Settings(d)[f] \in c.during[f]
    /\ \A f \in DOMAIN c.read :
         IF f = "order" THEN c.read[f] = "MsbFirst" ELSE c.read[f] \in c.during[f]
    /\ c.at = "idle" /\ how = "returned" => DOMAIN c.read = Fields

Good(c, how, l, d) ==
  Located(c, how, l) /\ Prepared(c) /\ Shows(c, how, d) /\ (c.calm => Tracks(c, how, d))

Known == \A s \in Handles : Good(call[s], res[s], life[s], dev)

Sound == Typed /\ NoDescriptorLeaked /\ Known
-----------------------------------------------------------------------------
(* What the writes to the device mean. *)

LEMMA SettingsType ==
  ASSUME NEW d \in Devices
  PROVE  /\ Settings(d) \in Setups
         /\ Settings(d).mode = d.flags \cap ModeBits
         /\ Settings(d).order = (IF "LSB_FIRST" \in d.flags THEN "LsbFirst" ELSE "MsbFirst")
         /\ Settings(d).extra = d.flags \ (ModeBits \cup {"LSB_FIRST"})
         /\ Settings(d).speed = d.speed /\ Settings(d).bits = d.bits
BY DEF Settings, Devices, Setups, Flags, Orders

\* Two settings with the same parts are the same.
LEMMA SameSetup ==
  ASSUME NEW a \in Setups, NEW b \in Setups, a.mode = b.mode, a.order = b.order,
         a.extra = b.extra, a.speed = b.speed, a.bits = b.bits
  PROVE  a = b
BY DEF Setups

LEMMA StartsType == Starts \subseteq Setups
BY SpiAssumption DEF Setups

LEMMA ModeMeans ==
  ASSUME NEW d \in Devices, NEW e \in Devices, NEW m \in SUBSET ModeBits
  PROVE  /\ WithMode(d.flags, m) \in SUBSET Flags
         /\ [e EXCEPT !.flags = WithMode(d.flags, m)] \in Devices
         /\ Settings([e EXCEPT !.flags = WithMode(d.flags, m)]) =
              [Settings(e) EXCEPT !.mode = m, !.order = Settings(d).order,
                                  !.extra = Settings(d).extra]
<1> DEFINE w == WithMode(d.flags, m)
           n == [e EXCEPT !.flags = w]
           x == [Settings(e) EXCEPT !.mode = m, !.order = Settings(d).order,
                                    !.extra = Settings(d).extra]
<1>1. m \subseteq ModeBits OBVIOUS
<1>2. d.flags \subseteq Flags BY DEF Devices
<1>3. w = (d.flags \ ModeBits) \cup m BY DEF WithMode
<1>4. w \subseteq Flags BY <1>1, <1>2, <1>3 DEF Flags
<1>5. /\ w \cap ModeBits = m
      /\ w \ (ModeBits \cup {"LSB_FIRST"}) = d.flags \ (ModeBits \cup {"LSB_FIRST"})
      /\ "LSB_FIRST" \in w <=> "LSB_FIRST" \in d.flags
  BY <1>1, <1>3 DEF ModeBits
<1> HIDE DEF w
<1>6. n \in Devices /\ n.flags = w /\ n.speed = e.speed /\ n.bits = e.bits
  BY <1>4 DEF Devices
<1> HIDE DEF n
<1>7. Settings(e) \in Setups /\ Settings(d) \in Setups /\ Settings(n) \in Setups
  BY <1>6, SettingsType
<1>8. /\ x \in Setups /\ x.mode = m /\ x.order = Settings(d).order
      /\ x.extra = Settings(d).extra /\ x.speed = Settings(e).speed
      /\ x.bits = Settings(e).bits
  BY <1>1, <1>7 DEF Setups
<1> HIDE DEF x
<1>9. /\ Settings(n).mode = m /\ Settings(n).order = x.order /\ Settings(n).extra = x.extra
      /\ Settings(n).speed = x.speed /\ Settings(n).bits = x.bits
  BY <1>5, <1>6, <1>8, SettingsType
<1>10. Settings(n) = x BY <1>7, <1>8, <1>9, SameSetup
<1> QED BY <1>4, <1>6, <1>10 DEF w, n, x

LEMMA InitialMeans ==
  ASSUME NEW d \in Devices, NEW c \in Setups
  PROVE  /\ InitialFlags(c) \in SUBSET Flags
         /\ [d EXCEPT !.flags = InitialFlags(c)] \in Devices
         /\ Settings([d EXCEPT !.flags = InitialFlags(c)]) =
              [c EXCEPT !.speed = d.speed, !.bits = d.bits]
<1> DEFINE w == InitialFlags(c)
           n == [d EXCEPT !.flags = w]
           x == [c EXCEPT !.speed = d.speed, !.bits = d.bits]
<1>1. /\ c.mode \subseteq ModeBits /\ c.extra \subseteq {"CS_HIGH"}
      /\ c.order \in {"MsbFirst", "LsbFirst"}
  BY DEF Setups, Orders
<1>2. w = c.mode \cup (IF c.order = "LsbFirst" THEN {"LSB_FIRST"} ELSE {}) \cup c.extra
  BY DEF InitialFlags
<1>3. /\ w \subseteq Flags /\ w \cap ModeBits = c.mode
      /\ w \ (ModeBits \cup {"LSB_FIRST"}) = c.extra
      /\ "LSB_FIRST" \in w <=> c.order = "LsbFirst"
  BY <1>1, <1>2 DEF Flags, ModeBits
<1> HIDE DEF w
<1>4. n \in Devices /\ n.flags = w /\ n.speed = d.speed /\ n.bits = d.bits
  BY <1>3 DEF Devices
<1> HIDE DEF n
<1>5. /\ x \in Setups /\ x.mode = c.mode /\ x.order = c.order /\ x.extra = c.extra
      /\ x.speed = d.speed /\ x.bits = d.bits
  BY DEF Setups, Devices
<1> HIDE DEF x
<1>6. /\ Settings(n) \in Setups
      /\ Settings(n).mode = x.mode /\ Settings(n).extra = x.extra
      /\ Settings(n).speed = x.speed /\ Settings(n).bits = x.bits
  BY <1>3, <1>4, <1>5, SettingsType
<1>7. Settings(n).order = x.order BY <1>1, <1>3, <1>4, <1>5, SettingsType
<1>8. Settings(n) = x BY <1>5, <1>6, <1>7, SameSetup
<1> QED BY <1>3, <1>4, <1>8 DEF w, n, x

LEMMA OrderMeans ==
  ASSUME NEW d \in Devices, NEW o \in Orders
  PROVE  /\ [d EXCEPT !.flags = WrLsbFirst(d.flags, o)] \in Devices
         /\ Settings([d EXCEPT !.flags = WrLsbFirst(d.flags, o)]) =
              [Settings(d) EXCEPT !.order = o]
         /\ [Settings(d) EXCEPT !.order = o] \in Setups
<1> DEFINE w == WrLsbFirst(d.flags, o)
           n == [d EXCEPT !.flags = w]
           x == [Settings(d) EXCEPT !.order = o]
<1>1. /\ w \subseteq Flags /\ w \cap ModeBits = d.flags \cap ModeBits
      /\ w \ (ModeBits \cup {"LSB_FIRST"}) = d.flags \ (ModeBits \cup {"LSB_FIRST"})
      /\ (IF "LSB_FIRST" \in w THEN "LsbFirst" ELSE "MsbFirst") = o
  BY DEF Devices, Flags, WrLsbFirst, Orders, ModeBits
<1> HIDE DEF w
<1>2. n \in Devices /\ n.flags = w /\ n.speed = d.speed /\ n.bits = d.bits
  BY <1>1 DEF Devices
<1> HIDE DEF n
<1>3. /\ x \in Setups /\ x.mode = Settings(d).mode /\ x.order = o
      /\ x.extra = Settings(d).extra
      /\ x.speed = Settings(d).speed /\ x.bits = Settings(d).bits
  BY SettingsType DEF Setups
<1> HIDE DEF x
<1>4. /\ Settings(n) \in Setups
      /\ Settings(n).mode = x.mode /\ Settings(n).extra = x.extra
      /\ Settings(n).speed = x.speed /\ Settings(n).bits = x.bits
  BY <1>1, <1>2, <1>3, SettingsType
<1>5. Settings(n).order = x.order BY <1>1, <1>2, <1>3, SettingsType
<1>6. Settings(n) = x BY <1>3, <1>4, <1>5, SameSetup
<1> QED BY <1>2, <1>3, <1>6 DEF w, n, x

LEMMA RateMeans ==
  ASSUME NEW d \in Devices, NEW v \in Speeds, NEW w \in Words
  PROVE  /\ [d EXCEPT !.speed = v] \in Devices /\ [d EXCEPT !.bits = w] \in Devices
         /\ Settings([d EXCEPT !.speed = v]) = [Settings(d) EXCEPT !.speed = v]
         /\ Settings([d EXCEPT !.bits = w]) = [Settings(d) EXCEPT !.bits = w]
         /\ [Settings(d) EXCEPT !.speed = v] \in Setups
         /\ [Settings(d) EXCEPT !.bits = w] \in Setups
<1> DEFINE a == [d EXCEPT !.speed = v]
           b == [d EXCEPT !.bits = w]
           x == [Settings(d) EXCEPT !.speed = v]
           y == [Settings(d) EXCEPT !.bits = w]
<1>1. /\ a \in Devices /\ a.flags = d.flags /\ a.speed = v /\ a.bits = d.bits
      /\ b \in Devices /\ b.flags = d.flags /\ b.speed = d.speed /\ b.bits = w
  BY DEF Devices
<1>2. /\ x \in Setups /\ x.mode = Settings(d).mode /\ x.order = Settings(d).order
      /\ x.extra = Settings(d).extra /\ x.speed = v /\ x.bits = d.bits
  BY SettingsType DEF Setups
<1>3. /\ y \in Setups /\ y.mode = Settings(d).mode /\ y.order = Settings(d).order
      /\ y.extra = Settings(d).extra /\ y.speed = d.speed /\ y.bits = w
  BY SettingsType DEF Setups
<1> HIDE DEF a, b, x, y
<1>4. /\ Settings(a) \in Setups /\ Settings(a).mode = x.mode /\ Settings(a).order = x.order
      /\ Settings(a).extra = x.extra /\ Settings(a).speed = x.speed
      /\ Settings(a).bits = x.bits
  BY <1>1, <1>2, SettingsType
<1>5. /\ Settings(b) \in Setups /\ Settings(b).mode = y.mode /\ Settings(b).order = y.order
      /\ Settings(b).extra = y.extra /\ Settings(b).speed = y.speed
      /\ Settings(b).bits = y.bits
  BY <1>1, <1>3, SettingsType
<1>6. Settings(a) = x BY <1>2, <1>4, SameSetup
<1>7. Settings(b) = y BY <1>3, <1>5, SameSetup
<1> QED BY <1>1, <1>2, <1>3, <1>6, <1>7 DEF a, b, x, y
-----------------------------------------------------------------------------
(* What is read. *)

LEMMA ReadsType ==
  /\ Unread \in Reads /\ DOMAIN Unread = {} /\ Unseen \in [Fields -> SUBSET Values]
  /\ \A r \in Reads : DOMAIN r \subseteq Fields
  /\ \A D \in SUBSET Fields : \A r \in [D -> Values] : r \in Reads
BY DEF Unread, Unseen, Reads

LEMMA FieldValue ==
  ASSUME NEW d \in Devices, NEW f \in Fields
  PROVE  Settings(d)[f] \in Values
<1>1. Settings(d) \in Setups BY SettingsType
<1> QED BY <1>1 DEF Fields, Setups, Values

LEMMA FieldRead ==
  ASSUME Typed, NEW f \in Fields
  PROVE  ReadField(f) \in Values /\ ReadField(f) = Given(f, dev)
<1>1. /\ Settings(dev)["mode"] = dev.flags \cap ModeBits
      /\ Settings(dev)["speed"] = dev.speed /\ Settings(dev)["bits"] = dev.bits
  BY DEF Settings
<1>2. RdLsbFirst \cap {"LSB_FIRST"} = {} BY DEF RdLsbFirst
<1>3. /\ f = "mode" => ReadField(f) = dev.flags \cap ModeBits
      /\ f = "speed" => ReadField(f) = dev.speed
      /\ f = "bits" => ReadField(f) = dev.bits
      /\ f = "order" => ReadField(f) = "MsbFirst"
  BY <1>2 DEF ReadField
<1>4. ReadField(f) = Given(f, dev) BY <1>1, <1>3 DEF Fields, Given
<1>5. Given(f, dev) \in Values
  <2>1. "MsbFirst" \in Values BY DEF Values, Orders
  <2> QED BY <2>1, FieldValue DEF Given, Typed
<1> QED BY <1>4, <1>5

LEMMA AlsoRead ==
  ASSUME Typed, NEW r \in Reads, NEW f \in Fields
  PROVE  /\ DOMAIN ReadAlso(r, f) = DOMAIN r \cup {f}
         /\ \A g \in DOMAIN ReadAlso(r, f) :
              ReadAlso(r, f)[g] = IF g = f THEN Given(f, dev) ELSE r[g]
BY FieldRead DEF ReadAlso

\* Reading more keeps the type, whatever was read before.
LEMMA AlsoReadType ==
  ASSUME Typed, NEW r \in Reads, NEW f \in Fields
  PROVE  ReadAlso(r, f) \in Reads
<1>1. PICK D \in SUBSET Fields : r \in [D -> Values] BY DEF Reads
<1> DEFINE q == [g \in D \cup {f} |-> IF g = f THEN ReadField(f) ELSE r[g]]
<1>2. ReadAlso(r, f) = q BY <1>1 DEF ReadAlso
<1>3. q \in [D \cup {f} -> Values] BY <1>1, FieldRead
<1>4. D \cup {f} \in SUBSET Fields BY <1>1
<1> QED BY <1>2, <1>3, <1>4, ReadsType
-----------------------------------------------------------------------------
(* The steps. *)

LEMMA NoCallGood ==
  /\ NoCall \in Calls
  /\ \A how, l, d : Good(NoCall, how, l, d)
<1>1. /\ NoCall.op = "none" /\ NoCall.at = "idle" BY DEF NoCall
<1>2. NoCall \in Calls BY ReadsType DEF NoCall, Calls, Ops, Places
<1>3. ASSUME NEW how, NEW l, NEW d PROVE Good(NoCall, how, l, d)
  BY <1>1 DEF Good, Located, Prepared, Tracks, Shows
<1> QED BY <1>2, <1>3

\* A step of one object: what it knows of its call is all there is to show.
LEMMA OwnStep ==
  ASSUME Sound, NEW s \in Handles, NEW c \in Calls, NEW d \in Devices,
         NEW how \in {"pending", "returned", "threw"},
         NEW l \in {"none", "building", "alive"},
         Writes(s, c, d), Good(c, how, l, d),
         res' = [res EXCEPT ![s] = how], life' = [life EXCEPT ![s] = l],
         opened' = IF l = "none" THEN opened \ {s} ELSE opened \cup {s}
  PROVE  Sound'
<1>1. dev' = d /\ call'[s] = c /\ res'[s] = how /\ life'[s] = l
  BY DEF Writes, Sound, Typed
<1>2. ASSUME NEW r \in Handles, r # s
      PROVE  /\ res'[r] = res[r] /\ life'[r] = life[r]
             /\ call'[r] = IF d = dev THEN call[r] ELSE Disturbed(call[r], d)
  BY <1>2 DEF Writes, Sound, Typed
<1>3. ASSUME NEW r \in Handles, r # s
      PROVE  call'[r] \in Calls /\ Good(call'[r], res'[r], life'[r], d)
  <2>1. call[r] \in Calls /\ Good(call[r], res[r], life[r], dev) BY DEF Sound, Typed, Known
  <2>2. CASE d = dev BY <1>2, <1>3, <2>1, <2>2
  <2>3. CASE d # dev /\ call[r].at = "idle"
    <3>1. call'[r] = NoCall BY <1>2, <1>3, <2>3 DEF Disturbed
    <3> QED BY <3>1, NoCallGood
  <2>4. ASSUME d # dev, call[r].at # "idle"
        PROVE  /\ call'[r] \in Calls /\ call'[r].calm = FALSE
               /\ call'[r].op = call[r].op /\ call'[r].at = call[r].at
               /\ call'[r].data8 = call[r].data8 /\ call'[r].before = call[r].before
               /\ call'[r].goal = call[r].goal /\ call'[r].read = call[r].read
               /\ call[r].at = "show" => \A f \in Fields :
                    call'[r].during[f] = call[r].during[f] \cup {Settings(d)[f]}
    <3>1. CASE call[r].at # "show"
      <4>1. call'[r] = [call[r] EXCEPT !.calm = FALSE]
        BY <1>2, <1>3, <2>4, <3>1 DEF Disturbed
      <4> QED BY <2>1, <3>1, <4>1 DEF Calls
    <3>2. CASE call[r].at = "show"
      <4> DEFINE w == [f \in Fields |-> call[r].during[f] \cup {Settings(d)[f]}]
      <4>1. call'[r] = [call[r] EXCEPT !.calm = FALSE, !.during = w]
        BY <1>2, <1>3, <2>4, <3>2 DEF Disturbed
      <4>2. w \in [Fields -> SUBSET Values] BY <2>1, FieldValue DEF Calls
      <4>3. \A f \in Fields : w[f] = call[r].during[f] \cup {Settings(d)[f]} OBVIOUS
      <4> HIDE DEF w
      <4> QED BY <2>1, <4>1, <4>2, <4>3 DEF Calls
    <3> QED BY <3>1, <3>2
  <2>5. CASE d # dev /\ call[r].at # "idle"
    <3>1. res'[r] = res[r] /\ life'[r] = life[r] BY <1>2, <1>3
    <3>2. Located(call'[r], res'[r], life'[r]) /\ Prepared(call'[r])
      BY <2>1, <2>4, <2>5, <3>1 DEF Good, Located, Prepared
    <3>3. Shows(call'[r], res'[r], d)
      <4>1. call[r].op = "print" => call[r].at = "show" BY <2>1, <2>5 DEF Good, Located
      <4>2. DOMAIN call[r].read \subseteq Fields BY <2>1, ReadsType DEF Calls
      <4> QED BY <2>1, <2>4, <2>5, <3>1, <4>1, <4>2 DEF Good, Shows
    <3> QED BY <2>4, <2>5, <3>2, <3>3 DEF Good
  <2> QED BY <2>2, <2>3, <2>5
<1>4. Typed'
  <2>1. \A r \in Handles : call'[r] \in Calls BY <1>1, <1>3
  <2>2. call' = [r \in Handles |-> call'[r]] BY DEF Writes
  <2> QED BY <1>1, <2>1, <2>2 DEF Sound, Typed
<1>5. Known' BY <1>1, <1>3 DEF Known
<1>6. NoDescriptorLeaked'
  <2>1. \A r : r \in opened <=> r \in Handles /\ life[r] # "none"
    BY DEF Sound, NoDescriptorLeaked
  <2>2. \A r \in opened' : r \in Handles BY <2>1
  <2>3. \A r \in Handles : r \in opened' <=> life'[r] # "none" BY <1>1, <1>2, <2>1
  <2> QED BY <2>2, <2>3 DEF NoDescriptorLeaked
<1> QED BY <1>4, <1>5, <1>6 DEF Sound

\* The same of a step that neither makes nor ends an object.
LEMMA OwnStepAlive ==
  ASSUME Sound, NEW s \in Handles, NEW c \in Calls, NEW d \in Devices,
         NEW how \in {"pending", "returned", "threw"}, life[s] # "none",
         Writes(s, c, d), Good(c, how, life[s], d), End(s, how), UNCHANGED <<life, opened>>
  PROVE  Sound'
<1>1. life' = [life EXCEPT ![s] = life[s]] /\ life[s] \in {"none", "building", "alive"}
  BY DEF Sound, Typed
<1>2. opened' = opened \cup {s} BY DEF Sound, NoDescriptorLeaked
<1> QED BY <1>1, <1>2, OwnStep DEF End

LEMMA BegunFields ==
  ASSUME Typed, NEW op \in Ops, NEW at \in Places, NEW data8 \in SUBSET Flags,
         NEW read \in Reads, NEW goal \in Setups, NEW c,
         c = Begun(op, at, data8, read, goal)
  PROVE  /\ c \in Calls /\ c.op = op /\ c.at = at /\ c.data8 = data8 /\ c.read = read
         /\ c.before = Settings(dev) /\ c.goal = goal /\ c.calm
         /\ c.before \in Setups
<1> DEFINE w == [f \in Fields |-> {Settings(dev)[f]}]
<1>1. w \in [Fields -> SUBSET Values] BY FieldValue DEF Typed
<1>2. c = [op |-> op, at |-> at, data8 |-> data8, read |-> read, before |-> Settings(dev),
           goal |-> goal, calm |-> TRUE, during |-> w]
  BY DEF Begun
<1> HIDE DEF w
<1> QED BY <1>1, <1>2, SettingsType DEF Calls, Typed

LEMMA BegunDuring ==
  ASSUME NEW op, NEW at, NEW data8, NEW read, NEW goal
  PROVE  \A f \in Fields : Begun(op, at, data8, read, goal).during[f] = {Settings(dev)[f]}
BY DEF Begun

LEMMA OnwardFields ==
  ASSUME Typed, NEW s \in Handles, NEW at \in Places, NEW c, c = Onward(s, at)
  PROVE  /\ c \in Calls /\ c.op = call[s].op /\ c.at = at /\ c.data8 = {}
         /\ c.read = call[s].read /\ c.before = call[s].before
         /\ c.goal = call[s].goal /\ c.calm = call[s].calm
BY DEF Onward, Calls, Typed

LEMMA ConstructSound ==
  ASSUME Sound, NEW s \in Handles, Construct(s)
  PROVE  Sound'
<1>1. ASSUME NEW g \in Starts,
             Keeps(s, Begun("construct", "wr_mode", InitialFlags(g), Unread, g)),
             life' = [life EXCEPT ![s] = "building"], opened' = opened \cup {s},
             End(s, "pending")
      PROVE  Sound'
  <2> DEFINE c == Begun("construct", "wr_mode", InitialFlags(g), Unread, g)
  <2>1. g \in Setups BY StartsType
  <2>2. /\ c \in Calls /\ c.op = "construct" /\ c.at = "wr_mode"
        /\ c.data8 = InitialFlags(g) /\ c.before = Settings(dev) /\ c.goal = g
        /\ c.before \in Setups
    <3>1. /\ InitialFlags(g) \in SUBSET Flags /\ Unread \in Reads
          /\ "construct" \in Ops /\ "wr_mode" \in Places
      BY <2>1, InitialMeans, ReadsType DEF Sound, Typed, Ops, Places
    <3> QED BY <2>1, <3>1, BegunFields DEF Sound
  <2> HIDE DEF c
  <2>3. Good(c, "pending", "building", dev)
    BY <2>1, <2>2 DEF Good, Located, Prepared, Tracks, Shows
  <2>4. dev \in Devices /\ Writes(s, c, dev) BY <1>1 DEF c, Keeps, Sound, Typed
  <2> QED BY <1>1, <2>2, <2>3, <2>4, OwnStep DEF End
<1>2. ASSUME life[s] = "none", Keeps(s, NoCall), End(s, "threw"), UNCHANGED <<life, opened>>
      PROVE  Sound'
  <2>1. life' = [life EXCEPT ![s] = "none"] /\ opened' = opened \ {s}
    BY <1>2 DEF Sound, Typed, NoDescriptorLeaked
  <2>2. dev \in Devices /\ Writes(s, NoCall, dev) BY <1>2 DEF Keeps, Sound, Typed
  <2> QED BY <1>2, <2>1, <2>2, OwnStep, NoCallGood DEF End
<1> QED BY <1>1, <1>2 DEF Construct

LEMMA AbandonSound ==
  ASSUME Sound, NEW s \in Handles, call[s].op = "construct", call[s].at # "idle", Abandon(s)
  PROVE  Sound'
<1> DEFINE c == Onward(s, "idle")
<1>1. /\ c \in Calls /\ c.op = "construct" /\ c.at = "idle" /\ c.before = call[s].before
      /\ c.goal = call[s].goal /\ c.calm = call[s].calm
  BY OnwardFields DEF Sound, Places
<1>2. Good(call[s], res[s], life[s], dev) /\ dev \in Devices /\ Writes(s, c, dev)
  BY DEF Sound, Known, Typed, Abandon, Keeps
<1> HIDE DEF c
<1>3. c.calm => Exact(c, "threw", dev)
  BY <1>1, <1>2 DEF Good, Located, Tracks, Exact, HalfWritten
<1>4. Good(c, "threw", "none", dev)
  BY <1>1, <1>2, <1>3 DEF Good, Located, Prepared, Tracks, Shows
<1> QED BY <1>1, <1>2, <1>4, OwnStep DEF Abandon, End

LEMMA ConstructModeSound ==
  ASSUME Sound, NEW s \in Handles, ConstructMode(s)
  PROVE  Sound'
<1>1. Good(call[s], res[s], life[s], dev) /\ dev \in Devices /\ call[s] \in Calls
  BY DEF Sound, Known, Typed
<1>2. call[s].op = "construct" /\ call[s].at = "wr_mode" BY DEF ConstructMode
<1>3. /\ life[s] = "building" /\ res[s] = "pending"
      /\ call[s].data8 = InitialFlags(call[s].goal)
      /\ call[s].before \in Setups /\ call[s].goal \in Setups
      /\ call[s].calm => Settings(dev) = call[s].before
  BY <1>1, <1>2 DEF Good, Located, Tracks
<1> DEFINE c == Onward(s, "wr_speed")
           d == [dev EXCEPT !.flags = call[s].data8]
<1>4. /\ c \in Calls /\ c.op = "construct" /\ c.at = "wr_speed" /\ c.before = call[s].before
      /\ c.goal = call[s].goal /\ c.calm = call[s].calm
  BY <1>2, OnwardFields DEF Sound, Places
<1>5. /\ d \in Devices
      /\ Settings(d) = [call[s].goal EXCEPT !.speed = dev.speed, !.bits = dev.bits]
  BY <1>1, <1>3, InitialMeans
<1>6. c.calm => Settings(d) = [c.goal EXCEPT !.speed = c.before.speed, !.bits = c.before.bits]
  <2>1. Settings(dev).speed = dev.speed /\ Settings(dev).bits = dev.bits
    BY <1>1, SettingsType
  <2>2. c.calm => c.before.speed = dev.speed /\ c.before.bits = dev.bits
    BY <1>3, <1>4, <2>1
  <2> HIDE DEF c, d
  <2> QED BY <1>4, <1>5, <2>2
<1>7. CASE Writes(s, c, d) /\ UNCHANGED <<life, opened, res>>
  <2> HIDE DEF c, d
  <2>1. Good(c, "pending", life[s], d)
    BY <1>3, <1>4, <1>6 DEF Good, Located, Prepared, Tracks, Shows
  <2>2. End(s, "pending") BY <1>3, <1>7 DEF End, Sound, Typed
  <2> QED BY <1>3, <1>4, <1>5, <1>7, <2>1, <2>2, OwnStepAlive
<1>8. CASE Abandon(s) BY <1>2, <1>8, AbandonSound
<1> QED BY <1>7, <1>8 DEF ConstructMode

LEMMA ConstructSpeedSound ==
  ASSUME Sound, NEW s \in Handles, ConstructSpeed(s)
  PROVE  Sound'
<1>1. Good(call[s], res[s], life[s], dev) /\ dev \in Devices /\ call[s] \in Calls
  BY DEF Sound, Known, Typed
<1>2. call[s].op = "construct" /\ call[s].at = "wr_speed" BY DEF ConstructSpeed
<1>3. /\ life[s] = "building" /\ res[s] = "pending"
      /\ call[s].before \in Setups /\ call[s].goal \in Setups
      /\ call[s].calm => Settings(dev) = [call[s].goal EXCEPT !.speed = call[s].before.speed,
                                                             !.bits = call[s].before.bits]
  BY <1>1, <1>2 DEF Good, Located, Tracks
<1> DEFINE c == Onward(s, "wr_bits")
           v == call[s].goal.speed
           d == [dev EXCEPT !.speed = v]
<1>4. /\ c \in Calls /\ c.op = "construct" /\ c.at = "wr_bits" /\ c.before = call[s].before
      /\ c.goal = call[s].goal /\ c.calm = call[s].calm
  BY <1>2, OnwardFields DEF Sound, Places
<1>5. v \in Speeds /\ dev.bits \in Words BY <1>1, <1>3 DEF Setups, Devices
<1> HIDE DEF v
<1>6. d \in Devices /\ Settings(d) = [Settings(dev) EXCEPT !.speed = v]
  BY <1>1, <1>5, RateMeans
<1>7. c.calm => Settings(d) = [c.goal EXCEPT !.bits = c.before.bits]
  <2> SUFFICES ASSUME c.calm PROVE Settings(d) = [c.goal EXCEPT !.bits = c.before.bits]
    OBVIOUS
  <2> DEFINE g == call[s].goal
             b == call[s].before
  <2>1. Settings(d) = [[g EXCEPT !.speed = b.speed, !.bits = b.bits] EXCEPT !.speed = v]
    BY <1>3, <1>4, <1>6
  <2>2. g \in Setups /\ b \in Setups /\ v = g.speed BY <1>3 DEF v
  <2> HIDE DEF g, b, d
  <2>3. [[g EXCEPT !.speed = b.speed, !.bits = b.bits] EXCEPT !.speed = v]
          = [g EXCEPT !.bits = b.bits]
    BY <2>2 DEF Setups
  <2> QED BY <1>4, <2>1, <2>3 DEF g, b
<1>8. CASE Writes(s, c, d) /\ UNCHANGED <<life, opened, res>>
  <2>0. Writes(s, c, d) BY <1>8
  <2> HIDE DEF c, d
  <2>1. Good(c, "pending", life[s], d)
    BY <1>3, <1>4, <1>7 DEF Good, Located, Prepared, Tracks, Shows
  <2>2. End(s, "pending") BY <1>3, <1>8 DEF End, Sound, Typed
  <2> QED BY <1>3, <1>4, <1>6, <1>8, <2>0, <2>1, <2>2, OwnStepAlive
<1>9. CASE Abandon(s) BY <1>2, <1>9, AbandonSound
<1> QED BY <1>8, <1>9 DEF ConstructSpeed, v

LEMMA ConstructBitsSound ==
  ASSUME Sound, NEW s \in Handles, ConstructBits(s)
  PROVE  Sound'
<1>1. Good(call[s], res[s], life[s], dev) /\ dev \in Devices /\ call[s] \in Calls
  BY DEF Sound, Known, Typed
<1>2. call[s].op = "construct" /\ call[s].at = "wr_bits" BY DEF ConstructBits
<1>3. /\ life[s] = "building"
      /\ call[s].before \in Setups /\ call[s].goal \in Setups
      /\ call[s].calm => Settings(dev) = [call[s].goal EXCEPT !.bits = call[s].before.bits]
  BY <1>1, <1>2 DEF Good, Located, Tracks
<1> DEFINE c == Onward(s, "idle")
           w == call[s].goal.bits
           d == [dev EXCEPT !.bits = w]
<1>4. /\ c \in Calls /\ c.op = "construct" /\ c.at = "idle" /\ c.before = call[s].before
      /\ c.goal = call[s].goal /\ c.calm = call[s].calm
  BY <1>2, OnwardFields DEF Sound, Places
<1>5. w \in Words /\ dev.speed \in Speeds BY <1>1, <1>3 DEF Setups, Devices
<1> HIDE DEF w
<1>6. d \in Devices /\ Settings(d) = [Settings(dev) EXCEPT !.bits = w]
  BY <1>1, <1>5, RateMeans
<1>7. c.calm => Settings(d) = c.goal
  <2> SUFFICES ASSUME c.calm PROVE Settings(d) = c.goal
    OBVIOUS
  <2> DEFINE g == call[s].goal
             b == call[s].before
  <2>1. Settings(d) = [[g EXCEPT !.bits = b.bits] EXCEPT !.bits = w]
    BY <1>3, <1>4, <1>6
  <2>2. g \in Setups /\ b \in Setups /\ w = g.bits BY <1>3 DEF w
  <2> HIDE DEF g, b, d
  <2>3. [[g EXCEPT !.bits = b.bits] EXCEPT !.bits = w] = g BY <2>2 DEF Setups
  <2> QED BY <1>4, <2>1, <2>3 DEF g
<1>8. ASSUME Writes(s, c, d), life' = [life EXCEPT ![s] = "alive"], End(s, "returned"),
             UNCHANGED opened
      PROVE  Sound'
  <2>0. Writes(s, c, d) BY <1>8
  <2> HIDE DEF c, d
  <2>1. Good(c, "returned", "alive", d)
    BY <1>3, <1>4, <1>7 DEF Good, Located, Prepared, Tracks, Exact, Shows
  <2>2. opened' = opened \cup {s} BY <1>3, <1>8 DEF Sound, NoDescriptorLeaked
  <2> QED BY <1>4, <1>6, <1>8, <2>0, <2>1, <2>2, OwnStep DEF End
<1>9. CASE Abandon(s) BY <1>2, <1>9, AbandonSound
<1> QED BY <1>8, <1>9 DEF ConstructBits, w

LEMMA DestroySound ==
  ASSUME Sound, NEW s \in Handles, Destroy(s)
  PROVE  Sound'
<1>1. dev \in Devices /\ Writes(s, NoCall, dev) BY DEF Destroy, Keeps, Sound, Typed
<1> QED BY <1>1, OwnStep, NoCallGood DEF Destroy, End

\* A step by which a living object changes the device or leaves it.
LEMMA ReadyStep ==
  ASSUME Sound, NEW s \in Handles, Ready(s), NEW c \in Calls, NEW d \in Devices,
         NEW how \in {"pending", "returned", "threw"}, Writes(s, c, d),
         Located(c, how, "alive"), Prepared(c), Shows(c, how, d), c.calm => Tracks(c, how, d),
         End(s, how), UNCHANGED <<life, opened>>
  PROVE  Sound'
<1>1. life[s] = "alive" /\ Good(c, how, life[s], d) BY DEF Ready, Good
<1> QED BY <1>1, OwnStepAlive

LEMMA SetAtOnceSound ==
  ASSUME Sound, NEW s \in Handles, NEW op \in {"bit_order", "speed", "bits_per_word"},
         NEW d \in Devices, Settings(d) \in Setups, SetAtOnce(s, op, d, Settings(d))
  PROVE  Sound'
<1> DEFINE c == Begun(op, "idle", {}, Unread, Settings(d))
<1>1. op \in Ops /\ "idle" \in Places /\ {} \in SUBSET Flags /\ Unread \in Reads
  BY ReadsType DEF Ops, Places
<1>2. /\ c \in Calls /\ c.op = op /\ c.at = "idle" /\ c.before = Settings(dev)
      /\ c.goal = Settings(d) /\ c.before \in Setups
  BY <1>1, BegunFields DEF Sound
<1>3. Ready(s) /\ UNCHANGED <<life, opened>> /\ dev \in Devices
  BY DEF SetAtOnce, Sound, Typed
<1>4. \/ Writes(s, c, d) /\ End(s, "returned")
      \/ Writes(s, c, dev) /\ End(s, "threw")
  BY DEF SetAtOnce, Keeps
<1> HIDE DEF c
<1>5. \A how, e : Located(c, how, "alive") /\ Prepared(c) /\ Shows(c, how, e)
  BY <1>2 DEF Located, Prepared, Shows
<1>6. Tracks(c, "returned", d) /\ Tracks(c, "threw", dev)
  BY <1>2 DEF Tracks, Exact
<1> QED BY <1>2, <1>3, <1>4, <1>5, <1>6, ReadyStep

\* What mode() leaves in the device when it writes its byte.
LEMMA ModeWritten ==
  ASSUME Typed, NEW s \in Handles, call[s].op = "mode", call[s].at = "wr_mode",
         Prepared(call[s]), call[s].goal \in Setups, call[s].before \in Setups,
         NEW d, d = [dev EXCEPT !.flags = call[s].data8]
  PROVE  /\ d \in Devices
         /\ Settings(d) = [Settings(dev) EXCEPT !.mode = call[s].goal.mode,
                              !.order = call[s].before.order, !.extra = call[s].before.extra]
         /\ Settings(dev) = call[s].before => Settings(d) = call[s].goal
<1> DEFINE m == call[s].goal.mode
           b == call[s].before
<1>1. PICK e \in Devices : b = Settings(e) /\ call[s].data8 = WithMode(e.flags, m)
  BY DEF Prepared
<1>2. m \in SUBSET ModeBits /\ dev \in Devices BY DEF Typed, Setups
<1>3. d \in Devices /\ Settings(d) = [Settings(dev) EXCEPT !.mode = m, !.order = b.order,
                                                          !.extra = b.extra]
  <2>1. d = [dev EXCEPT !.flags = WithMode(e.flags, m)] BY <1>1
  <2> HIDE DEF m, b
  <2>2. /\ [dev EXCEPT !.flags = WithMode(e.flags, m)] \in Devices
        /\ Settings([dev EXCEPT !.flags = WithMode(e.flags, m)]) =
             [Settings(dev) EXCEPT !.mode = m, !.order = Settings(e).order,
                                   !.extra = Settings(e).extra]
    BY <1>2, ModeMeans
  <2> QED BY <1>1, <2>1, <2>2
<1>4. call[s].goal = [b EXCEPT !.mode = m] BY DEF Prepared
<1> HIDE DEF m, b
<1>5. b \in Setups BY DEF b
<1>6. [b EXCEPT !.mode = m, !.order = b.order, !.extra = b.extra] = [b EXCEPT !.mode = m]
  BY <1>5 DEF Setups
<1>7. Settings(dev) = b => Settings(d) = call[s].goal BY <1>3, <1>4, <1>6
<1> QED BY <1>3, <1>7 DEF m, b

LEMMA ModeSetterSound ==
  ASSUME Sound, NEW s \in Handles, ModeSetter(s)
  PROVE  Sound'
<1>1. dev \in Devices /\ UNCHANGED <<life, opened>> /\ Typed
  BY DEF Sound, Typed, ModeSetter
<1>2. ASSUME Ready(s), NEW m \in Modes,
             LET goal == [Settings(dev) EXCEPT !.mode = m]
             IN  \/ /\ Keeps(s, Begun("mode", "wr_mode", WithMode(dev.flags, m), Unread, goal))
                    /\ End(s, "pending")
                 \/ /\ CanFail
                    /\ Keeps(s, Begun("mode", "idle", {}, Unread, goal)) /\ End(s, "threw")
      PROVE  Sound'
  <2> DEFINE goal == [Settings(dev) EXCEPT !.mode = m]
             a == Begun("mode", "wr_mode", WithMode(dev.flags, m), Unread, goal)
             b == Begun("mode", "idle", {}, Unread, goal)
  <2>1. /\ goal \in Setups /\ goal.mode = m /\ Settings(dev) \in Setups
        /\ goal = [Settings(dev) EXCEPT !.mode = goal.mode]
    <3>1. Settings(dev) \in Setups BY <1>1, SettingsType
    <3>2. m \in SUBSET ModeBits BY SpiAssumption
    <3> QED BY <3>1, <3>2 DEF Setups
  <2>2. WithMode(dev.flags, m) \in SUBSET Flags BY <1>1, SpiAssumption, ModeMeans
  <2>3. /\ {} \in SUBSET Flags /\ Unread \in Reads /\ "mode" \in Ops
        /\ "wr_mode" \in Places /\ "idle" \in Places
    BY ReadsType DEF Ops, Places
  <2>4. \/ Writes(s, a, dev) /\ End(s, "pending")
        \/ Writes(s, b, dev) /\ End(s, "threw")
    BY <1>2 DEF Keeps
  <2> HIDE DEF goal
  <2>5. /\ a \in Calls /\ a.op = "mode" /\ a.at = "wr_mode" /\ a.data8 = WithMode(dev.flags, m)
        /\ a.before = Settings(dev) /\ a.goal = goal
    BY <1>1, <2>1, <2>2, <2>3, BegunFields
  <2>6. /\ b \in Calls /\ b.op = "mode" /\ b.at = "idle"
        /\ b.before = Settings(dev) /\ b.goal = goal
    BY <1>1, <2>1, <2>3, BegunFields
  <2> HIDE DEF a, b
  <2>7. CASE Writes(s, a, dev) /\ End(s, "pending")
    <3>1. Prepared(a) BY <1>1, <2>1, <2>5 DEF Prepared
    <3>2. Located(a, "pending", "alive") /\ Tracks(a, "pending", dev) /\ Shows(a, "pending", dev)
      BY <2>1, <2>5 DEF Located, Tracks, Shows
    <3> QED BY <1>1, <1>2, <2>5, <2>7, <3>1, <3>2, ReadyStep
  <2>8. CASE Writes(s, b, dev) /\ End(s, "threw")
    <3>1. /\ Prepared(b) /\ Located(b, "threw", "alive") /\ Tracks(b, "threw", dev)
          /\ Shows(b, "threw", dev)
      BY <2>1, <2>6 DEF Prepared, Located, Tracks, Exact, Shows
    <3> QED BY <1>1, <1>2, <2>6, <2>8, <3>1, ReadyStep
  <2> QED BY <2>4, <2>7, <2>8
<1>3. ASSUME call[s].op = "mode", call[s].at = "wr_mode" PROVE Sound'
  <2> DEFINE c == Onward(s, "idle")
             d == [dev EXCEPT !.flags = call[s].data8]
  <2>1. /\ c \in Calls /\ c.op = "mode" /\ c.at = "idle" /\ c.before = call[s].before
        /\ c.goal = call[s].goal /\ c.calm = call[s].calm
    BY <1>1, <1>3, OnwardFields DEF Places
  <2>2. Good(call[s], res[s], life[s], dev) /\ call[s] \in Calls BY DEF Sound, Known, Typed
  <2>3. /\ call[s].before \in Setups /\ call[s].goal \in Setups
        /\ call[s].calm => Settings(dev) = call[s].before
        /\ Prepared(call[s]) /\ life[s] = "alive"
    BY <1>3, <2>2 DEF Good, Located, Tracks
  <2>4. d \in Devices /\ (c.calm => Settings(d) = c.goal)
    BY <1>1, <1>3, <2>1, <2>3, ModeWritten
  <2>5. \/ Writes(s, c, d) /\ End(s, "returned")
        \/ Writes(s, c, dev) /\ End(s, "threw")
    BY <1>3 DEF ModeSetter, Ready, Keeps
  <2> HIDE DEF c, d
  <2>7. Good(c, "returned", life[s], d) /\ Good(c, "threw", life[s], dev)
    BY <2>1, <2>3, <2>4 DEF Good, Located, Prepared, Tracks, Exact, Shows
  <2> QED BY <1>1, <2>1, <2>4, <2>3, <2>5, <2>7, OwnStepAlive
<1> QED BY <1>2, <1>3 DEF ModeSetter

\* One getter, or a transfer: the device is not changed.
LEMMA QuerySound ==
  ASSUME Sound, NEW s \in Handles, Ready(s), NEW op \in {"get", "transfer"},
         NEW read \in Reads, NEW how \in {"returned", "threw"},
         op = "get" => \A f \in DOMAIN read : read[f] = Given(f, dev),
         Keeps(s, Begun(op, "idle", {}, read, Settings(dev))), End(s, how),
         UNCHANGED <<life, opened>>
  PROVE  Sound'
<1> DEFINE c == Begun(op, "idle", {}, read, Settings(dev))
<1>1. dev \in Devices /\ Typed /\ Settings(dev) \in Setups
  BY SettingsType DEF Sound, Typed
<1>2. op \in Ops /\ "idle" \in Places /\ {} \in SUBSET Flags BY DEF Ops, Places
<1>3. /\ c \in Calls /\ c.op = op /\ c.at = "idle" /\ c.before = Settings(dev)
      /\ c.goal = Settings(dev) /\ c.read = read
  BY <1>1, <1>2, BegunFields
<1>4. Writes(s, c, dev) BY DEF Keeps
<1> HIDE DEF c
<1>5. Located(c, how, "alive") /\ Prepared(c) /\ Shows(c, how, dev) /\ Tracks(c, how, dev)
  BY <1>1, <1>3 DEF Located, Prepared, Tracks, Exact, Shows
<1> QED BY <1>1, <1>3, <1>4, <1>5, ReadyStep

LEMMA GetterSound ==
  ASSUME Sound, NEW s \in Handles, Getter(s)
  PROVE  Sound'
<1>1. Ready(s) /\ UNCHANGED <<life, opened>> /\ Typed BY DEF Getter, Sound
<1>2. ASSUME NEW f \in Fields
      PROVE  /\ ReadAlso(Unread, f) \in Reads
             /\ \A g \in DOMAIN ReadAlso(Unread, f) : ReadAlso(Unread, f)[g] = Given(g, dev)
  <2>1. ReadAlso(Unread, f) \in Reads BY <1>1, ReadsType, AlsoReadType
  <2>2. /\ DOMAIN ReadAlso(Unread, f) = {f}
        /\ ReadAlso(Unread, f)[f] = Given(f, dev)
    BY <1>1, ReadsType, AlsoRead
  <2> QED BY <2>1, <2>2
<1> QED BY <1>1, <1>2, ReadsType, QuerySound DEF Getter

LEMMA TransferSound ==
  ASSUME Sound, NEW s \in Handles, Transfer(s)
  PROVE  Sound'
BY ReadsType, QuerySound DEF Transfer

LEMMA ShowSound ==
  ASSUME Sound, NEW s \in Handles, Show(s)
  PROVE  Sound'
<1>1. /\ dev \in Devices /\ UNCHANGED <<life, opened>> /\ Typed
      /\ Settings(dev) \in Setups
  BY SettingsType DEF Sound, Typed, Show
<1>2. ASSUME Ready(s), Keeps(s, Begun("print", "show", {}, Unread, Settings(dev))),
             End(s, "pending")
      PROVE  Sound'
  <2> DEFINE c == Begun("print", "show", {}, Unread, Settings(dev))
  <2>1. "print" \in Ops /\ "show" \in Places /\ {} \in SUBSET Flags /\ Unread \in Reads
    BY ReadsType DEF Ops, Places
  <2>2. /\ c \in Calls /\ c.op = "print" /\ c.at = "show" /\ c.before = Settings(dev)
        /\ c.goal = Settings(dev) /\ c.read = Unread
    BY <1>1, <2>1, BegunFields
  <2>3. Writes(s, c, dev) BY <1>2 DEF Keeps
  <2>4. \A f \in Fields : c.during[f] = {Settings(dev)[f]} BY BegunDuring
  <2> HIDE DEF c
  <2>5. /\ Located(c, "pending", "alive") /\ Prepared(c) /\ Tracks(c, "pending", dev)
        /\ Shows(c, "pending", dev)
    BY <1>1, <2>2, <2>4, ReadsType DEF Located, Prepared, Tracks, Shows
  <2> QED BY <1>1, <1>2, <2>2, <2>3, <2>5, ReadyStep
<1>3. ASSUME call[s].at = "show" PROVE Sound'
  <2>1. Good(call[s], res[s], life[s], dev) /\ call[s] \in Calls BY DEF Sound, Known, Typed
  <2>2. /\ call[s].op = "print" /\ life[s] = "alive"
        /\ call[s].before \in Setups /\ call[s].goal \in Setups
        /\ call[s].calm => /\ Settings(dev) = call[s].before /\ call[s].goal = call[s].before
                          /\ \A f \in DOMAIN call[s].read : call[s].read[f] = Given(f, dev)
        /\ \A f \in Fields : Settings(dev)[f] \in call[s].during[f]
        /\ \A f \in DOMAIN call[s].read :
             IF f = "order" THEN call[s].read[f] = "MsbFirst"
             ELSE call[s].read[f] \in call[s].during[f]
    BY <1>3, <2>1 DEF Good, Located, Tracks, Shows
  <2>3. ASSUME NEW f \in Fields \ DOMAIN call[s].read,
               LET read == ReadAlso(call[s].read, f)
                   done == DOMAIN read = Fields
               IN  /\ Keeps(s, [call[s] EXCEPT !.read = read,
                                               !.at = IF done THEN "idle" ELSE "show"])
                   /\ End(s, IF done THEN "returned" ELSE "pending")
        PROVE  Sound'
    <3> DEFINE read == ReadAlso(call[s].read, f)
               done == DOMAIN read = Fields
               at   == IF done THEN "idle" ELSE "show"
               how  == IF done THEN "returned" ELSE "pending"
               c    == [call[s] EXCEPT !.read = read, !.at = at]
    <3>1. call[s].read \in Reads BY <2>1 DEF Calls
    <3>2. read \in Reads BY <1>1, <3>1, AlsoReadType
    <3>3. /\ call[s].calm => \A g \in DOMAIN read : read[g] = Given(g, dev)
          /\ \A g \in DOMAIN read : IF g = "order" THEN read[g] = "MsbFirst"
                                   ELSE read[g] \in call[s].during[g]
      <4>1. /\ DOMAIN read = DOMAIN call[s].read \cup {f}
            /\ \A g \in DOMAIN read :
                 read[g] = IF g = f THEN Given(f, dev) ELSE call[s].read[g]
        BY <1>1, <3>1, AlsoRead
      <4> HIDE DEF read
      <4> QED BY <2>2, <4>1 DEF Given
    <3>4. /\ at \in {"idle", "show"} /\ how \in {"pending", "returned"}
          /\ at = "show" => how = "pending"
          /\ how = "returned" => DOMAIN read = Fields
          /\ how # "threw"
      OBVIOUS
    <3>5. Writes(s, c, dev) /\ End(s, how) BY <2>3 DEF Keeps
    <3> HIDE DEF read, at, how
    <3>6. /\ c \in Calls /\ c.op = call[s].op /\ c.at = at /\ c.read = read
          /\ c.before = call[s].before /\ c.goal = call[s].goal
          /\ c.calm = call[s].calm /\ c.during = call[s].during
      BY <2>1, <3>2, <3>4 DEF Calls, Places
    <3> HIDE DEF c
    <3>7. Located(c, how, life[s]) /\ Prepared(c) /\ Shows(c, how, dev)
      BY <2>2, <3>3, <3>4, <3>6 DEF Located, Prepared, Shows
    <3>8. c.calm => Tracks(c, how, dev)
      BY <2>2, <3>3, <3>4, <3>6 DEF Tracks, Exact
    <3>9. Good(c, how, life[s], dev) BY <3>7, <3>8 DEF Good
    <3> QED BY <1>1, <2>2, <3>4, <3>5, <3>6, <3>9, OwnStepAlive
  <2>4. ASSUME Keeps(s, [Onward(s, "idle") EXCEPT !.read = Unread, !.during = Unseen]),
               End(s, "threw")
        PROVE  Sound'
    <3> DEFINE o == Onward(s, "idle")
               c == [o EXCEPT !.read = Unread, !.during = Unseen]
    <3>0. /\ o \in Calls /\ o.op = call[s].op /\ o.at = "idle" /\ o.before = call[s].before
          /\ o.goal = call[s].goal /\ o.calm = call[s].calm
      BY <1>1, OnwardFields DEF Places
    <3> HIDE DEF o
    <3>1. /\ c \in Calls /\ c.op = call[s].op /\ c.at = "idle" /\ c.before = call[s].before
          /\ c.goal = call[s].goal /\ c.calm = call[s].calm /\ c.read = Unread
      BY <3>0, ReadsType DEF Calls
    <3>2. Writes(s, c, dev) BY <2>4 DEF Keeps, o
    <3> HIDE DEF c
    <3>3. Good(c, "threw", life[s], dev)
      BY <2>2, <3>1, ReadsType DEF Good, Located, Prepared, Tracks, Exact, Shows
    <3> QED BY <1>1, <2>2, <2>4, <3>1, <3>2, <3>3, OwnStepAlive
  <2> QED BY <1>3, <2>3, <2>4 DEF Show, Ready
<1> QED BY <1>2, <1>3 DEF Show

LEMMA SettersSound ==
  ASSUME Sound, NEW s \in Handles,
         BitOrderSetter(s) \/ SpeedSetter(s) \/ BitsPerWordSetter(s)
  PROVE  Sound'
<1>1. dev \in Devices BY DEF Sound, Typed
<1>2. dev.speed \in Speeds /\ dev.bits \in Words BY <1>1 DEF Devices
<1>3. CASE BitOrderSetter(s)
  <2>1. PICK o \in Orders :
          SetAtOnce(s, "bit_order", [dev EXCEPT !.flags = WrLsbFirst(dev.flags, o)],
                    [Settings(dev) EXCEPT !.order = o])
    BY <1>3 DEF BitOrderSetter
  <2> DEFINE d == [dev EXCEPT !.flags = WrLsbFirst(dev.flags, o)]
  <2>2. d \in Devices /\ Settings(d) = [Settings(dev) EXCEPT !.order = o] BY <1>1, OrderMeans
  <2> QED BY <2>1, <2>2, SettingsType, SetAtOnceSound
<1>4. CASE SpeedSetter(s)
  <2>1. PICK v \in Speeds : SetAtOnce(s, "speed", [dev EXCEPT !.speed = v],
                                      [Settings(dev) EXCEPT !.speed = v])
    BY <1>4 DEF SpeedSetter
  <2> DEFINE d == [dev EXCEPT !.speed = v]
  <2>2. d \in Devices /\ Settings(d) = [Settings(dev) EXCEPT !.speed = v]
    BY <1>1, <1>2, RateMeans
  <2> QED BY <2>1, <2>2, SettingsType, SetAtOnceSound
<1>5. CASE BitsPerWordSetter(s)
  <2>1. PICK w \in Words : SetAtOnce(s, "bits_per_word", [dev EXCEPT !.bits = w],
                                     [Settings(dev) EXCEPT !.bits = w])
    BY <1>5 DEF BitsPerWordSetter
  <2> DEFINE d == [dev EXCEPT !.bits = w]
  <2>2. d \in Devices /\ Settings(d) = [Settings(dev) EXCEPT !.bits = w]
    BY <1>1, <1>2, RateMeans
  <2> QED BY <2>1, <2>2, SettingsType, SetAtOnceSound
<1> QED BY <1>3, <1>4, <1>5
-----------------------------------------------------------------------------
(* The theorems. *)

\* Every step says what it makes of the device and of the other calls.
LEMMA StepWrites ==
  ASSUME NEW s \in Handles, Step(s)
  PROVE  \E c, d : Writes(s, c, d)
<1>1. CASE Construct(s) \/ ConstructMode(s) \/ ConstructSpeed(s) \/ ConstructBits(s)
           \/ Destroy(s)
  BY <1>1 DEF Construct, ConstructMode, ConstructSpeed, ConstructBits, Destroy, Abandon, Keeps
<1>2. CASE ModeSetter(s) BY <1>2 DEF ModeSetter, Keeps
<1>3. CASE BitOrderSetter(s) \/ SpeedSetter(s) \/ BitsPerWordSetter(s)
  BY <1>3 DEF BitOrderSetter, SpeedSetter, BitsPerWordSetter, SetAtOnce, Keeps
<1>4. CASE Getter(s) \/ Show(s) \/ Transfer(s) BY <1>4 DEF Getter, Show, Transfer, Keeps
<1> QED BY <1>1, <1>2, <1>3, <1>4 DEF Step

LEMMA InitSound == Init => Sound
<1> SUFFICES ASSUME Init PROVE Sound
  OBVIOUS
<1>1. dev \in Devices BY DEF Init, Devices
<1>2. Typed BY <1>1, NoCallGood DEF Init, Typed
<1>3. Known BY NoCallGood DEF Init, Known
<1>4. NoDescriptorLeaked BY DEF Init, NoDescriptorLeaked
<1> QED BY <1>2, <1>3, <1>4 DEF Sound

LEMMA NextSound == Sound /\ [Next]_vars => Sound'
<1> SUFFICES ASSUME Sound, [Next]_vars PROVE Sound'
  OBVIOUS
<1>1. CASE UNCHANGED vars
  BY <1>1 DEF vars, Sound, Typed, NoDescriptorLeaked, Known
<1>2. ASSUME NEW s \in Handles, Step(s) PROVE Sound'
  BY <1>2, ConstructSound, ConstructModeSound, ConstructSpeedSound, ConstructBitsSound,
     DestroySound, ModeSetterSound, SettersSound, GetterSound, ShowSound, TransferSound
     DEF Step
<1> QED BY <1>1, <1>2 DEF Next

LEMMA AlwaysSound == Spec => []Sound
BY InitSound, NextSound, PTL DEF Spec

\* Undisturbed, every call is atomic: a setter changes what it was asked to
\* change and nothing else, a getter gives the setting, but for the bit order,
\* which it always gives as MSB first, and a call that throws changes nothing but the first
\* settings of a constructor.
THEOREM ExactTheorem == Spec => []CallsExact
<1>1. Sound => CallsExact
  BY DEF Sound, Known, Good, Tracks, Exact, CallsExact
<1> QED BY AlwaysSound, <1>1, PTL

\* A constructor that throws has closed its descriptor, wherever it stopped.
THEOREM DescriptorTheorem == Spec => []NoDescriptorLeaked
<1>1. Sound => NoDescriptorLeaked BY DEF Sound
<1> QED BY AlwaysSound, <1>1, PTL

\* A printed line shows mode, speed and word size with values that each had
\* during the call, however other objects change the device meanwhile, and the
\* bit order as MSB first whatever it was.
THEOREM PrintTheorem == Spec => []PrintedInForce
<1>1. Sound => PrintedInForce
  <2> SUFFICES ASSUME Sound, NEW s \in Handles, call[s].op = "print", res[s] = "returned"
               PROVE  /\ \A f \in Fields \ {"order"} : call[s].read[f] \in call[s].during[f]
                      /\ call[s].read["order"] = "MsbFirst"
    BY DEF PrintedInForce
  <2>1. Good(call[s], res[s], life[s], dev) BY DEF Sound, Known
  <2>2. call[s].at = "idle" BY <2>1 DEF Good, Located
  <2>3. DOMAIN call[s].read = Fields BY <2>1, <2>2 DEF Good, Shows
  <2>4. "order" \in Fields BY DEF Fields
  <2> QED BY <2>1, <2>3, <2>4 DEF Good, Shows
<1> QED BY AlwaysSound, <1>1, PTL

\* The action of LostUpdatesBounded.
Bounded ==
  \A s \in Handles :
    call[s].op = "mode" /\ call[s].at = "wr_mode" /\ call'[s].at = "idle"
      /\ res'[s] = "returned" =>
        LET now == Settings(dev)
        IN  Settings(dev') \in
              {[now EXCEPT !.mode = call[s].goal.mode],
               [now EXCEPT !.mode = call[s].goal.mode, !.order = call[s].before.order,
                           !.extra = call[s].before.extra]}

\* Disturbed, mode() undoes at most the flags that others set since it read
\* them: speed and word size are never lost, and nothing is invented.
THEOREM LostTheorem == Spec => LostUpdatesBounded
<1>1. Sound /\ [Next]_vars => [Bounded]_vars
  <2> SUFFICES ASSUME Sound, NEW r \in Handles, Step(r), NEW s \in Handles,
                      call[s].op = "mode", call[s].at = "wr_mode", call'[s].at = "idle",
                      res'[s] = "returned"
               PROVE  Settings(dev') =
                        [Settings(dev) EXCEPT !.mode = call[s].goal.mode,
                           !.order = call[s].before.order, !.extra = call[s].before.extra]
    BY DEF Bounded, Next
  <2>1. /\ call[s] \in Calls /\ Prepared(call[s]) /\ life[s] = "alive"
        /\ call[s].goal \in Setups /\ call[s].before \in Setups
    BY DEF Sound, Known, Typed, Good, Located
  <2>2. r = s
    <3> SUFFICES ASSUME r # s PROVE FALSE
      OBVIOUS
    <3>1. \E c, d : Writes(r, c, d) BY StepWrites
    <3>2. call'[s] = call[s] \/ call'[s] = [call[s] EXCEPT !.calm = FALSE]
      BY <3>1 DEF Writes, Disturbed
    <3>3. call'[s].at = "wr_mode" BY <2>1, <3>2 DEF Calls
    <3> QED BY <3>3
  <2>3. ModeSetter(s)
    BY <2>1, <2>2 DEF Step, Construct, ConstructMode, ConstructSpeed, ConstructBits, Destroy,
       Ready, BitOrderSetter, SpeedSetter, BitsPerWordSetter, SetAtOnce, Getter, Show, Transfer
  <2>4. Writes(s, Onward(s, "idle"), [dev EXCEPT !.flags = call[s].data8])
    <3>1. ~End(s, "threw") BY DEF End, Sound, Typed
    <3> QED BY <2>3, <3>1 DEF ModeSetter, Ready
  <2>5. dev' = [dev EXCEPT !.flags = call[s].data8] BY <2>4 DEF Writes
  <2> QED BY <2>1, <2>5, ModeWritten DEF Sound
<1> QED BY AlwaysSound, <1>1, PTL DEF Spec, LostUpdatesBounded, Bounded
=============================================================================
