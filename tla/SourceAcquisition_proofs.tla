---------------------- MODULE SourceAcquisition_proofs ----------------------
(***************************************************************************)
(* The guarantees of SourceAcquisition, proved for any papers, commands,   *)
(* responses, retrieval times, size of the pool and number of kills.       *)
(***************************************************************************)
EXTENDS SourceAcquisition, TLAPS

\* Where an acquisition stands, and what it has in its hands.
StandsAt(c, p) ==
  /\ p \in wanted[c] => at[c][p] = "idle" /\ plan[c][p] # <<>>
  /\ at[c][p] = "idle" => warned[c][p] = <<>>
  /\ at[c][p] \notin {"idle", "ended"} => plan[c][p] # <<>>
  /\ at[c][p] \in {"original", "normalized", "packet", "preserve"}
       => body[c][p] \in Bodies[Format(c, p)]
  /\ at[c][p] \in {"original", "normalized", "packet"} => body[c][p] \in Readable
  /\ at[c][p] = "ended" => result[c][p] # None

Stands == \A c \in Commands, p \in Papers : StandsAt(c, p)

\* No paper is passed over by a command for all of them.
AllWanted ==
  \A c \in Workshop : c \in running =>
    \A p \in Papers : p \in wanted[c] \/ at[c][p] # "idle"

\* Some plan s has been followed up to the formats left, with w for the rest.
OnRoute(s, w, left) ==
  /\ Len(w) + Len(left) = Len(s)
  /\ \A i \in 1..Len(w) : w[i].format = s[i]
  /\ \A i \in 1..Len(left) : left[i] = s[Len(w) + i]

RoutedAt(c, p) ==
  plan[c][p] # <<>> => \E s \in Routes(c) : OnRoute(s, warned[c][p], plan[c][p])

\* While there is a format left, every rejected response has been preserved.
KeptAt(c, p) ==
  plan[c][p] # <<>> =>
    \A i \in 1..Len(warned[c][p]) :
      warned[c][p][i].kept # None => warned[c][p][i].kept \in preserved[p]

\* The files that a packet is going to name are there before it.
StoredAt(c, p) ==
  /\ at[c][p] \in {"normalized", "packet"} => body[c][p] \in original[p]
  /\ at[c][p] = "packet" => body[c][p] \in normalized[p]

Underway == \A c \in Commands, p \in Papers : RoutedAt(c, p) /\ KeptAt(c, p) /\ StoredAt(c, p)

-----------------------------------------------------------------------------
(***************************************************************************)
(* Plans                                                                   *)
(***************************************************************************)

LEMMA PlanType ==
  ASSUME NEW s \in Plans
  PROVE  s \in Seq(Formats) /\ s # <<>>
<1> USE DEF Formats
<1>1. CASE s = <<"html", "pdf_text", "abstract">>
  BY <1>1
<1>2. CASE s = <<"html", "pdf_text">>
  BY <1>2
<1>3. CASE s = <<"pdf_text">>
  BY <1>3
<1> QED
  BY <1>1, <1>2, <1>3 DEF Plans

\* A command has the plans of its route; a file is the only source of its own.
LEMMA RoutesArePlans ==
  ASSUME NEW c, NEW s \in Routes(c)
  PROVE  s \in Plans /\ (c \in Local => Len(s) = 1)
<1>1. CASE c \in Local
  <2>1. s = <<"pdf_text">>
    BY <1>1 DEF Routes
  <2> QED
    BY <2>1 DEF Plans
<1>2. CASE c \notin Local
  BY <1>2 DEF Routes
<1> QED
  BY <1>1, <1>2

\* The abstract is the last resort.
LEMMA AbstractIsLast ==
  ASSUME NEW s \in Plans, NEW i \in 1..Len(s), s[i] = "abstract"
  PROVE  i = Len(s)
<1>1. CASE s = <<"html", "pdf_text", "abstract">>
  <2>1. Len(s) = 3 /\ s[1] = "html" /\ s[2] = "pdf_text"
    BY <1>1
  <2> QED
    BY <2>1
<1>2. CASE s = <<"html", "pdf_text">>
  <2>1. Len(s) = 2 /\ s[1] = "html" /\ s[2] = "pdf_text"
    BY <1>2
  <2> QED
    BY <2>1
<1>3. CASE s = <<"pdf_text">>
  <2>1. Len(s) = 1 /\ s[1] = "pdf_text"
    BY <1>3
  <2> QED
    BY <2>1
<1> QED
  BY <1>1, <1>2, <1>3 DEF Plans

\* A plan is on its route from the start.
LEMMA RouteBegins ==
  ASSUME NEW s \in Plans
  PROVE  OnRoute(s, <<>>, s)
<1>1. Len(s) \in Nat
  BY PlanType
<1> QED
  BY <1>1 DEF OnRoute

\* A format that is given up leaves the rest of the route.
LEMMA RouteGoesOn ==
  ASSUME NEW s \in Plans, NEW w \in Seq(Warnings), NEW left \in Seq(Formats), left # <<>>,
         OnRoute(s, w, left), NEW v \in Warnings, v.format = Head(left)
  PROVE  OnRoute(s, Append(w, v), Tail(left))
<1> DEFINE u == Append(w, v)
           rest == Tail(left)
<1>1. /\ Len(w) \in Nat /\ Len(left) \in Nat /\ Len(left) > 0
      /\ Len(u) = Len(w) + 1 /\ Len(rest) = Len(left) - 1
  OBVIOUS
<1>2. Len(u) + Len(rest) = Len(s)
  BY <1>1 DEF OnRoute
<1>3. ASSUME NEW i \in 1..Len(u) PROVE u[i].format = s[i]
  <2>1. CASE i = Len(w) + 1
    <3>1. u[i] = v
      BY <2>1
    <3>2. Head(left) = left[1] /\ left[1] = s[Len(w) + 1]
      BY <1>1 DEF OnRoute
    <3> QED
      BY <3>1, <3>2, <2>1
  <2>2. CASE i # Len(w) + 1
    <3>1. i \in 1..Len(w) /\ u[i] = w[i]
      BY <1>1, <2>2
    <3> QED
      BY <3>1 DEF OnRoute
  <2> QED
    BY <2>1, <2>2
<1>4. ASSUME NEW i \in 1..Len(rest) PROVE rest[i] = s[Len(u) + i]
  <2>1. i + 1 \in 1..Len(left) /\ rest[i] = left[i + 1]
    BY <1>1
  <2>2. left[i + 1] = s[Len(w) + (i + 1)]
    BY <2>1 DEF OnRoute
  <2>3. Len(w) + (i + 1) = Len(u) + i
    BY <1>1
  <2> QED
    BY <2>1, <2>2, <2>3
<1> HIDE DEF u, rest
<1> QED
  BY <1>2, <1>3, <1>4 DEF OnRoute, u, rest

-----------------------------------------------------------------------------
(***************************************************************************)
(* Types                                                                   *)
(***************************************************************************)

TypeInv == TypeOK /\ Stands /\ AllWanted

\* TypeOK of what a step of an acquisition changes.
CallsTyped ==
  /\ wanted \in [Commands -> SUBSET Papers]
  /\ at \in [Commands -> [Papers -> Steps]]
  /\ plan \in [Commands -> [Papers -> Seq(Formats)]]
  /\ body \in [Commands -> [Papers -> Responses \union {None}]]
  /\ warned \in [Commands -> [Papers -> Seq(Warnings)]]
  /\ result \in [Commands -> [Papers -> Readable \union {"failed", None}]]

LEMMA FormatType ==
  ASSUME TypeOK, NEW c \in Commands, NEW p \in Papers, plan[c][p] # <<>>
  PROVE  Format(c, p) \in Formats /\ Bodies[Format(c, p)] \subseteq Responses
BY BodyAssumption DEF TypeOK, Format, Responses

\* An acquisition that a step leaves alone stands where it stood.
Still(c, p) ==
  /\ at'[c][p] = at[c][p] /\ plan'[c][p] = plan[c][p] /\ body'[c][p] = body[c][p]
  /\ warned'[c][p] = warned[c][p] /\ result'[c][p] = result[c][p]
  /\ p \in wanted'[c] => p \in wanted[c]

LEMMA Unmoved ==
  ASSUME NEW c \in Commands, NEW p \in Papers, StandsAt(c, p), Still(c, p)
  PROVE  StandsAt(c, p)'
BY DEF StandsAt, Still, Format

LEMMA LaunchType ==
  ASSUME TypeInv, NEW c \in Commands, NEW papers \in SUBSET Papers,
         NEW plans \in [Papers -> Plans \union {<<>>}],
         \A p \in papers : plans[p] # <<>>, c \in Workshop => papers = Papers,
         Launch(c, papers, plans)
  PROVE  TypeInv'
<1> USE DEF TypeInv, call, store, reports
<1>1. wanted' \in [Commands -> SUBSET Papers] /\ wanted'[c] = papers
      /\ \A e \in Commands : e # c => wanted'[e] = wanted[e]
  BY DEF Launch, TypeOK
<1>2. plans \in [Papers -> Seq(Formats)]
  <2>1. <<>> \in Seq(Formats)
    OBVIOUS
  <2> QED
    BY <2>1, PlanType
<1>3. plan' \in [Commands -> [Papers -> Seq(Formats)]] /\ plan'[c] = plans
      /\ \A e \in Commands : e # c => plan'[e] = plan[e]
  BY <1>2 DEF Launch, TypeOK
<1>4. UNCHANGED <<at, body, warned, result>> /\ running' = running \union {c}
      /\ \A p \in Papers : at[c][p] = "idle"
  BY DEF Launch, Fresh
<1>5. TypeOK'
  BY <1>1, <1>3, <1>4 DEF Launch, TypeOK
<1>6. Stands'
  <2> SUFFICES ASSUME NEW e \in Commands, NEW p \in Papers PROVE StandsAt(e, p)'
    BY DEF Stands
  <2>1. CASE e = c
    BY <2>1, <1>1, <1>3, <1>4 DEF Stands, StandsAt
  <2>2. CASE e # c
    BY <2>2, <1>1, <1>3, <1>4, Unmoved DEF Stands, Still
  <2> QED
    BY <2>1, <2>2
<1>7. AllWanted'
  <2> SUFFICES ASSUME NEW e \in Workshop, e \in running', NEW p \in Papers
               PROVE  p \in wanted'[e] \/ at'[e][p] # "idle"
    BY DEF AllWanted
  <2>1. e \in Commands
    BY DEF Commands
  <2> QED
    BY <2>1, <1>1, <1>4 DEF AllWanted
<1> QED
  BY <1>5, <1>6, <1>7


\* A step of the acquisition of p by c: what it assigns is of its type, it stands
\* well afterwards, and all else that the invariant speaks of is left alone.
LEMMA StepType ==
  ASSUME TypeInv, NEW c \in Commands, NEW p \in Papers,
         NEW step \in Steps, NEW left \in Seq(Formats), NEW b \in Responses \union {None},
         NEW w \in Seq(Warnings), NEW res \in Readable \union {"failed", None},
         at' = Set(at, c, p, step), plan' = Set(plan, c, p, left), body' = Set(body, c, p, b),
         warned' = Set(warned, c, p, w), result' = Set(result, c, p, res),
         step # "idle", p \notin wanted'[c], running' = running,
         \A e \in Commands : wanted'[e] = IF e = c THEN wanted[c] \ {p} ELSE wanted[e],
         wanted' \in [Commands -> SUBSET Papers],
         step # "ended" => left # <<>>,
         step \in {"original", "normalized", "packet", "preserve"} => b \in Bodies[Head(left)],
         step \in {"original", "normalized", "packet"} => b \in Readable,
         step = "ended" => res # None
  PROVE  CallsTyped' /\ Stands' /\ AllWanted'
<1>1. /\ at' \in [Commands -> [Papers -> Steps]] /\ at'[c][p] = step
      /\ \A e \in Commands, q \in Papers : e # c \/ q # p => at'[e][q] = at[e][q]
  BY DEF TypeInv, TypeOK, Set
<1>2. /\ plan' \in [Commands -> [Papers -> Seq(Formats)]] /\ plan'[c][p] = left
      /\ \A e \in Commands, q \in Papers : e # c \/ q # p => plan'[e][q] = plan[e][q]
  <2> DEFINE S == Seq(Formats)
  <2>1. plan \in [Commands -> [Papers -> S]] /\ left \in S
    BY DEF TypeInv, TypeOK
  <2> HIDE DEF S
  <2>2. /\ plan' \in [Commands -> [Papers -> S]] /\ plan'[c][p] = left
        /\ \A e \in Commands, q \in Papers : e # c \/ q # p => plan'[e][q] = plan[e][q]
    BY <2>1 DEF Set
  <2> QED
    BY <2>2 DEF S
<1>3. /\ body' \in [Commands -> [Papers -> Responses \union {None}]] /\ body'[c][p] = b
      /\ \A e \in Commands, q \in Papers : e # c \/ q # p => body'[e][q] = body[e][q]
  <2> DEFINE S == Responses \union {None}
  <2>1. body \in [Commands -> [Papers -> S]] /\ b \in S
    BY DEF TypeInv, TypeOK
  <2> HIDE DEF S
  <2>2. /\ body' \in [Commands -> [Papers -> S]] /\ body'[c][p] = b
        /\ \A e \in Commands, q \in Papers : e # c \/ q # p => body'[e][q] = body[e][q]
    BY <2>1 DEF Set
  <2> QED
    BY <2>2 DEF S
<1>4. /\ warned' \in [Commands -> [Papers -> Seq(Warnings)]] /\ warned'[c][p] = w
      /\ \A e \in Commands, q \in Papers : e # c \/ q # p => warned'[e][q] = warned[e][q]
  <2> DEFINE S == Seq(Warnings)
  <2>1. warned \in [Commands -> [Papers -> S]] /\ w \in S
    BY DEF TypeInv, TypeOK
  <2> HIDE DEF S
  <2>2. /\ warned' \in [Commands -> [Papers -> S]] /\ warned'[c][p] = w
        /\ \A e \in Commands, q \in Papers : e # c \/ q # p => warned'[e][q] = warned[e][q]
    BY <2>1 DEF Set
  <2> QED
    BY <2>2 DEF S
<1>5. /\ result' \in [Commands -> [Papers -> Readable \union {"failed", None}]]
      /\ result'[c][p] = res
      /\ \A e \in Commands, q \in Papers : e # c \/ q # p => result'[e][q] = result[e][q]
  <2> DEFINE S == Readable \union {"failed", None}
  <2>1. result \in [Commands -> [Papers -> S]] /\ res \in S
    BY DEF TypeInv, TypeOK
  <2> HIDE DEF S
  <2>2. /\ result' \in [Commands -> [Papers -> S]] /\ result'[c][p] = res
        /\ \A e \in Commands, q \in Papers : e # c \/ q # p => result'[e][q] = result[e][q]
    BY <2>1 DEF Set
  <2> QED
    BY <2>2 DEF S
<1>6. Stands'
  <2> SUFFICES ASSUME NEW e \in Commands, NEW q \in Papers PROVE StandsAt(e, q)'
    BY DEF Stands
  <2>1. CASE e = c /\ q = p
    BY <2>1, <1>1, <1>2, <1>3, <1>4, <1>5 DEF StandsAt, Format
  <2>2. CASE e # c \/ q # p
    <3>1. Still(e, q)
      BY <2>2, <1>1, <1>2, <1>3, <1>4, <1>5 DEF Still
    <3> QED
      BY <3>1, Unmoved DEF TypeInv, Stands
  <2> QED
    BY <2>1, <2>2
<1>7. AllWanted'
  <2> SUFFICES ASSUME NEW e \in Workshop, e \in running', NEW q \in Papers
               PROVE  q \in wanted'[e] \/ at'[e][q] # "idle"
    BY DEF AllWanted
  <2>1. e \in Commands
    BY DEF Commands
  <2>2. q \in wanted[e] \/ at[e][q] # "idle"
    BY DEF TypeInv, AllWanted
  <2> QED
    BY <1>1, <2>1, <2>2
<1> QED
  BY <1>1, <1>2, <1>3, <1>4, <1>5, <1>6, <1>7 DEF CallsTyped


LEMMA SetSame ==
  ASSUME TypeOK, NEW c \in Commands, NEW p \in Papers
  PROVE  /\ plan = Set(plan, c, p, plan[c][p]) /\ body = Set(body, c, p, body[c][p])
         /\ warned = Set(warned, c, p, warned[c][p]) /\ result = Set(result, c, p, result[c][p])
BY DEF TypeOK, Set

LEMMA WantedSame ==
  ASSUME TypeInv, NEW c \in Commands, NEW p \in Papers, at[c][p] # "idle", UNCHANGED wanted
  PROVE  /\ wanted' \in [Commands -> SUBSET Papers]
         /\ \A e \in Commands : wanted'[e] = IF e = c THEN wanted[c] \ {p} ELSE wanted[e]
         /\ p \notin wanted'[c]
BY DEF TypeInv, TypeOK, Stands, StandsAt

\* A step of an acquisition that only moves on to another step.
LEMMA MoveType ==
  ASSUME TypeInv, NEW c \in Commands, NEW p \in Papers, NEW step \in Steps,
         NEW b \in Responses \union {None}, NEW res \in Readable \union {"failed", None},
         at[c][p] \notin {"idle", "ended"}, step # "idle",
         at' = Set(at, c, p, step), body' = Set(body, c, p, b), result' = Set(result, c, p, res),
         UNCHANGED <<wanted, running, plan, warned>>,
         step \in {"original", "normalized", "packet", "preserve"} => b \in Bodies[Format(c, p)],
         step \in {"original", "normalized", "packet"} => b \in Readable,
         step = "ended" => res # None
  PROVE  CallsTyped' /\ Stands' /\ AllWanted'
<1> DEFINE left == plan[c][p]
           w == warned[c][p]
<1>1. left \in Seq(Formats) /\ w \in Seq(Warnings)
  BY DEF TypeInv, TypeOK
<1>2. left # <<>> /\ Format(c, p) = Head(left)
  BY DEF TypeInv, Stands, StandsAt, Format
<1>3. plan' = Set(plan, c, p, left) /\ warned' = Set(warned, c, p, w)
  BY SetSame DEF TypeInv
<1>4. /\ wanted' \in [Commands -> SUBSET Papers] /\ p \notin wanted'[c]
      /\ \A e \in Commands : wanted'[e] = IF e = c THEN wanted[c] \ {p} ELSE wanted[e]
  BY WantedSame
<1>5. running' = running /\ p \notin wanted'[c]
  BY <1>4
<1> HIDE DEF left, w
<1> QED
  BY <1>1, <1>2, <1>3, <1>4, <1>5, StepType

LEMMA TailType ==
  ASSUME NEW S, NEW s \in Seq(S), s # <<>>
  PROVE  Tail(s) \in Seq(S) /\ (Len(s) # 1 => Tail(s) # <<>>)
<1>1. Len(s) \in Nat /\ Len(s) > 0
  OBVIOUS
<1>2. Tail(s) \in Seq(S) /\ Len(Tail(s)) = Len(s) - 1
  BY <1>1
<1>3. Len(s) # 1 => Len(Tail(s)) # 0
  BY <1>1, <1>2
<1>4. Len(<<>>) = 0
  OBVIOUS
<1> QED
  BY <1>2, <1>3, <1>4

LEMMA GiveUpType ==
  ASSUME TypeInv, NEW c \in Commands, NEW p \in Papers, NEW kept \in Responses \union {None},
         at[c][p] \notin {"idle", "ended"}, GiveUp(c, p, kept), UNCHANGED <<wanted, running>>
  PROVE  CallsTyped' /\ Stands' /\ AllWanted'
<1> DEFINE left == Tail(plan[c][p])
           v == [format |-> Format(c, p), kept |-> kept]
           w == Append(warned[c][p], v)
<1>1. plan[c][p] \in Seq(Formats) /\ plan[c][p] # <<>> /\ warned[c][p] \in Seq(Warnings)
  BY DEF TypeInv, TypeOK, Stands, StandsAt
<1>2. left \in Seq(Formats) /\ (Len(plan[c][p]) # 1 => left # <<>>)
  BY <1>1, TailType
<1>3. v \in Warnings
  BY <1>1, FormatType DEF Warnings, TypeInv
<1>4. w \in Seq(Warnings)
  BY <1>1, <1>3
<1>5. plan' = Set(plan, c, p, left) /\ body' = Set(body, c, p, None) /\ warned' = Set(warned, c, p, w)
  BY DEF GiveUp
<1>8. /\ wanted' \in [Commands -> SUBSET Papers] /\ p \notin wanted'[c]
      /\ \A e \in Commands : wanted'[e] = IF e = c THEN wanted[c] \ {p} ELSE wanted[e]
  BY WantedSame
<1> HIDE DEF left, v, w
<1>6. CASE Len(plan[c][p]) = 1
  <2>1. at' = Set(at, c, p, "ended") /\ result' = Set(result, c, p, "failed")
    BY <1>6 DEF GiveUp
  <2>2. None # "failed"
    BY NoneAssumption
  <2> QED
    BY <1>2, <1>4, <1>5, <1>8, <2>1, <2>2, StepType DEF Steps
<1>7. CASE Len(plan[c][p]) # 1
  <2> DEFINE res == result[c][p]
  <2>1. at' = Set(at, c, p, "fetch") /\ result' = Set(result, c, p, res)
    BY <1>7, SetSame DEF GiveUp, TypeInv
  <2>2. res \in Readable \union {"failed", None}
    BY DEF TypeInv, TypeOK
  <2> HIDE DEF res
  <2> QED
    BY <1>2, <1>4, <1>5, <1>7, <1>8, <2>1, <2>2, StepType DEF Steps
<1> QED
  BY <1>6, <1>7

LEMMA ManifestType ==
  ASSUME TypeOK, NEW c \in Commands, NEW p \in Papers
  PROVE  Manifest(c, p) \in Packets
BY DEF TypeOK, Manifest, Packets

LEMMA TypeInit == Init => TypeInv
<1> SUFFICES ASSUME Init PROVE TypeInv
  OBVIOUS
<1>1. <<>> \in Seq(Formats) /\ <<>> \in Seq(Warnings)
  OBVIOUS
<1>2. TypeOK
  BY <1>1 DEF Init, TypeOK, Steps
<1>3. Stands
  BY DEF Init, Stands, StandsAt
<1>4. AllWanted
  BY DEF Init, AllWanted
<1> QED
  BY <1>2, <1>3, <1>4 DEF TypeInv

LEMMA TypeStep == TypeInv /\ [Next]_vars => TypeInv'
<1> SUFFICES ASSUME TypeInv, [Next]_vars PROVE TypeInv'
  OBVIOUS
<1> USE DEF call, store, reports
<1>1. ASSUME NEW c \in Workshop, StartWorkshop(c) PROVE TypeInv'
  <2>1. Plan \in [Papers -> Plans \union {<<>>}] /\ \A p \in Papers : Plan[p] # <<>>
    BY CommandAssumption, PlanType
  <2> QED
    BY <1>1, <2>1, LaunchType DEF StartWorkshop, Commands
<1>2. ASSUME NEW c \in Single, StartSingle(c) PROVE TypeInv'
  <2>1. PICK p \in Papers, s \in Routes(c) :
          Launch(c, {p}, [q \in Papers |-> IF q = p THEN s ELSE <<>>])
    BY <1>2 DEF StartSingle
  <2> DEFINE plans == [q \in Papers |-> IF q = p THEN s ELSE <<>>]
  <2>2. plans \in [Papers -> Plans \union {<<>>}] /\ \A q \in {p} : plans[q] # <<>>
    BY RoutesArePlans, PlanType
  <2>3. c \in Commands /\ c \notin Workshop /\ Launch(c, {p}, plans)
    BY <2>1, CommandAssumption DEF Commands
  <2> HIDE DEF plans
  <2> QED
    BY <2>2, <2>3, LaunchType
<1>3. ASSUME NEW c \in Commands, NEW p \in Papers, Begin(c, p) PROVE TypeInv'
  <2> DEFINE left == plan[c][p]
             b == body[c][p]
             w == warned[c][p]
             res == result[c][p]
  <2>1. /\ left \in Seq(Formats) /\ b \in Responses \union {None} /\ w \in Seq(Warnings)
        /\ res \in Readable \union {"failed", None} /\ left # <<>>
    BY <1>3 DEF TypeInv, TypeOK, Begin, Stands, StandsAt
  <2>2. /\ plan' = Set(plan, c, p, left) /\ body' = Set(body, c, p, b)
        /\ warned' = Set(warned, c, p, w) /\ result' = Set(result, c, p, res)
    BY <1>3, SetSame DEF Begin, TypeInv
  <2>3. /\ wanted' \in [Commands -> SUBSET Papers] /\ p \notin wanted'[c]
        /\ \A e \in Commands : wanted'[e] = IF e = c THEN wanted[c] \ {p} ELSE wanted[e]
    BY <1>3 DEF Begin, TypeInv, TypeOK
  <2>4. at' = Set(at, c, p, "fetch") /\ running' = running
    BY <1>3 DEF Begin
  <2> HIDE DEF left, b, w, res
  <2>5. CallsTyped' /\ Stands' /\ AllWanted'
    BY <2>1, <2>2, <2>3, <2>4, StepType DEF Steps
  <2>6. TypeOK'
    BY <1>3, <2>3, <2>5 DEF Begin, TypeInv, TypeOK, CallsTyped
  <2> QED
    BY <2>5, <2>6 DEF TypeInv
<1>4. ASSUME NEW c \in Commands, NEW p \in Papers, Unavailable(c, p) PROVE TypeInv'
  <2>1. at[c][p] = "fetch" /\ GiveUp(c, p, None) /\ UNCHANGED <<wanted, running>>
    BY <1>4 DEF Unavailable, On
  <2> QED
    BY <2>1, <1>4, GiveUpType DEF TypeInv, TypeOK, CallsTyped, Unavailable
<1>5. ASSUME NEW c \in Commands, NEW p \in Papers, Fetch(c, p) PROVE TypeInv'
  <2>1. PICK b \in Bodies[Format(c, p)] :
          /\ body' = Set(body, c, p, b)
          /\ at' = Set(at, c, p, IF b \in Readable THEN "original" ELSE "preserve")
    BY <1>5 DEF Fetch
  <2>2. at[c][p] = "fetch" /\ UNCHANGED <<wanted, running, plan, warned, result>>
    BY <1>5 DEF Fetch, On
  <2>3. b \in Responses
    BY <2>2, FormatType DEF TypeInv, Stands, StandsAt
  <2>4. result' = Set(result, c, p, result[c][p]) /\ result[c][p] \in Readable \union {"failed", None}
    BY <2>2, SetSame DEF TypeInv, TypeOK
  <2> DEFINE step == IF b \in Readable THEN "original" ELSE "preserve"
  <2>5. step \in Steps /\ step \notin {"idle", "ended"} /\ (step # "preserve" => b \in Readable)
    BY DEF Steps
  <2>6. at' = Set(at, c, p, step)
    BY <2>1
  <2> HIDE DEF step
  <2> QED
    BY <1>5, <2>1, <2>2, <2>3, <2>4, <2>5, <2>6, MoveType DEF TypeInv, TypeOK, CallsTyped, Fetch
<1>6. ASSUME NEW c \in Commands, NEW p \in Papers,
             WriteOriginal(c, p) \/ WriteNormalized(c, p) \/ WritePacket(c, p) \/ Collide(c, p)
      PROVE  TypeInv'
  <2> DEFINE b == body[c][p]
             res == result[c][p]
  <2>1. /\ at[c][p] \in {"original", "normalized", "packet"}
        /\ UNCHANGED <<wanted, running, plan, warned, body>>
    BY <1>6 DEF WriteOriginal, WriteNormalized, WritePacket, Collide, On
  <2>2. b \in Readable /\ b \in Bodies[Format(c, p)]
    BY <2>1 DEF TypeInv, Stands, StandsAt
  <2>3. b \in Responses /\ b # None /\ Readable \subseteq Responses
    BY <2>2, BodyAssumption, NoneAssumption
  <2>4. body' = Set(body, c, p, b)
    BY <2>1, SetSame DEF TypeInv
  <2>5. res \in Readable \union {"failed", None} /\ result = Set(result, c, p, res)
    BY SetSame DEF TypeInv, TypeOK
  <2> HIDE DEF res
  <2>6. CASE WriteOriginal(c, p)
    <3>1. at' = Set(at, c, p, "normalized") /\ UNCHANGED result
      BY <2>6 DEF WriteOriginal
    <3>2. original' \in [Papers -> SUBSET Readable]
      BY <2>2, <2>6 DEF WriteOriginal, TypeInv, TypeOK
    <3> HIDE DEF b
    <3>3. CallsTyped' /\ Stands' /\ AllWanted'
      BY <2>1, <2>2, <2>3, <2>4, <2>5, <3>1, MoveType DEF Steps
    <3> QED
      BY <2>6, <3>3, <3>2 DEF TypeInv, TypeOK, CallsTyped, WriteOriginal
  <2>7. CASE WriteNormalized(c, p)
    <3>1. at' = Set(at, c, p, "packet") /\ UNCHANGED result
      BY <2>7 DEF WriteNormalized
    <3>2. normalized' \in [Papers -> SUBSET Readable]
      BY <2>2, <2>7 DEF WriteNormalized, TypeInv, TypeOK
    <3> HIDE DEF b
    <3>3. CallsTyped' /\ Stands' /\ AllWanted'
      BY <2>1, <2>2, <2>3, <2>4, <2>5, <3>1, MoveType DEF Steps
    <3> QED
      BY <2>7, <3>3, <3>2 DEF TypeInv, TypeOK, CallsTyped, WriteNormalized
  <2>8. CASE WritePacket(c, p)
    <3>1. at' = Set(at, c, p, "ended") /\ result' = Set(result, c, p, b)
      BY <2>8 DEF WritePacket
    <3>2. packet' \in [Papers -> [Readable -> Packets \union {None}]]
      BY <2>2, <2>8, ManifestType DEF WritePacket, TypeInv, TypeOK
    <3> HIDE DEF b
    <3>3. CallsTyped' /\ Stands' /\ AllWanted'
      BY <2>1, <2>2, <2>3, <2>4, <3>1, MoveType DEF Steps
    <3> QED
      BY <2>8, <3>3, <3>2 DEF TypeInv, TypeOK, CallsTyped, WritePacket
  <2>9. CASE Collide(c, p)
    <3>1. at' = Set(at, c, p, "preserve") /\ UNCHANGED result
      BY <2>9 DEF Collide
    <3> HIDE DEF b
    <3>3. CallsTyped' /\ Stands' /\ AllWanted'
      BY <2>1, <2>2, <2>3, <2>4, <2>5, <3>1, MoveType DEF Steps
    <3> QED
      BY <2>9, <3>3 DEF TypeInv, TypeOK, CallsTyped, Collide
  <2> QED
    BY <1>6, <2>6, <2>7, <2>8, <2>9
<1>7. ASSUME NEW c \in Commands, NEW p \in Papers, Preserve(c, p) PROVE TypeInv'
  <2>1. at[c][p] = "preserve" /\ GiveUp(c, p, body[c][p]) /\ UNCHANGED <<wanted, running>>
    BY <1>7 DEF Preserve, On
  <2>2. body[c][p] \in Responses
    BY <2>1, FormatType DEF TypeInv, Stands, StandsAt
  <2>3. preserved' \in [Papers -> SUBSET Responses]
    BY <1>7, <2>2 DEF Preserve, TypeInv, TypeOK
  <2> QED
    BY <2>1, <2>2, <2>3, <1>7, GiveUpType DEF TypeInv, TypeOK, CallsTyped, Preserve
<1>8. ASSUME NEW c \in Commands, Report(c) PROVE TypeInv'
  <2>1. ASSUME c \in Workshop PROVE result[c] \in Results
    <3>1. ASSUME NEW p \in Papers PROVE result[c][p] \in Readable \union {"failed"}
      <4>1. p \notin wanted[c] /\ at[c][p] \in {"idle", "ended"} /\ c \in running
        BY <1>8 DEF Report, Finished, Busy
      <4>2. at[c][p] = "ended"
        BY <2>1, <4>1 DEF TypeInv, AllWanted
      <4> QED
        BY <4>2 DEF TypeInv, TypeOK, Stands, StandsAt
    <3> QED
      BY <3>1 DEF TypeInv, TypeOK, Results
  <2>2. acquisition' \in Acquisitions \union {None}
    BY <2>1, <1>8 DEF Report, Acquisitions, TypeInv, TypeOK
  <2>3. Stands'
    BY <1>8 DEF Report, TypeInv, Stands, StandsAt, Format
  <2>4. AllWanted'
    BY <1>8 DEF Report, TypeInv, AllWanted
  <2> QED
    BY <1>8, <2>2, <2>3, <2>4 DEF Report, TypeInv, TypeOK
<1>9. ASSUME NEW c \in Commands, Kill(c) PROVE TypeInv'
  <2>1. Stands'
    BY <1>9 DEF Kill, TypeInv, Stands, StandsAt, Format
  <2>2. AllWanted'
    BY <1>9 DEF Kill, TypeInv, AllWanted
  <2> QED
    BY <1>9, <2>1, <2>2 DEF Kill, TypeInv, TypeOK
<1>10. ASSUME UNCHANGED <<running, wanted, call, store, acquisition, killed>>,
              seen' \in Findings \union {None}, readiness' \in Findings \union {None}
       PROVE  TypeInv'
  <2>1. Stands' /\ AllWanted'
    BY <1>10 DEF TypeInv, Stands, StandsAt, Format, AllWanted
  <2> QED
    BY <1>10, <2>1 DEF TypeInv, TypeOK
<1>11. CASE StartReconcile
  <2>1. seen' \in Findings
    BY <1>11 DEF StartReconcile, Findings
  <2> QED
    BY <1>10, <1>11, <2>1 DEF StartReconcile, TypeInv, TypeOK
<1>12. ASSUME NEW p \in Papers, Look(p) PROVE TypeInv'
  <2>1. seen' \in Findings
    BY <1>12 DEF Look, Findings, TypeInv, TypeOK
  <2> QED
    BY <1>10, <1>12, <2>1 DEF Look, TypeInv, TypeOK
<1>13. CASE WriteReadiness
  BY <1>10, <1>13 DEF WriteReadiness, TypeInv, TypeOK
<1>14. CASE UNCHANGED vars
  BY <1>10, <1>14 DEF vars, TypeInv, TypeOK
<1> QED
  BY <1>1, <1>2, <1>3, <1>4, <1>5, <1>6, <1>7, <1>8, <1>9, <1>11, <1>12, <1>13, <1>14
  DEF Next, Acquire

\* The variables of the acquisition have their types.
THEOREM TypeCorrect == Spec => []TypeOK
<1>1. TypeInv => TypeOK
  BY DEF TypeInv
<1> QED
  BY <1>1, TypeInit, TypeStep, PTL DEF Spec


-----------------------------------------------------------------------------
(***************************************************************************)
(* Packets                                                                 *)
(***************************************************************************)

FileInv == Underway /\ PacketsAreBacked /\ FallbackIsExplained

\* Files are never removed.
StoresGrow ==
  \A p \in Papers :
    original[p] \subseteq original'[p] /\ normalized[p] \subseteq normalized'[p]
      /\ preserved[p] \subseteq preserved'[p]

LEMMA StillUnderway ==
  ASSUME NEW c \in Commands, NEW p \in Papers, Still(c, p), StoresGrow,
         RoutedAt(c, p) /\ KeptAt(c, p) /\ StoredAt(c, p)
  PROVE  (RoutedAt(c, p) /\ KeptAt(c, p) /\ StoredAt(c, p))'
<1>1. RoutedAt(c, p)'
  BY DEF Still, RoutedAt
<1>2. KeptAt(c, p)'
  BY DEF Still, KeptAt, StoresGrow
<1>3. StoredAt(c, p)'
  BY DEF Still, StoredAt, StoresGrow
<1> QED
  BY <1>1, <1>2, <1>3

LEMMA PacketsStay ==
  ASSUME StoresGrow, UNCHANGED packet, PacketsAreBacked, FallbackIsExplained
  PROVE  PacketsAreBacked' /\ FallbackIsExplained'
BY DEF StoresGrow, PacketsAreBacked, FallbackIsExplained

LEMMA Before ==
  ASSUME NEW m \in Nat, NEW n \in Nat, NEW k \in Nat, m + n = k, n > 0
  PROVE  m < k /\ m + 1 \in 1..k /\ (n > 1 => m + 1 # k)
OBVIOUS

\* A step of the acquisition of p by c leaves the other ones alone.
LEMMA OthersStill ==
  ASSUME TypeOK, NEW c \in Commands, NEW p \in Papers, Acquire(c, p) \/ Begin(c, p),
         NEW e \in Commands, NEW q \in Papers, e # c \/ q # p
  PROVE  Still(e, q)
BY DEF TypeOK, Acquire, Begin, Unavailable, Fetch, WriteOriginal, WriteNormalized, WritePacket,
       Collide, Preserve, GiveUp, Set, Still, call

LEMMA GiveUpUnderway ==
  ASSUME TypeInv, NEW c \in Commands, NEW p \in Papers, NEW kept \in Responses \union {None},
         at[c][p] \notin {"idle", "ended"}, GiveUp(c, p, kept), StoresGrow,
         kept # None /\ Format(c, p) # "abstract" /\ c \notin Local => kept \in preserved'[p],
         RoutedAt(c, p), KeptAt(c, p)
  PROVE  (RoutedAt(c, p) /\ KeptAt(c, p) /\ StoredAt(c, p))'
<1> DEFINE w == warned[c][p]
           left == plan[c][p]
           v == [format |-> Format(c, p), kept |-> kept]
<1>1. left \in Seq(Formats) /\ left # <<>> /\ w \in Seq(Warnings)
  BY DEF TypeInv, TypeOK, Stands, StandsAt
<1>2. v \in Warnings /\ v.format = Head(left)
  BY <1>1, FormatType DEF Warnings, TypeInv, Format
<1>3. plan'[c][p] = Tail(left) /\ warned'[c][p] = Append(w, v) /\ at'[c][p] \in {"ended", "fetch"}
  BY DEF GiveUp, Set, TypeInv, TypeOK
<1>4. PICK s \in Routes(c) : OnRoute(s, w, left)
  BY <1>1 DEF RoutedAt
<1>10. s \in Plans /\ (c \in Local => Len(s) = 1)
  BY RoutesArePlans
<1>5. OnRoute(s, Append(w, v), Tail(left))
  <2> HIDE DEF w, left, v
  <2> QED
    BY <1>1, <1>2, <1>4, <1>10, RouteGoesOn
<1>6. RoutedAt(c, p)'
  BY <1>3, <1>5 DEF RoutedAt
<1>7. ASSUME Tail(left) # <<>> PROVE Format(c, p) # "abstract" /\ c \notin Local
  <2>1. Len(left) \in Nat /\ Len(w) \in Nat /\ Len(left) > 1
    BY <1>1, <1>7
  <2>2. Head(left) = left[1] /\ 1 \in 1..Len(left) /\ Len(s) \in Nat
    BY <1>1, <1>10, <2>1, PlanType
  <2>3. left[1] = s[Len(w) + 1] /\ Len(w) + Len(left) = Len(s)
    BY <1>4, <2>2 DEF OnRoute
  <2>4. Len(w) + 1 \in 1..Len(s) /\ Len(w) + 1 # Len(s)
    <3> HIDE DEF w, left
    <3>1. Len(left) > 0 /\ Len(left) \in Nat
      BY <2>1
    <3> QED
      BY <3>1, <2>1, <2>2, <2>3, Before
  <2>5. Len(s) # 1
    <3> HIDE DEF w, left
    <3> QED
      BY <2>1, <2>3
  <2> QED
    BY <1>10, <2>2, <2>3, <2>4, <2>5, AbstractIsLast DEF Format
<1>8. KeptAt(c, p)'
  <2> SUFFICES ASSUME Tail(left) # <<>>, NEW i \in 1..Len(Append(w, v)),
                      Append(w, v)[i].kept # None
               PROVE  Append(w, v)[i].kept \in preserved'[p]
    BY <1>3 DEF KeptAt
  <2>1. CASE i = Len(w) + 1
    <3>1. Append(w, v)[i] = v
      BY <1>1, <2>1
    <3> QED
      BY <3>1, <1>7
  <2>2. CASE i # Len(w) + 1
    <3>1. i \in 1..Len(w) /\ Append(w, v)[i] = w[i]
      BY <1>1, <2>2
    <3> QED
      BY <3>1, <1>1 DEF KeptAt, StoresGrow
  <2> QED
    BY <2>1, <2>2
<1>9. StoredAt(c, p)'
  BY <1>3 DEF StoredAt
<1> QED
  BY <1>6, <1>8, <1>9

LEMMA LaunchUnderway ==
  ASSUME TypeInv, FileInv, NEW c \in Commands, NEW papers,
         NEW plans \in [Papers -> Routes(c) \union {<<>>}], Launch(c, papers, plans)
  PROVE  FileInv'
<1>1. StoresGrow /\ UNCHANGED <<packet, at, warned, body, result>>
  BY DEF Launch, StoresGrow, store
<1>2. ASSUME NEW e \in Commands, NEW p \in Papers
      PROVE  (RoutedAt(e, p) /\ KeptAt(e, p) /\ StoredAt(e, p))'
  <2>1. plan' = [plan EXCEPT ![c] = plans] /\ plan \in [Commands -> [Papers -> Seq(Formats)]]
    BY DEF Launch, TypeInv, TypeOK
  <2>2. CASE e # c
    <3>1. plan'[e][p] = plan[e][p]
      BY <2>1, <2>2
    <3> QED
      BY <3>1, <1>1 DEF FileInv, Underway, RoutedAt, KeptAt, StoredAt, Launch, store
  <2>3. CASE e = c
    <3>1. at[c][p] = "idle" /\ warned[c][p] = <<>>
      BY DEF Launch, Fresh, TypeInv, Stands, StandsAt
    <3>2. plan'[c][p] = plans[p] /\ (plans[p] # <<>> => plans[p] \in Routes(c))
      BY <2>1
    <3>3. RoutedAt(c, p)'
      <4>1. plans[p] # <<>> => OnRoute(plans[p], <<>>, plans[p])
        BY <3>2, RoutesArePlans, RouteBegins
      <4> QED
        BY <3>1, <3>2, <1>1, <4>1 DEF RoutedAt
    <3>4. KeptAt(c, p)'
      BY <3>1, <1>1 DEF KeptAt
    <3>5. StoredAt(c, p)'
      BY <3>1, <1>1 DEF StoredAt
    <3> QED
      BY <2>3, <3>3, <3>4, <3>5
  <2> QED
    BY <2>2, <2>3
<1> QED
  BY <1>1, <1>2, PacketsStay DEF FileInv, Underway

LEMMA FileStep == TypeInv /\ FileInv /\ [Next]_vars => FileInv'
<1> SUFFICES ASSUME TypeInv, FileInv, [Next]_vars PROVE FileInv'
  OBVIOUS
<1> USE DEF call, store, reports
<1>1. ASSUME NEW c \in Commands, NEW p \in Papers, Acquire(c, p) \/ Begin(c, p), StoresGrow,
             (RoutedAt(c, p) /\ KeptAt(c, p) /\ StoredAt(c, p))'
      PROVE  Underway'
  <2> SUFFICES ASSUME NEW e \in Commands, NEW q \in Papers
               PROVE  (RoutedAt(e, q) /\ KeptAt(e, q) /\ StoredAt(e, q))'
    BY DEF Underway
  <2>1. CASE e = c /\ q = p
    BY <2>1, <1>1
  <2>2. CASE e # c \/ q # p
    BY <2>2, <1>1, OthersStill, StillUnderway DEF TypeInv, FileInv, Underway
  <2> QED
    BY <2>1, <2>2
<1>2. ASSUME UNCHANGED <<packet, original, normalized, preserved>>
      PROVE  StoresGrow /\ PacketsAreBacked' /\ FallbackIsExplained'
  <2>1. StoresGrow
    BY <1>2 DEF StoresGrow
  <2> QED
    BY <2>1, <1>2, PacketsStay DEF FileInv
<1>3. ASSUME NEW c \in Workshop, StartWorkshop(c) PROVE FileInv'
  <2>1. Plan \in [Papers -> Routes(c) \union {<<>>}]
    BY CommandAssumption DEF Routes
  <2> QED
    BY <1>3, <2>1, LaunchUnderway DEF StartWorkshop, Commands
<1>4. ASSUME NEW c \in Single, StartSingle(c) PROVE FileInv'
  <2>1. PICK p \in Papers, s \in Routes(c) :
          Launch(c, {p}, [q \in Papers |-> IF q = p THEN s ELSE <<>>])
    BY <1>4 DEF StartSingle
  <2> DEFINE plans == [q \in Papers |-> IF q = p THEN s ELSE <<>>]
  <2>2. plans \in [Papers -> Routes(c) \union {<<>>}] /\ c \in Commands /\ Launch(c, {p}, plans)
    BY <2>1 DEF Commands
  <2> HIDE DEF plans
  <2> QED
    BY <2>2, LaunchUnderway
<1>5. ASSUME NEW c \in Commands, NEW p \in Papers, Begin(c, p) PROVE FileInv'
  <2>1. at'[c][p] = "fetch" /\ UNCHANGED <<plan, body, warned, result, store>>
    BY <1>5 DEF Begin, Set, TypeInv, TypeOK
  <2>2. (RoutedAt(c, p) /\ KeptAt(c, p) /\ StoredAt(c, p))'
    BY <2>1 DEF FileInv, Underway, RoutedAt, KeptAt, StoredAt
  <2> QED
    BY <1>1, <1>2, <1>5, <2>1, <2>2 DEF FileInv
<1>6. ASSUME NEW c \in Commands, NEW p \in Papers, Unavailable(c, p) PROVE FileInv'
  <2>1. at[c][p] = "fetch" /\ GiveUp(c, p, None) /\ UNCHANGED store
    BY <1>6 DEF Unavailable, On
  <2>2. (RoutedAt(c, p) /\ KeptAt(c, p) /\ StoredAt(c, p))'
    BY <2>1, <1>2, GiveUpUnderway DEF FileInv, Underway
  <2> QED
    BY <1>1, <1>2, <1>6, <2>1, <2>2 DEF FileInv, Acquire
<1>7. ASSUME NEW c \in Commands, NEW p \in Papers, Fetch(c, p) PROVE FileInv'
  <2>1. UNCHANGED <<plan, warned, store>> /\ at'[c][p] \in {"original", "preserve"}
    BY <1>7 DEF Fetch, Set, TypeInv, TypeOK
  <2>2. (RoutedAt(c, p) /\ KeptAt(c, p) /\ StoredAt(c, p))'
    BY <2>1 DEF FileInv, Underway, RoutedAt, KeptAt, StoredAt
  <2> QED
    BY <1>1, <1>2, <1>7, <2>1, <2>2 DEF FileInv, Acquire
<1>8. ASSUME NEW c \in Commands, NEW p \in Papers, WriteOriginal(c, p) PROVE FileInv'
  <2>1. /\ UNCHANGED <<plan, warned, body, normalized, packet, preserved>>
        /\ at'[c][p] = "normalized" /\ body[c][p] \in original'[p] /\ StoresGrow
    BY <1>8 DEF WriteOriginal, Set, TypeInv, TypeOK, StoresGrow
  <2>2. (RoutedAt(c, p) /\ KeptAt(c, p) /\ StoredAt(c, p))'
    BY <2>1 DEF FileInv, Underway, RoutedAt, KeptAt, StoredAt
  <2> QED
    BY <1>1, <1>8, <2>1, <2>2, PacketsStay DEF FileInv, Acquire
<1>9. ASSUME NEW c \in Commands, NEW p \in Papers, WriteNormalized(c, p) PROVE FileInv'
  <2>1. /\ UNCHANGED <<plan, warned, body, original, packet, preserved>>
        /\ at[c][p] = "normalized" /\ at'[c][p] = "packet"
        /\ body[c][p] \in normalized'[p] /\ StoresGrow
    BY <1>9 DEF WriteNormalized, On, Set, TypeInv, TypeOK, StoresGrow
  <2>2. (RoutedAt(c, p) /\ KeptAt(c, p) /\ StoredAt(c, p))'
    BY <2>1 DEF FileInv, Underway, RoutedAt, KeptAt, StoredAt
  <2> QED
    BY <1>1, <1>9, <2>1, <2>2, PacketsStay DEF FileInv, Acquire
<1>10. ASSUME NEW c \in Commands, NEW p \in Papers, WritePacket(c, p) PROVE FileInv'
  <2> DEFINE b == body[c][p]
             w == warned[c][p]
             left == plan[c][p]
  <2>1. /\ UNCHANGED <<plan, warned, body, original, normalized, preserved>>
        /\ at[c][p] = "packet" /\ at'[c][p] = "ended" /\ StoresGrow
    BY <1>10 DEF WritePacket, On, Set, TypeInv, TypeOK, StoresGrow
  <2>2. (RoutedAt(c, p) /\ KeptAt(c, p) /\ StoredAt(c, p))'
    BY <2>1 DEF FileInv, Underway, RoutedAt, KeptAt, StoredAt
  <2>3. /\ b \in Readable /\ b \in Bodies[Format(c, p)] /\ left # <<>>
        /\ w \in Seq(Warnings) /\ left \in Seq(Formats)
        /\ b \in original[p] /\ b \in normalized[p]
    BY <2>1 DEF TypeInv, TypeOK, Stands, StandsAt, FileInv, Underway, StoredAt
  <2>4. /\ packet'[p][b] = Manifest(c, p)
        /\ \A q \in Papers, d \in Readable : q # p \/ d # b => packet'[q][d] = packet[q][d]
    BY <1>10, <2>3 DEF WritePacket, TypeInv, TypeOK
  <2>5. PacketsAreBacked'
    BY <2>1, <2>3, <2>4 DEF FileInv, PacketsAreBacked
  <2>6. PICK s \in Plans : OnRoute(s, w, left)
    BY <2>3, RoutesArePlans DEF FileInv, Underway, RoutedAt
  <2>7. Len(w) \in Nat /\ Len(left) \in Nat /\ Len(left) > 0 /\ Len(s) \in Nat
    BY <2>3, PlanType
  <2>8. Len(w) < Len(s)
    <3>1. Len(w) + Len(left) = Len(s)
      BY <2>6 DEF OnRoute
    <3> QED
      BY <3>1, <2>7, Before
  <2>9. b \in Bodies[s[Len(w) + 1]]
    <3>1. Head(left) = left[1] /\ 1 \in 1..Len(left)
      BY <2>3, <2>7
    <3>2. left[1] = s[Len(w) + 1]
      BY <3>1, <2>6 DEF OnRoute
    <3> QED
      BY <3>1, <3>2, <2>3 DEF Format
  <2>10. \A i \in 1..Len(w) : w[i].format = s[i] /\ (w[i].kept # None => w[i].kept \in preserved'[p])
    BY <2>1, <2>3, <2>6 DEF OnRoute, FileInv, Underway, KeptAt
  <2>11. packet'[p][b].warnings = w
    BY <2>4 DEF Manifest
  <2>12. FallbackIsExplained'
    <3> HIDE DEF b, w, left
    <3> SUFFICES ASSUME NEW q \in Papers, NEW d \in Readable, packet'[q][d] # None
                 PROVE  LET u == packet'[q][d].warnings IN
                          /\ \E r \in Plans :
                               /\ Len(u) < Len(r)
                               /\ d \in Bodies[r[Len(u) + 1]]
                               /\ \A i \in 1..Len(u) : u[i].format = r[i]
                          /\ \A i \in 1..Len(u) : u[i].kept # None => u[i].kept \in preserved'[q]
      BY DEF FallbackIsExplained
    <3>1. CASE q = p /\ d = b
      BY <3>1, <2>8, <2>9, <2>10, <2>11
    <3>2. CASE q # p \/ d # b
      <4>1. packet'[q][d] = packet[q][d] /\ preserved' = preserved
        BY <3>2, <2>1, <2>4
      <4> QED
        BY <4>1 DEF FileInv, FallbackIsExplained
    <3> QED
      BY <3>1, <3>2
  <2> QED
    BY <1>1, <1>10, <2>1, <2>2, <2>5, <2>12 DEF FileInv, Acquire
<1>11. ASSUME NEW c \in Commands, NEW p \in Papers, Collide(c, p) PROVE FileInv'
  <2>1. UNCHANGED <<plan, warned, store>> /\ at'[c][p] = "preserve"
    BY <1>11 DEF Collide, Set, TypeInv, TypeOK
  <2>2. (RoutedAt(c, p) /\ KeptAt(c, p) /\ StoredAt(c, p))'
    BY <2>1 DEF FileInv, Underway, RoutedAt, KeptAt, StoredAt
  <2> QED
    BY <1>1, <1>2, <1>11, <2>1, <2>2 DEF FileInv, Acquire
<1>12. ASSUME NEW c \in Commands, NEW p \in Papers, Preserve(c, p) PROVE FileInv'
  <2>1. at[c][p] = "preserve" /\ GiveUp(c, p, body[c][p]) /\ UNCHANGED <<original, normalized, packet>>
    BY <1>12 DEF Preserve, On
  <2>2. body[c][p] \in Responses
    BY <2>1, FormatType DEF TypeInv, Stands, StandsAt
  <2>3. /\ StoresGrow
        /\ Format(c, p) # "abstract" /\ c \notin Local => body[c][p] \in preserved'[p]
    BY <1>12, <2>1 DEF Preserve, TypeInv, TypeOK, StoresGrow
  <2>4. (RoutedAt(c, p) /\ KeptAt(c, p) /\ StoredAt(c, p))'
    BY <2>1, <2>2, <2>3, GiveUpUnderway DEF FileInv, Underway
  <2> QED
    BY <1>1, <1>12, <2>1, <2>3, <2>4, PacketsStay DEF FileInv, Acquire
<1>13. CASE UNCHANGED <<call, store>>
  <2>1. Underway'
    BY <1>13 DEF FileInv, Underway, RoutedAt, KeptAt, StoredAt
  <2> QED
    BY <2>1, <1>2, <1>13 DEF FileInv
<1> QED
  BY <1>3, <1>4, <1>5, <1>6, <1>7, <1>8, <1>9, <1>10, <1>11, <1>12, <1>13
  DEF Next, Acquire, Report, Kill, StartReconcile, Look, WriteReadiness, vars

LEMMA FileInit == Init => FileInv
BY DEF Init, FileInv, Underway, RoutedAt, KeptAt, StoredAt, PacketsAreBacked, FallbackIsExplained

THEOREM Files == Spec => [](TypeInv /\ FileInv)
<1>1. Init => TypeInv /\ FileInv
  BY TypeInit, FileInit
<1>2. TypeInv /\ FileInv /\ [Next]_vars => (TypeInv /\ FileInv)'
  BY TypeStep, FileStep
<1> QED
  BY <1>1, <1>2, PTL DEF Spec

\* A packet names files that are there, whoever was killed where.
THEOREM BackedPackets == Spec => []PacketsAreBacked
<1>1. TypeInv /\ FileInv => PacketsAreBacked
  BY DEF FileInv
<1> QED
  BY <1>1, Files, PTL

\* A packet of a second choice warns of every format tried before it, and the
\* responses rejected on the way are preserved.
THEOREM ExplainedFallbacks == Spec => []FallbackIsExplained
<1>1. TypeInv /\ FileInv => FallbackIsExplained
  BY DEF FileInv
<1> QED
  BY <1>1, Files, PTL

-----------------------------------------------------------------------------
(***************************************************************************)
(* Reports                                                                 *)
(***************************************************************************)

\* What a command has returned as a document is frozen at its time.
Frozen ==
  \A c \in Commands, p \in Papers :
    result[c][p] \in Readable =>
      packet[p][result[c][p]] # None /\ packet[p][result[c][p]].time = Time[c]

\* The file on the acquisitions is about a command that has ended them all.
Reported ==
  acquisition # None =>
    \A p \in Papers :
      /\ at[acquisition.command][p] = "ended"
      /\ acquisition.results[p] = result[acquisition.command][p]

\* x is said of p rightly.
Judged(p, x) ==
  \/ x \in Readable /\ packet[p][x] # None
  \/ /\ x = "not_ready"
     /\ \/ acquisition.results[p] = "failed"
        \/ \E d, e \in Readable : d # e /\ packet[p][d] # None /\ packet[p][e] # None

Looked ==
  /\ seen # None => acquisition # None /\ \A p \in Papers : seen[p] # None => Judged(p, seen[p])
  /\ readiness # None => acquisition # None /\ \A p \in Papers : Judged(p, readiness[p])

ReportInv == Frozen /\ Reported /\ Looked

\* A packet, once written, is never another one.
PacketsKept ==
  \A p \in Papers, d \in Readable : packet[p][d] # None => packet'[p][d] = packet[p][d]

LEMMA WritePacketStep ==
  ASSUME TypeInv, NEW c \in Commands, NEW p \in Papers, WritePacket(c, p)
  PROVE  /\ body[c][p] \in Readable
         /\ packet'[p][body[c][p]] = Manifest(c, p) /\ Manifest(c, p) # None
         /\ PacketsKept
         /\ result'[c][p] = body[c][p]
<1>1. body[c][p] \in Readable
  BY DEF TypeInv, Stands, StandsAt, WritePacket, On
<1>2. Manifest(c, p) \in Packets
  BY DEF Manifest, Packets, TypeInv, TypeOK
<1>3. Manifest(c, p) # None
  BY <1>2, NoneAssumption
<1>4. /\ packet'[p][body[c][p]] = Manifest(c, p)
      /\ \A q \in Papers, d \in Readable : q # p \/ d # body[c][p] => packet'[q][d] = packet[q][d]
  BY <1>1 DEF WritePacket, TypeInv, TypeOK
<1>5. packet[p][body[c][p]] \in {None, Manifest(c, p)}
  BY DEF WritePacket
<1>6. PacketsKept
  BY <1>1, <1>4, <1>5 DEF PacketsKept
<1>7. result'[c][p] = body[c][p]
  BY DEF WritePacket, Set, TypeInv, TypeOK
<1> QED
  BY <1>1, <1>3, <1>4, <1>6, <1>7

\* The steps that are not of an acquisition leave its results and packets alone.
LEMMA OtherSteps ==
  ASSUME [Next]_vars, ~ \E c \in Commands, p \in Papers : Acquire(c, p) \/ Begin(c, p)
  PROVE  UNCHANGED <<at, result, packet>>
BY DEF Next, StartWorkshop, StartSingle, Launch, Report, Kill, StartReconcile, Look,
       WriteReadiness, vars, call, store

LEMMA EndedStays ==
  ASSUME TypeInv, [Next]_vars, NEW c \in Commands, NEW p \in Papers, at[c][p] = "ended"
  PROVE  at'[c][p] = "ended" /\ result'[c][p] = result[c][p]
<1>1. CASE \E e \in Commands, q \in Papers : Acquire(e, q) \/ Begin(e, q)
  <2> PICK e \in Commands, q \in Papers : Acquire(e, q) \/ Begin(e, q)
    BY <1>1
  <2>1. ~ (e = c /\ q = p)
    BY DEF Acquire, Begin, Unavailable, Fetch, WriteOriginal, WriteNormalized, WritePacket,
           Collide, Preserve, On, TypeInv, Stands, StandsAt
  <2> QED
    BY <2>1, OthersStill DEF Still, TypeInv
<1>2. CASE ~ \E e \in Commands, q \in Papers : Acquire(e, q) \/ Begin(e, q)
  BY <1>2, OtherSteps
<1> QED
  BY <1>1, <1>2

\* Any step but WritePacket leaves the packets alone, and makes no result a document.
LEMMA FrozenStep ==
  ASSUME TypeInv, Frozen, [Next]_vars
  PROVE  Frozen' /\ PacketsKept
<1>1. CASE \E c \in Commands, p \in Papers : Acquire(c, p) \/ Begin(c, p)
  <2> PICK c \in Commands, p \in Papers : Acquire(c, p) \/ Begin(c, p)
    BY <1>1
  <2>1. PacketsKept
    <3>1. CASE WritePacket(c, p)
      BY <3>1, WritePacketStep
    <3>2. CASE ~ WritePacket(c, p)
      <4>1. packet' = packet
        BY <3>2 DEF Acquire, Begin, Unavailable, Fetch, WriteOriginal, WriteNormalized,
                    Collide, Preserve, store
      <4> QED
        BY <4>1 DEF PacketsKept
    <3> QED
      BY <3>1, <3>2
  <2>2. ASSUME result'[c][p] \in Readable, ~ WritePacket(c, p)
        PROVE  result'[c][p] = result[c][p]
    <3>1. "failed" \notin Readable
      BY BodyAssumption
    <3>2. UNCHANGED result \/ result' = Set(result, c, p, "failed")
      BY <2>2 DEF Acquire, Begin, Unavailable, Fetch, WriteOriginal, WriteNormalized,
                  Collide, Preserve, GiveUp, store
    <3>3. ASSUME result' = Set(result, c, p, "failed") PROVE result'[c][p] = "failed"
      BY <3>3 DEF Set, TypeInv, TypeOK
    <3> QED
      BY <2>2, <3>1, <3>2, <3>3
  <2>3. ASSUME NEW e \in Commands, NEW q \in Papers, result'[e][q] \in Readable
        PROVE  packet'[q][result'[e][q]] # None /\ packet'[q][result'[e][q]].time = Time[e]
    <3>1. CASE e = c /\ q = p /\ WritePacket(c, p)
      <4>1. /\ packet'[p][body[c][p]] = Manifest(c, p) /\ Manifest(c, p) # None
            /\ result'[c][p] = body[c][p]
        BY <3>1, WritePacketStep
      <4>2. Manifest(c, p).time = Time[c]
        BY DEF Manifest
      <4> QED
        BY <3>1, <4>1, <4>2
    <3>2. CASE ~ (e = c /\ q = p /\ WritePacket(c, p))
      <4>1. result'[e][q] = result[e][q]
        <5>1. CASE e = c /\ q = p
          BY <3>2, <5>1, <2>2, <2>3
        <5>2. CASE e # c \/ q # p
          <6>1. Still(e, q)
            BY <5>2, OthersStill DEF TypeInv
          <6> QED
            BY <6>1 DEF Still
        <5> QED
          BY <5>1, <5>2
      <4> QED
        <5>1. packet[q][result[e][q]] # None /\ packet[q][result[e][q]].time = Time[e]
          BY <4>1, <2>3 DEF Frozen
        <5>2. packet'[q][result[e][q]] = packet[q][result[e][q]]
          BY <4>1, <5>1, <2>1, <2>3 DEF PacketsKept
        <5> QED
          BY <4>1, <5>1, <5>2
    <3> QED
      BY <3>1, <3>2
  <2> QED
    BY <2>1, <2>3 DEF Frozen
<1>2. CASE ~ \E c \in Commands, p \in Papers : Acquire(c, p) \/ Begin(c, p)
  BY <1>2, OtherSteps DEF Frozen, PacketsKept
<1> QED
  BY <1>1, <1>2

LEMMA JudgedStays ==
  ASSUME PacketsKept, UNCHANGED acquisition, NEW p \in Papers, NEW x, Judged(p, x)
  PROVE  Judged(p, x)'
BY DEF PacketsKept, Judged

LEMMA AcquisitionType ==
  ASSUME TypeInv, acquisition # None
  PROVE  /\ acquisition.command \in Commands
         /\ \A p \in Papers : acquisition.results[p] \in Readable \union {"failed"}
BY DEF TypeInv, TypeOK, Acquisitions, Commands, Results

LEMMA ReportStep == TypeInv /\ FileInv /\ ReportInv /\ [Next]_vars => ReportInv'
<1> SUFFICES ASSUME TypeInv, FileInv, ReportInv, [Next]_vars PROVE ReportInv'
  OBVIOUS
<1>1. Frozen' /\ PacketsKept
  BY FrozenStep DEF ReportInv
<1>2. ASSUME UNCHANGED acquisition PROVE Reported'
  BY <1>2, EndedStays, AcquisitionType DEF ReportInv, Reported
<1>3. ASSUME UNCHANGED acquisition, UNCHANGED <<seen, readiness>> PROVE Looked'
  BY <1>1, <1>3, JudgedStays DEF ReportInv, Looked
<1>4. ASSUME NEW c \in Commands, Report(c) PROVE Reported' /\ Looked'
  <2>1. CASE c \in Workshop /\ acquisition = None
    <3>1. acquisition' = [command |-> c, results |-> result[c]] /\ UNCHANGED <<call, seen, readiness>>
      BY <1>4, <2>1 DEF Report
    <3>2. ASSUME NEW p \in Papers PROVE at[c][p] = "ended"
      <4>1. p \notin wanted[c] /\ at[c][p] \in {"idle", "ended"} /\ c \in running
        BY <1>4 DEF Report, Finished, Busy
      <4> QED
        BY <4>1, <2>1 DEF TypeInv, AllWanted
    <3>3. Reported'
      BY <3>1, <3>2 DEF Reported, call
    <3>4. seen = None /\ readiness = None
      BY <2>1 DEF ReportInv, Looked
    <3> QED
      BY <3>1, <3>3, <3>4 DEF Looked
  <2>2. CASE ~ (c \in Workshop /\ acquisition = None)
    BY <1>2, <1>3, <1>4, <2>2 DEF Report
  <2> QED
    BY <2>1, <2>2
<1>5. CASE StartReconcile
  <2>1. UNCHANGED <<acquisition, readiness>> /\ acquisition # None /\ seen' = [p \in Papers |-> None]
    BY <1>5 DEF StartReconcile
  <2>2. Looked'
    BY <1>1, <2>1, JudgedStays DEF ReportInv, Looked
  <2> QED
    BY <1>1, <1>2, <2>1, <2>2 DEF ReportInv
<1>6. ASSUME NEW p \in Papers, Look(p) PROVE ReportInv'
  <2> DEFINE found == {d \in Readable : packet[p][d] # None}
  <2>1. seen # None /\ acquisition # None /\ UNCHANGED <<acquisition, readiness, packet>>
    BY <1>6 DEF Look, ReportInv, Looked, store
  <2>2. PICK d \in Readable \union {"not_ready"} :
          /\ IF \E e \in Readable : found = {e} /\ {e} \subseteq original[p] \intersect normalized[p]
             THEN found = {d} ELSE d = "not_ready"
          /\ seen' = [seen EXCEPT ![p] = d]
    BY <1>6 DEF Look
  <2>3. Judged(p, d)
    <3>1. CASE \E e \in Readable : found = {e} /\ {e} \subseteq original[p] \intersect normalized[p]
      BY <3>1, <2>2 DEF Judged
    <3>2. CASE ~ \E e \in Readable : found = {e} /\ {e} \subseteq original[p] \intersect normalized[p]
      <4> DEFINE e == acquisition.results[p]
      <4>1. d = "not_ready" /\ e \in Readable \union {"failed"}
        BY <3>2, <2>1, <2>2, AcquisitionType
      <4>2. CASE e \in Readable
        <5>1. packet[p][e] # None
          BY <2>1, <4>2, AcquisitionType DEF ReportInv, Reported, Frozen
        <5>2. e \in original[p] \intersect normalized[p]
          BY <4>2, <5>1 DEF FileInv, PacketsAreBacked
        <5>3. e \in found /\ found # {e}
          BY <3>2, <4>2, <5>1, <5>2
        <5>4. PICK other \in found : other # e
          BY <5>3
        <5> QED
          BY <4>1, <4>2, <5>1, <5>4 DEF Judged
      <4> QED
        BY <4>1, <4>2 DEF Judged
    <3> QED
      BY <3>1, <3>2
  <2>4. seen \in Findings
    BY <2>1 DEF TypeInv, TypeOK
  <2>5. seen'[p] = d /\ \A q \in Papers : q # p => seen'[q] = seen[q]
    BY <2>2, <2>4 DEF Findings
  <2>6. ASSUME NEW q \in Papers, NEW y, y = seen'[q], y # None PROVE Judged(q, y)'
    <3>1. Judged(q, y)
      BY <2>1, <2>3, <2>5, <2>6 DEF ReportInv, Looked
    <3> QED
      BY <3>1, <2>1 DEF Judged
  <2>7. Looked'
    BY <1>1, <2>1, <2>6, JudgedStays DEF ReportInv, Looked
  <2> QED
    BY <1>1, <1>2, <2>1, <2>7 DEF ReportInv
<1>7. CASE WriteReadiness
  <2>1. UNCHANGED acquisition /\ seen # None /\ seen' = None /\ readiness' \in {seen, readiness}
    BY <1>7 DEF WriteReadiness
  <2>2. \A p \in Papers : seen[p] # None
    BY <1>7 DEF WriteReadiness
  <2>3. Looked'
    BY <1>1, <2>1, <2>2, JudgedStays DEF ReportInv, Looked
  <2> QED
    BY <1>1, <1>2, <2>1, <2>3 DEF ReportInv
<1>8. CASE UNCHANGED <<acquisition, seen, readiness>>
  BY <1>1, <1>2, <1>3, <1>8 DEF ReportInv
<1>9. \/ \E c \in Commands : Report(c)
      \/ StartReconcile \/ (\E p \in Papers : Look(p)) \/ WriteReadiness
      \/ UNCHANGED <<acquisition, seen, readiness>>
  <2>1. ASSUME NEW c, NEW papers, NEW plans, Launch(c, papers, plans)
        PROVE  UNCHANGED <<acquisition, seen, readiness>>
    BY <2>1 DEF Launch, reports
  <2>2. CASE (\E c \in Workshop : StartWorkshop(c)) \/ (\E c \in Single : StartSingle(c))
    BY <2>1, <2>2 DEF StartWorkshop, StartSingle
  <2> QED
    BY <2>2 DEF Next, Begin, Acquire, Unavailable, Fetch, WriteOriginal, WriteNormalized,
                WritePacket, Collide, Preserve, Kill, vars, reports
<1> QED
  BY <1>1, <1>4, <1>5, <1>6, <1>7, <1>8, <1>9 DEF ReportInv

LEMMA ReportInit == Init => ReportInv
<1> SUFFICES ASSUME Init PROVE ReportInv
  OBVIOUS
<1>1. Frozen
  BY NoneAssumption, BodyAssumption DEF Init, Frozen
<1> QED
  BY <1>1 DEF Init, ReportInv, Reported, Looked

\* What is reported as acquired is in the store, frozen at the time that the
\* command gives, and stays so; readiness is told rightly.
THEOREM TrueReports == Spec => []ReportsAreTrue
<1>1. TypeInv /\ FileInv /\ ReportInv => ReportsAreTrue
  <2> SUFFICES ASSUME ReportInv PROVE ReportsAreTrue
    OBVIOUS
  <2>1. "not_ready" \notin Readable
    BY BodyAssumption
  <2>2. ASSUME readiness # None, NEW p \in Papers
        PROVE  IF readiness[p] # "not_ready" THEN packet[p][readiness[p]] # None
               ELSE \/ acquisition.results[p] = "failed"
                    \/ \E d, e \in Readable : d # e /\ packet[p][d] # None /\ packet[p][e] # None
    BY <2>1, <2>2 DEF ReportInv, Looked, Judged
  <2> QED
    BY <2>2 DEF ReportsAreTrue, ReportInv, Frozen, Reported
<1>2. TypeInv /\ FileInv /\ ReportInv /\ [Next]_vars => ReportInv'
  BY ReportStep
<1>3. Init => ReportInv
  BY ReportInit
<1> QED
  BY <1>1, <1>2, <1>3, Files, PTL DEF Spec
=============================================================================
