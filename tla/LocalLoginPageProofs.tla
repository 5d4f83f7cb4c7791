------------------------ MODULE LocalLoginPageProofs ------------------------
(***************************************************************************)
(* The safety properties of LocalLoginPage, for any number of functions in   *)
(* flight.                                                                   *)
(***************************************************************************)
EXTENDS LocalLoginPage, SequenceTheorems, WellFoundedInduction, TLAPS

CallKinds == {"submit", "code"} \cup DOMAIN Forms

Kinds == Ceremonies \cup {"submit", "code", "back", "idle"} \cup DOMAIN Forms

Pcs == {"opts", "available", "wait", "get", "verify", "post", "captcha", "end"}

TaskType == [kind : Kinds, pc : Pcs, fresh : BOOLEAN, aborted : BOOLEAN,
             on : Tasks \cup {NoTask}, left : BOOLEAN]

\* Where each kind of function can be; only one that waits awaits a release, and
\* a ceremony that was left is of an attempt gone by.
Shaped(r) ==
    /\ \/ r = Idle
       \/ r.kind = "autofill" /\ r.pc \in {"opts", "available", "wait", "get", "verify"}
       \/ r.kind = "passkey" /\ r.pc \in {"opts", "wait", "get", "verify"}
       \/ r.kind = "trigger" /\ r.pc \in {"wait", "get", "verify"}
       \/ r.kind = "submit" /\ r.pc \in {"wait", "post", "captcha"}
       \/ r.kind = "code" /\ r.pc \in {"wait", "post"}
       \/ r.kind = "back" /\ r.pc = "wait"
       \/ r.kind \in DOMAIN Forms /\ r.pc = "post"
    /\ r.pc # "wait" => r.on = NoTask
    /\ r.left /\ r.kind \in Ceremonies => ~r.fresh

\* A ceremony of the attempt under way, which may act on the page.
Acts(f, t) == f[t].kind \in Ceremonies /\ f[t].fresh

\* A call that disables the buttons.
Calling(f, t) == f[t].kind \in CallKinds

\* A function that waits, awaits a release, or was released.
Waiting(f, t) == f[t].pc = "wait"
Parked(f, t) == f[t].pc = "wait" /\ f[t].on # NoTask
Woken(f, t) == f[t].pc = "wait" /\ f[t].on = NoTask

\* What holds of the functions f, the slot c and the queue w, whatever happened.
Kept(f, c, w) ==
    /\ f \in [Tasks -> TaskType]
    /\ c \in Tasks \cup {NoTask}
    /\ w \in Seq(Tasks)
    /\ \A t \in Tasks : Shaped(f[t])
    /\ \A t \in Tasks : f[t].kind = "autofill" => t = Autofill
    /\ f[Autofill].kind \in {"autofill", "idle"}
    /\ c # NoTask => f[c].pc = "get"
    /\ \A t \in Tasks : Waiting(f, t) => \E i \in DOMAIN w : w[i] = t

\* The parts of Calm.  One ceremony at most may act.
OneActs(f) == \A t, u \in Tasks : Acts(f, t) /\ Acts(f, u) => t = u

\* One call at most is made, with the buttons disabled and no ceremony to act.
OneCalls(f, l) ==
    \A t \in Tasks : Calling(f, t) =>
        /\ l
        /\ \A u \in Tasks : ~Acts(f, u) /\ (Calling(f, u) => u = t)

\* The page shows the step of the ceremony that may act.
Placed(f, c, s) ==
    \A t \in Tasks : Acts(f, t) =>
        \/ f[t].pc = "verify" /\ s = "verifying" /\ c = NoTask
        \/ f[t].pc # "verify" /\ f[t].kind = "autofill" /\ s = "email"
        \/ f[t].pc # "verify" /\ f[t].kind # "autofill" /\ s = "passkey"

\* Who waits, waits for the slot; who has a request, has the slot.
OnSlot(f, c) ==
    /\ \A t \in Tasks : Waiting(f, t) => f[t].on \in {c, NoTask}
    /\ \A t \in Tasks : f[t].pc = "get" => t = c

\* A release releases all that wait, and only the ceremony that may act takes the
\* slot before they have gone on.
Microtasks(f, c) ==
    (\E t \in Tasks : Woken(f, t)) =>
        /\ \A t \in Tasks : ~Parked(f, t)
        /\ c # NoTask => f[c].fresh

\* While Back waits, nothing moves the page but the end of the wait, after which
\* the autofill may be armed.
Backs(f, s) ==
    \A t \in Tasks : f[t].kind = "back" =>
        /\ \A u \in Tasks : Acts(f, u) => u = Autofill /\ f[u].pc = "opts"
        /\ Parked(f, t) => /\ s = "passkey"
                           /\ \A u \in Tasks : ~Acts(f, u)
                           /\ \A u \in Tasks : Calling(f, u) => Waiting(f, u)

\* What holds as long as no wait gave up.
Calm(f, c, s, l) ==
    /\ OneActs(f)
    /\ OneCalls(f, l)
    /\ Placed(f, c, s)
    /\ s = "passkey-retry" => c = NoTask
    /\ OnSlot(f, c)
    /\ Microtasks(f, c)
    /\ Backs(f, s)

Shows ==
    /\ step \in Steps
    /\ {loading, codeOffered, condDisabled, late, finished} \subseteq BOOLEAN
    /\ step = "success" => finished

IInv ==
    /\ Shows
    /\ Kept(task, ceremony, waiting)
    /\ ~late => Calm(task, ceremony, step, loading)

-----------------------------------------------------------------------------
(* Lemmas on the queue.                                                      *)

LEMMA FirstIsReleased ==
    ASSUME waiting \in Seq(Tasks), \A t \in Released : \E i \in DOMAIN waiting : waiting[i] = t, ~Quiet
    PROVE  First \in DOMAIN waiting /\ waiting[First] \in Released
<1> DEFINE T == {i \in DOMAIN waiting : waiting[i] \in Released}
<1>1. T \subseteq Nat /\ T # {} /\ DOMAIN waiting = 1 .. Len(waiting) /\ Len(waiting) \in Nat
  BY DEF Quiet
<1>2. PICK i \in T : \A j \in T : <<j, i>> \notin OpToRel(<, Nat)
  <2> HIDE DEF T
  <2> QED BY ONLY <1>1, WFMin, NatLessThanWellFounded
<1>3. \A j \in T : ~ (j < i)
  BY <1>1, <1>2 DEF OpToRel
<1>4. \A j \in 1 .. i - 1 : waiting[j] \notin Released
  BY <1>1, <1>3
<1> QED BY <1>4, <1>2 DEF First

\* The queue w without its place i.
Dropped(w, i) == SubSeq(w, 1, i - 1) \o SubSeq(w, i + 1, Len(w))

LEMMA DropFirst ==
    ASSUME NEW w \in Seq(Tasks), NEW i \in DOMAIN w
    PROVE  /\ Dropped(w, i) \in Seq(Tasks)
           /\ \A j \in DOMAIN w : j # i =>
                 \E k \in DOMAIN Dropped(w, i) : Dropped(w, i)[k] = w[j]
<1> DEFINE v == Dropped(w, i)
<1>1. /\ DOMAIN w = 1 .. Len(w) /\ Len(w) \in Nat /\ i \in 1 .. Len(w)
      /\ \A j \in 1 .. Len(w) : w[j] \in Tasks
  OBVIOUS
<1> DEFINE a == SubSeq(w, 1, i - 1)
           b == SubSeq(w, i + 1, Len(w))
<1>2. a \in Seq(Tasks) /\ Len(a) = i - 1 /\ \A j \in 1 .. i - 1 : a[j] = w[j]
  <2>1. \A j \in 1 .. i - 1 : w[j] \in Tasks
    BY <1>1
  <2>2. /\ a \in Seq(Tasks) /\ Len(a) = IF 1 <= i - 1 THEN i - 1 - 1 + 1 ELSE 0
        /\ \A j \in 1 .. i - 1 - 1 + 1 : a[j] = w[1 + j - 1]
    BY ONLY <1>1, <2>1, SubSeqProperties, 1 \in Int, i - 1 \in Int
  <2> HIDE DEF a
  <2> QED
    BY <1>1, <2>2
<1>3. b \in Seq(Tasks) /\ Len(b) = Len(w) - i /\ \A j \in 1 .. Len(w) - i : b[j] = w[i + j]
  <2>1. \A j \in i + 1 .. Len(w) : w[j] \in Tasks
    BY <1>1
  <2>2. /\ b \in Seq(Tasks)
        /\ Len(b) = IF i + 1 <= Len(w) THEN Len(w) - (i + 1) + 1 ELSE 0
        /\ \A j \in 1 .. Len(w) - (i + 1) + 1 : b[j] = w[i + 1 + j - 1]
    BY ONLY <1>1, <2>1, SubSeqProperties, i + 1 \in Int, Len(w) \in Int
  <2> HIDE DEF b
  <2> DEFINE n == Len(w)
  <2>3. n \in Nat /\ i \in Nat /\ i <= n
    BY <1>1
  <2>4. (IF i + 1 <= n THEN n - (i + 1) + 1 ELSE 0) = n - i /\ n - (i + 1) + 1 = n - i
    BY ONLY <2>3
  <2>5. \A j \in 1 .. n - i : i + 1 + j - 1 = i + j
    BY ONLY <2>3
  <2> QED
    BY ONLY <2>2, <2>4, <2>5
<1>4. v = a \o b
  BY DEF Dropped
<1> HIDE DEF a, b, v
<1>5. /\ v \in Seq(Tasks) /\ Len(v) = Len(w) - 1
      /\ \A k \in 1 .. Len(w) - 1 : v[k] = IF k <= i - 1 THEN a[k] ELSE b[k - (i - 1)]
  <2>1. /\ v \in Seq(Tasks) /\ Len(v) = Len(a) + Len(b)
        /\ \A k \in 1 .. Len(a) + Len(b) : v[k] = IF k <= Len(a) THEN a[k] ELSE b[k - Len(a)]
    BY ONLY <1>2, <1>3, <1>4, ConcatProperties
  <2>2. Len(a) + Len(b) = Len(w) - 1
    BY <1>1, <1>2, <1>3
  <2> QED
    BY ONLY <1>2, <2>1, <2>2
<1>6. DOMAIN v = 1 .. Len(w) - 1
  BY <1>5
<1>7. ASSUME NEW j \in DOMAIN w, j # i PROVE \E k \in DOMAIN v : v[k] = w[j]
  <2>1. CASE j < i
    <3>1. j \in 1 .. Len(w) - 1 /\ j <= i - 1 /\ j \in 1 .. i - 1
      BY <1>1, <1>7, <2>1
    <3> QED
      BY <1>2, <1>5, <1>6, <3>1
  <2>2. CASE j > i
    <3>1. /\ j - 1 \in 1 .. Len(w) - 1 /\ ~ (j - 1 <= i - 1)
          /\ j - i \in 1 .. Len(w) - i /\ j - 1 - (i - 1) = j - i /\ i + (j - i) = j
      <4>1. i \in Nat /\ j \in Nat /\ Len(w) \in Nat /\ 1 <= i /\ i < j /\ j <= Len(w)
        BY <1>1, <1>7, <2>2
      <4> QED
        BY ONLY <4>1
    <3>2. v[j - 1] = b[j - i] /\ b[j - i] = w[j]
      BY ONLY <1>3, <1>5, <3>1
    <3> QED
      BY <1>6, <3>1, <3>2
  <2>3. i \in Nat /\ j \in Nat
    BY <1>1, <1>7
  <2> QED
    BY ONLY <1>7, <2>1, <2>2, <2>3
<1> QED
  BY <1>5, <1>7 DEF v
-----------------------------------------------------------------------------
(* Lemmas on the functions in flight.                                        *)

LEMMA FormsKinds ==
    /\ DOMAIN Forms = {"otp", "password", "resend", "enroll", "terms"}
    /\ \A kind \in DOMAIN Forms :
          /\ Forms[kind][1] \in {"otp", "password", "offer", "tos"}
          /\ Forms[kind][2] \in {"verifying", "password", "otp", "offer", "tos"}
  BY DEF Forms

LEMMA Names ==
    /\ Autofill \in Tasks
    /\ NoTask \notin Tasks
    /\ Pool \subseteq Tasks
    /\ Autofill \notin Pool
  BY TasksAssumption DEF Tasks

LEMMA KindsApart ==
    /\ Ceremonies = {"autofill", "passkey", "trigger"}
    /\ CallKinds = {"submit", "code", "otp", "password", "resend", "enroll", "terms"}
    /\ Ceremonies \cap CallKinds = {}
    /\ "back" \notin Ceremonies \cup CallKinds
    /\ "idle" \notin Ceremonies \cup CallKinds
  BY FormsKinds DEF Ceremonies, CallKinds

LEMMA NewTyped ==
    ASSUME NEW kind \in Kinds, NEW pc \in Pcs
    PROVE  /\ New(kind, pc) \in TaskType
           /\ New(kind, pc).kind = kind
           /\ New(kind, pc).pc = pc
           /\ New(kind, pc).fresh
           /\ New(kind, pc).on = NoTask
           /\ ~New(kind, pc).left
  BY Names DEF New, TaskType

LEMMA IdleRow ==
    /\ Idle \in TaskType
    /\ Idle.kind = "idle"
    /\ Idle.pc = "end"
    /\ Idle.on = NoTask
    /\ ~Idle.left
    /\ Shaped(Idle)
  BY NewTyped DEF Idle, Kinds, Pcs, Shaped, New

\* Only a function that does not run is at its end.
LEMMA EndIsIdle ==
    ASSUME NEW r, Shaped(r), r.pc = "end" \/ r.kind = "idle"
    PROVE  r = Idle
  BY KindsApart, FormsKinds DEF Shaped

LEMMA SlotIdle ==
    ASSUME NEW c, NEW w, NEW f, Kept(task, c, w), Free # {}
    PROVE  Slot \in Pool /\ Slot \in Tasks /\ Slot # Autofill /\ task[Slot] = Idle
<1>1. Slot \in Pool /\ task[Slot].pc = "end"
  BY DEF Slot, Free
<1> QED
  BY <1>1, Names, EndIsIdle DEF Kept

\* A step that shows with no ceremony to act, nor call, and no Back that waits.
LEMMA Settles ==
    ASSUME NEW f, NEW c, NEW s, NEW l, NEW s0, NEW l0, Calm(f, c, s0, l0),
           \A t \in Tasks : ~Acts(f, t) /\ ~Calling(f, t) /\ (f[t].kind = "back" => ~Parked(f, t)),
           s # "passkey-retry" \/ c = NoTask
    PROVE  Calm(f, c, s, l)
  BY DEF Calm, OneActs, OneCalls, Placed, Backs

\* The end of a function that does not have the slot.
LEMMA EndRow ==
    ASSUME NEW f, NEW c, NEW w, NEW t \in Tasks, Kept(f, c, w)
    PROVE  /\ End(f, t) \in [Tasks -> TaskType]
           /\ End(f, t)[t] = Idle
           /\ \A u \in Tasks : u # t => End(f, t)[u] = f[u]
  BY IdleRow DEF End, Kept

LEMMA EndKept ==
    ASSUME NEW f, NEW c, NEW w, NEW t \in Tasks, Kept(f, c, w), t # c
    PROVE  Kept(End(f, t), c, w)
<1> DEFINE g == End(f, t)
<1>1. /\ g \in [Tasks -> TaskType] /\ g[t] = Idle
      /\ \A u \in Tasks : u # t => g[u] = f[u]
  BY EndRow
<1> HIDE DEF g
<1> QED
  BY <1>1, IdleRow, Names DEF Kept, Waiting, g

LEMMA EndCalm ==
    ASSUME NEW f, NEW c, NEW w, NEW t \in Tasks, NEW s, NEW l,
           Kept(f, c, w), Calm(f, c, s, l), t # c
    PROVE  Calm(End(f, t), c, s, l)
<1> DEFINE g == End(f, t)
<1>1. /\ g[t] = Idle /\ \A u \in Tasks : u # t => g[u] = f[u]
  BY EndRow
<1>2. c \in Tasks \cup {NoTask}
  BY DEF Kept
<1> HIDE DEF g
<1>3. \A u \in Tasks : /\ Acts(g, u) => Acts(f, u) /\ g[u] = f[u]
                       /\ Calling(g, u) => Calling(f, u) /\ g[u] = f[u]
                       /\ Waiting(g, u) => Waiting(f, u) /\ g[u] = f[u]
                       /\ Parked(g, u) => Parked(f, u) /\ g[u] = f[u]
                       /\ Woken(g, u) => Woken(f, u) /\ g[u] = f[u]
                       /\ g[u].pc = "get" => f[u].pc = "get"
                       /\ g[u].kind = "back" => g[u] = f[u]
  BY <1>1, IdleRow, KindsApart DEF Acts, Calling, Waiting, Parked, Woken
<1>4. OneActs(g) /\ OneCalls(g, l) /\ Placed(g, c, s)
  BY <1>3 DEF Calm, OneActs, OneCalls, Placed
<1>5. OnSlot(g, c) /\ (s = "passkey-retry" => c = NoTask)
  BY <1>3 DEF Calm, OnSlot
<1>6. Microtasks(g, c)
  BY <1>1, <1>2, <1>3 DEF Calm, Microtasks
<1>7. Backs(g, s)
  BY <1>3 DEF Calm, Backs, Waiting
<1> QED
  BY <1>4, <1>5, <1>6, <1>7 DEF Calm, g

\* What armConditional does to functions and page.
LEMMA ArmedRow ==
    ASSUME NEW f, NEW s, NEW l, f \in [Tasks -> TaskType]
    PROVE  \/ Armed(f, s, l) = f
           \/ /\ s = "email" /\ ~l
              /\ f[Autofill] = Idle
              /\ Armed(f, s, l) \in [Tasks -> TaskType]
              /\ Armed(f, s, l)[Autofill] = New("autofill", "opts")
              /\ \A u \in Tasks : u # Autofill => Armed(f, s, l)[u] = f[u]
<1>1. New("autofill", "opts") \in TaskType
  BY NewTyped DEF Kinds, Ceremonies, Pcs
<1> QED
  BY <1>1, Names DEF Armed

LEMMA ArmedKept ==
    ASSUME NEW f, NEW c, NEW w, NEW s, NEW l, Kept(f, c, w)
    PROVE  Kept(Armed(f, s, l), c, w)
<1> DEFINE g == Armed(f, s, l)
           r == New("autofill", "opts")
<1>1. CASE g = f
  BY <1>1
<1>2. CASE /\ f[Autofill] = Idle
           /\ g \in [Tasks -> TaskType] /\ g[Autofill] = r
           /\ \A u \in Tasks : u # Autofill => g[u] = f[u]
  <2>1. r.kind = "autofill" /\ r.pc = "opts" /\ r.on = NoTask /\ ~r.left
    BY NewTyped DEF Kinds, Ceremonies, Pcs
  <2> HIDE DEF g, r
  <2>2. Shaped(r)
    BY <2>1 DEF Shaped
  <2>3. c # Autofill
    BY <1>2, IdleRow, Names DEF Kept
  <2>4. Kept(g, c, w)
    BY <1>2, <2>1, <2>2, <2>3, Names DEF Kept, Waiting
  <2> QED
    BY <2>4 DEF g
<1>3. f \in [Tasks -> TaskType]
  BY DEF Kept
<1> QED
  BY <1>1, <1>2, <1>3, ArmedRow

LEMMA ArmedCalm ==
    ASSUME NEW f, NEW c, NEW w, NEW s, NEW l, Kept(f, c, w), Calm(f, c, s, l),
           s = "email" /\ ~l => \A t \in Tasks : Acts(f, t) => t = Autofill
    PROVE  Calm(Armed(f, s, l), c, s, l)
<1> DEFINE g == Armed(f, s, l)
           r == New("autofill", "opts")
<1>1. CASE g = f
  BY <1>1
<1>2. CASE /\ s = "email" /\ ~l /\ f[Autofill] = Idle
           /\ g \in [Tasks -> TaskType] /\ g[Autofill] = r
           /\ \A u \in Tasks : u # Autofill => g[u] = f[u]
  <2>1. r.kind = "autofill" /\ r.pc = "opts" /\ r.fresh
    BY NewTyped DEF Kinds, Ceremonies, Pcs
  <2> HIDE DEF g, r
  <2>2. c # Autofill /\ c \in Tasks \cup {NoTask}
    BY <1>2, IdleRow, Names DEF Kept
  <2>3. \A u \in Tasks : ~Acts(f, u) /\ ~Calling(f, u)
    BY <1>2, IdleRow, KindsApart DEF Acts, Calm, OneCalls
  <2>4. /\ ~Calling(g, Autofill) /\ ~Waiting(g, Autofill)
        /\ g[Autofill].kind # "back"
    BY <1>2, <2>1, KindsApart DEF Calling, Waiting
  <2>5. /\ \A u \in Tasks : Acts(g, u) => u = Autofill
        /\ \A u \in Tasks : ~Calling(g, u)
        /\ \A u \in Tasks : Waiting(g, u) => Waiting(f, u) /\ g[u] = f[u]
        /\ \A u \in Tasks : Parked(g, u) => Parked(f, u)
        /\ \A u \in Tasks : Woken(g, u) => Woken(f, u)
        /\ \A u \in Tasks : g[u].pc = "get" => f[u].pc = "get"
        /\ \A u \in Tasks : g[u].kind = "back" => f[u].kind = "back"
    BY <1>2, <2>1, <2>3, <2>4 DEF Acts, Calling, Waiting, Parked, Woken
  <2>6. OneActs(g) /\ OneCalls(g, l) /\ Placed(g, c, s)
    BY <1>2, <2>1, <2>5 DEF OneActs, OneCalls, Placed
  <2>7. OnSlot(g, c) /\ (s = "passkey-retry" => c = NoTask)
    BY <1>2, <2>5 DEF Calm, OnSlot
  <2>8. Microtasks(g, c)
    BY <1>2, <2>2, <2>5 DEF Calm, Microtasks
  <2>9. Backs(g, s)
    BY <1>2, <2>1, <2>5 DEF Calm, Backs
  <2> QED
    BY <2>6, <2>7, <2>8, <2>9 DEF Calm, g
<1>3. f \in [Tasks -> TaskType]
  BY DEF Kept
<1> QED
  BY <1>1, <1>2, <1>3, ArmedRow

\* g is f after attempt++, and whatever leave did: no ceremony may act.
Stilled(f, g) ==
    /\ g \in [Tasks -> TaskType]
    /\ \A t \in Tasks :
          /\ g[t].kind = f[t].kind
          /\ g[t].pc = f[t].pc
          /\ g[t].on = f[t].on
          /\ f[t] = Idle => g[t] = Idle
          /\ f[t] # Idle => ~g[t].fresh

LEMMA LeaveStills ==
    ASSUME NEW f, NEW c, NEW w, Kept(f, c, w)
    PROVE  Stilled(f, Bump(Leave(f)))
<1> DEFINE h == Leave(f)
           g == Bump(h)
<1>1. /\ h \in [Tasks -> TaskType]
      /\ \A t \in Tasks : /\ h[t].kind = f[t].kind /\ h[t].pc = f[t].pc /\ h[t].on = f[t].on
                          /\ f[t] = Idle => h[t] = Idle
  BY IdleRow DEF Leave, Kept, TaskType
<1>2. \A t \in Tasks : f[t] # Idle => f[t].pc # "end"
  BY EndIsIdle DEF Kept
<1> HIDE DEF h
<1>3. /\ g \in [Tasks -> TaskType]
      /\ \A t \in Tasks : /\ g[t].kind = h[t].kind /\ g[t].pc = h[t].pc /\ g[t].on = h[t].on
                          /\ h[t] = Idle => g[t] = Idle
                          /\ h[t].pc # "end" => ~g[t].fresh
  BY <1>1, IdleRow DEF Bump, TaskType
<1> HIDE DEF g
<1>4. Stilled(f, g)
  BY <1>1, <1>2, <1>3 DEF Stilled
<1> QED
  BY <1>4 DEF g, h

LEMMA BumpStills ==
    ASSUME NEW f, NEW c, NEW w, Kept(f, c, w)
    PROVE  Stilled(f, Bump(f))
<1> DEFINE g == Bump(f)
<1>1. \A t \in Tasks : f[t] # Idle => f[t].pc # "end"
  BY EndIsIdle DEF Kept
<1>2. /\ g \in [Tasks -> TaskType]
      /\ \A t \in Tasks : /\ g[t].kind = f[t].kind /\ g[t].pc = f[t].pc /\ g[t].on = f[t].on
                          /\ f[t] = Idle => g[t] = Idle
                          /\ f[t].pc # "end" => ~g[t].fresh
  BY IdleRow DEF Bump, Kept, TaskType
<1> HIDE DEF g
<1>3. Stilled(f, g)
  BY <1>1, <1>2 DEF Stilled
<1> QED
  BY <1>3 DEF g

LEMMA StilledKept ==
    ASSUME NEW f, NEW g, NEW c, NEW w, Kept(f, c, w), Stilled(f, g)
    PROVE  Kept(g, c, w)
<1>1. \A t \in Tasks : Shaped(g[t])
  <2> TAKE t \in Tasks
  <2>1. CASE f[t] = Idle
    BY <2>1, IdleRow DEF Stilled
  <2>2. CASE f[t] # Idle
    BY <2>2 DEF Stilled, Shaped, Kept
  <2> QED
    BY <2>1, <2>2
<1> QED
  BY <1>1, Names DEF Kept, Stilled, Waiting

LEMMA StilledQuiet ==
    ASSUME NEW f, NEW g, Stilled(f, g)
    PROVE  /\ \A t \in Tasks : ~Acts(g, t)
           /\ \A t \in Tasks : /\ Calling(g, t) <=> Calling(f, t)
                               /\ Waiting(g, t) <=> Waiting(f, t)
                               /\ Parked(g, t) <=> Parked(f, t)
                               /\ Woken(g, t) <=> Woken(f, t)
<1>1. \A t \in Tasks : ~Acts(g, t)
  BY IdleRow, KindsApart DEF Stilled, Acts
<1> QED
  BY <1>1 DEF Stilled, Calling, Waiting, Parked, Woken

LEMMA StilledCalm ==
    ASSUME NEW f, NEW g, NEW c, NEW s, NEW l, Calm(f, c, s, l), Stilled(f, g),
           \A t \in Tasks : ~Woken(f, t)
    PROVE  Calm(g, c, s, l)
<1>1. OneActs(g) /\ OneCalls(g, l) /\ Placed(g, c, s)
  BY StilledQuiet DEF Calm, OneActs, OneCalls, Placed
<1>2. OnSlot(g, c) /\ (s = "passkey-retry" => c = NoTask)
  BY StilledQuiet DEF Calm, OnSlot, Stilled
<1>3. Microtasks(g, c)
  BY StilledQuiet DEF Microtasks
<1>4. Backs(g, s)
  BY StilledQuiet DEF Calm, Backs, Stilled
<1> QED
  BY <1>1, <1>2, <1>3, <1>4 DEF Calm

\* A new call, which does not wait.
LEMMA CallKept ==
    ASSUME NEW f, NEW c, NEW w, NEW t \in Pool, NEW kind \in CallKinds, Kept(f, c, w), f[t] = Idle
    PROVE  Kept(Call(f, t, kind), c, w)
<1> DEFINE g == Call(f, t, kind)
           r == New(kind, "post")
<1>1. r \in TaskType /\ r.kind = kind /\ r.pc = "post" /\ r.on = NoTask
  BY NewTyped, KindsApart, FormsKinds DEF Kinds, Pcs
<1> HIDE DEF r
<1>2. /\ g \in [Tasks -> TaskType] /\ g[t] = r
      /\ \A u \in Tasks : u # t => g[u] = f[u]
  BY <1>1, Names DEF Call, Kept, r
<1> HIDE DEF g
<1>3. Shaped(r)
  BY <1>1, KindsApart DEF Shaped, CallKinds
<1>4. c # t
  BY IdleRow, Names DEF Kept
<1>5. Kept(g, c, w)
  BY <1>1, <1>2, <1>3, <1>4, Names, KindsApart DEF Kept, Waiting
<1> QED
  BY <1>5 DEF g

LEMMA CallCalm ==
    ASSUME NEW f, NEW c, NEW w, NEW t \in Pool, NEW kind \in CallKinds, NEW s, NEW s0, NEW l0,
           Kept(f, c, w), Calm(f, c, s0, l0), f[t] = Idle,
           \A u \in Tasks : ~Acts(f, u) /\ ~Calling(f, u) /\ (f[u].kind = "back" => ~Parked(f, u)),
           s # "passkey-retry" \/ c = NoTask
    PROVE  Calm(Call(f, t, kind), c, s, TRUE)
<1> DEFINE g == Call(f, t, kind)
           r == New(kind, "post")
<1>1. r.kind = kind /\ r.pc = "post" /\ r.on = NoTask
  BY NewTyped, KindsApart, FormsKinds DEF Kinds, Pcs
<1> HIDE DEF r
<1>2. g[t] = r /\ \A u \in Tasks : u # t => g[u] = f[u]
  BY <1>1, Names DEF Call, Kept, r
<1> HIDE DEF g
<1>3. c # t /\ c \in Tasks \cup {NoTask}
  BY IdleRow, Names DEF Kept
<1>4. /\ \A u \in Tasks : ~Acts(g, u)
      /\ \A u \in Tasks : Calling(g, u) => u = t
      /\ \A u \in Tasks : Waiting(g, u) => Waiting(f, u) /\ g[u] = f[u]
      /\ \A u \in Tasks : Parked(g, u) => Parked(f, u)
      /\ \A u \in Tasks : Woken(g, u) => Woken(f, u)
      /\ \A u \in Tasks : g[u].pc = "get" => f[u].pc = "get"
      /\ \A u \in Tasks : g[u].kind = "back" => f[u].kind = "back"
  BY <1>1, <1>2, KindsApart DEF Acts, Calling, Waiting, Parked, Woken
<1>5. OneActs(g) /\ OneCalls(g, TRUE) /\ Placed(g, c, s)
  BY <1>4 DEF OneActs, OneCalls, Placed
<1>6. OnSlot(g, c)
  BY <1>4 DEF Calm, OnSlot
<1>7. Microtasks(g, c)
  BY <1>2, <1>3, <1>4 DEF Calm, Microtasks
<1>8. Backs(g, s)
  BY <1>4 DEF Backs
<1> QED
  BY <1>5, <1>6, <1>7, <1>8 DEF Calm, g

-----------------------------------------------------------------------------
(* Lemmas on the ceremony slot.                                              *)

\* Function t may wait for the slot: the others are as they should be.
Enters(f, w, t) ==
    /\ f \in [Tasks -> TaskType]
    /\ t \in Tasks
    /\ \A u \in Tasks : u # t => /\ Shaped(f[u])
                                 /\ Waiting(f, u) => \E i \in DOMAIN w : w[i] = u
    /\ \A u \in Tasks : f[u].kind = "autofill" => u = Autofill
    /\ f[Autofill].kind \in {"autofill", "idle"}
    /\ f[t].kind \in Ceremonies \cup {"submit", "code", "back"}
    /\ f[t].left /\ f[t].kind \in Ceremonies => ~f[t].fresh

\* No wait gave up, and the page is the one that function t comes to the slot on.
Fits(f, t, c, s, l) ==
    /\ f[t].pc # "verify"
    /\ \A u \in Tasks : u # t => /\ Waiting(f, u) => c # NoTask /\ f[u].on = c
                                 /\ f[u].pc = "get" => u = c
    /\ OneActs(f)
    /\ OneCalls(f, l)
    /\ Placed(f, c, s)
    /\ s = "passkey-retry" => c = NoTask
    /\ \A b \in Tasks : f[b].kind = "back" =>
          /\ s = "passkey"
          /\ \A u \in Tasks : ~Acts(f, u)
          /\ \A u \in Tasks : u # t /\ Calling(f, u) => Waiting(f, u)

\* The functions after cancelCeremony.
Cancelled(f, t, c) == [f EXCEPT ![t].pc = "wait", ![t].on = c, ![c].aborted = TRUE]

LEMMA CancelRow ==
    ASSUME NEW f \in [Tasks -> TaskType], NEW t \in Tasks, NEW c \in Tasks, c # t
    PROVE  /\ Cancelled(f, t, c) \in [Tasks -> TaskType]
           /\ Cancelled(f, t, c)[t].pc = "wait"
           /\ Cancelled(f, t, c)[t].on = c
           /\ \A u \in Tasks : /\ Cancelled(f, t, c)[u].kind = f[u].kind
                               /\ Cancelled(f, t, c)[u].fresh = f[u].fresh
                               /\ Cancelled(f, t, c)[u].left = f[u].left
           /\ \A u \in Tasks : u # t => /\ Cancelled(f, t, c)[u].pc = f[u].pc
                                        /\ Cancelled(f, t, c)[u].on = f[u].on
           /\ \A u \in Tasks : u # t /\ u # c => Cancelled(f, t, c)[u] = f[u]
<1> DEFINE a == [f[t] EXCEPT !.pc = "wait", !.on = c]
           b == [f[c] EXCEPT !.aborted = TRUE]
           g == [f EXCEPT ![t] = a, ![c] = b]
<1>1. Cancelled(f, t, c) = g
  BY DEF Cancelled
<1>2. /\ a \in TaskType /\ a.pc = "wait" /\ a.on = c
      /\ a.kind = f[t].kind /\ a.fresh = f[t].fresh /\ a.left = f[t].left
  BY DEF TaskType, Pcs
<1>3. /\ b \in TaskType /\ b.kind = f[c].kind /\ b.fresh = f[c].fresh /\ b.left = f[c].left
      /\ b.pc = f[c].pc /\ b.on = f[c].on
  BY DEF TaskType
<1> HIDE DEF a, b
<1>4. /\ g \in [Tasks -> TaskType] /\ g[t] = a /\ g[c] = b
      /\ \A u \in Tasks : u # t /\ u # c => g[u] = f[u]
  BY <1>2, <1>3
<1> HIDE DEF g
<1> QED
  BY <1>1, <1>2, <1>3, <1>4

LEMMA AppendQueue ==
    ASSUME NEW w \in Seq(Tasks), NEW t \in Tasks
    PROVE  /\ Append(w, t) \in Seq(Tasks)
           /\ \E i \in DOMAIN Append(w, t) : Append(w, t)[i] = t
           /\ \A u : (\E i \in DOMAIN w : w[i] = u) =>
                     \E i \in DOMAIN Append(w, t) : Append(w, t)[i] = u
<1>1. /\ Append(w, t) \in Seq(Tasks) /\ Len(Append(w, t)) = Len(w) + 1
      /\ \A i \in 1 .. Len(w) : Append(w, t)[i] = w[i]
      /\ Append(w, t)[Len(w) + 1] = t
      /\ Len(w) \in Nat /\ DOMAIN w = 1 .. Len(w)
  OBVIOUS
<1>2. DOMAIN Append(w, t) = 1 .. Len(w) + 1
  BY <1>1
<1> QED
  BY <1>1, <1>2

LEMMA CancelKept ==
    ASSUME NEW f, NEW w \in Seq(Tasks), NEW t \in Tasks, NEW c \in Tasks, c # t,
           Enters(f, w, t), f[c].pc = "get"
    PROVE  Kept(Cancelled(f, t, c), c, Append(w, t))
<1> DEFINE g == Cancelled(f, t, c)
           v == Append(w, t)
<1>1. /\ g \in [Tasks -> TaskType] /\ g[t].pc = "wait" /\ g[t].on = c
      /\ \A u \in Tasks : g[u].kind = f[u].kind /\ g[u].fresh = f[u].fresh /\ g[u].left = f[u].left
      /\ \A u \in Tasks : u # t => g[u].pc = f[u].pc /\ g[u].on = f[u].on
      /\ \A u \in Tasks : u # t /\ u # c => g[u] = f[u]
  BY CancelRow DEF Enters
<1>2. /\ v \in Seq(Tasks)
      /\ \E i \in DOMAIN v : v[i] = t
      /\ \A u : (\E i \in DOMAIN w : w[i] = u) => \E i \in DOMAIN v : v[i] = u
  BY AppendQueue
<1> HIDE DEF g, v
<1>3. \A u \in Tasks : Shaped(g[u])
  <2> TAKE u \in Tasks
  <2>1. CASE u = t
    BY <1>1, <2>1, KindsApart DEF Enters, Shaped
  <2>2. CASE u = c
    BY <1>1, <2>2, IdleRow DEF Enters, Shaped
  <2>3. CASE u # t /\ u # c
    BY <1>1, <2>3 DEF Enters
  <2> QED
    BY <2>1, <2>2, <2>3
<1>4. \A u \in Tasks : Waiting(g, u) => \E i \in DOMAIN v : v[i] = u
  <2> SUFFICES ASSUME NEW u \in Tasks, Waiting(g, u), u # t
               PROVE  \E i \in DOMAIN v : v[i] = u
    BY <1>2
  <2>1. Waiting(f, u)
    BY <1>1 DEF Waiting
  <2>2. \E i \in DOMAIN w : w[i] = u
    BY <2>1 DEF Enters
  <2> QED
    BY <1>2, <2>2
<1>5. /\ \A u \in Tasks : g[u].kind = "autofill" => u = Autofill
      /\ g[Autofill].kind \in {"autofill", "idle"}
  BY <1>1, Names DEF Enters
<1>6. Kept(g, c, v)
  BY <1>1, <1>2, <1>3, <1>4, <1>5 DEF Kept
<1> QED
  BY <1>6 DEF g, v

LEMMA CancelCalm ==
    ASSUME NEW f, NEW w, NEW t \in Tasks, NEW c \in Tasks, NEW s, NEW l, c # t,
           Enters(f, w, t), Fits(f, t, c, s, l)
    PROVE  Calm(Cancelled(f, t, c), c, s, l)
<1> DEFINE g == Cancelled(f, t, c)
<1>1. /\ g[t].pc = "wait" /\ g[t].on = c
      /\ \A u \in Tasks : g[u].kind = f[u].kind /\ g[u].fresh = f[u].fresh
      /\ \A u \in Tasks : u # t => g[u].pc = f[u].pc /\ g[u].on = f[u].on
  BY CancelRow DEF Enters
<1>2. c # NoTask
  BY Names
<1> HIDE DEF g
<1>3. \A u \in Tasks : /\ Acts(g, u) <=> Acts(f, u)
                       /\ Calling(g, u) <=> Calling(f, u)
                       /\ Waiting(g, u) => g[u].on = c
                       /\ u # t /\ Waiting(f, u) => Waiting(g, u)
                       /\ g[u].pc = "get" => u = c
  BY <1>1 DEF Acts, Calling, Waiting, Fits
<1>4. OneActs(g) /\ OneCalls(g, l) /\ Placed(g, c, s)
  BY <1>1, <1>3 DEF Fits, OneActs, OneCalls, Placed
<1>5. OnSlot(g, c) /\ s # "passkey-retry"
  BY <1>2, <1>3 DEF Fits, OnSlot
<1>6. Microtasks(g, c)
  BY <1>2, <1>3 DEF Microtasks, Waiting, Woken
<1>7. Backs(g, s)
  BY <1>1, <1>3 DEF Fits, Backs, Waiting
<1> QED
  BY <1>4, <1>5, <1>6, <1>7 DEF Calm, g

\* The functions after a get() has begun.
LEMMA BeginKept ==
    ASSUME NEW f, NEW w \in Seq(Tasks), NEW t \in Tasks,
           Enters(f, w, t), f[t].kind \in Ceremonies, f[t].on = NoTask
    PROVE  Kept([f EXCEPT ![t].pc = "get"], t, w)
<1> DEFINE r == [f[t] EXCEPT !.pc = "get"]
           g == [f EXCEPT ![t] = r]
<1>1. /\ r \in TaskType /\ r.pc = "get" /\ r.kind = f[t].kind /\ r.on = NoTask
      /\ r.fresh = f[t].fresh /\ r.left = f[t].left
  BY DEF Enters, TaskType, Pcs
<1> HIDE DEF r
<1>2. /\ g \in [Tasks -> TaskType] /\ g[t] = r
      /\ \A u \in Tasks : u # t => g[u] = f[u]
  BY <1>1 DEF Enters
<1> HIDE DEF g
<1>3. Shaped(r)
  BY <1>1, KindsApart DEF Enters, Shaped
<1>4. Kept(g, t, w)
  BY <1>1, <1>2, <1>3, Names DEF Enters, Kept, Waiting
<1> QED
  BY <1>4 DEF g, r

\* The slot is free for function t, and no function that waits is to be disturbed.
Vacant(f, t, s, l) ==
    /\ f[t].pc # "verify"
    /\ \A u \in Tasks : u # t => ~Parked(f, u) /\ f[u].pc # "get"
    /\ \A u \in Tasks : f[u].kind # "back"
    /\ OneActs(f)
    /\ OneCalls(f, l)
    /\ Placed(f, NoTask, s)

LEMMA BeginCalm ==
    ASSUME NEW f, NEW w, NEW t \in Tasks, NEW s, NEW l,
           Enters(f, w, t), Acts(f, t), Vacant(f, t, s, l)
    PROVE  Calm([f EXCEPT ![t].pc = "get"], t, s, l)
<1> DEFINE r == [f[t] EXCEPT !.pc = "get"]
           g == [f EXCEPT ![t] = r]
<1>1. r.pc = "get" /\ r.kind = f[t].kind /\ r.fresh = f[t].fresh
  BY DEF Enters, TaskType, Pcs
<1> HIDE DEF r
<1>2. g[t] = r /\ \A u \in Tasks : u # t => g[u] = f[u]
  BY <1>1 DEF Enters
<1> HIDE DEF g
<1>3. /\ \A u \in Tasks : Acts(g, u) => u = t
      /\ \A u \in Tasks : ~Calling(f, u) /\ ~Calling(g, u)
      /\ \A u \in Tasks : ~Parked(g, u)
      /\ \A u \in Tasks : g[u].pc = "get" => u = t
      /\ \A u \in Tasks : g[u].kind # "back"
  BY <1>1, <1>2, Names DEF Vacant, OneActs, OneCalls, Acts, Calling, Parked
<1>4. OneActs(g) /\ OneCalls(g, l)
  BY <1>3 DEF OneActs, OneCalls
<1>5. Placed(g, t, s) /\ s # "passkey-retry"
  BY <1>1, <1>2, <1>3 DEF Vacant, Placed, Acts
<1>6. OnSlot(g, t)
  BY <1>3 DEF OnSlot, Parked, Waiting
<1>7. Microtasks(g, t) /\ Backs(g, s)
  BY <1>1, <1>2, <1>3 DEF Microtasks, Backs, Acts
<1> QED
  BY <1>4, <1>5, <1>6, <1>7 DEF Calm, g, r

LEMMA FitsVacant ==
    ASSUME NEW f, NEW w, NEW t \in Tasks, NEW s, NEW l,
           Enters(f, w, t), Acts(f, t), Fits(f, t, NoTask, s, l)
    PROVE  Vacant(f, t, s, l)
  BY Names DEF Fits, Vacant, Parked, Waiting

\* A ceremony of an attempt gone by ends before it begins.
LEMMA StaleKept ==
    ASSUME NEW f, NEW c, NEW w \in Seq(Tasks), NEW t \in Tasks, Enters(f, w, t),
           c \in Tasks \cup {NoTask}, t # c, c # NoTask => f[c].pc = "get"
    PROVE  Kept(End(f, t), c, w)
<1> DEFINE g == End(f, t)
<1>1. /\ g \in [Tasks -> TaskType] /\ g[t] = Idle
      /\ \A u \in Tasks : u # t => g[u] = f[u]
  BY IdleRow DEF End, Enters
<1> HIDE DEF g
<1>2. \A u \in Tasks : g[u].kind = "autofill" => u = Autofill
  BY <1>1, IdleRow DEF Enters
<1>3. g[Autofill].kind \in {"autofill", "idle"}
  BY <1>1, IdleRow, Names DEF Enters
<1>4. \A u \in Tasks : Shaped(g[u]) /\ (Waiting(g, u) => \E i \in DOMAIN w : w[i] = u)
  BY <1>1, IdleRow DEF Enters, Waiting
<1>5. Kept(g, c, w)
  BY <1>1, <1>2, <1>3, <1>4, Names DEF Kept
<1> QED
  BY <1>5 DEF g

LEMMA StaleCalm ==
    ASSUME NEW f, NEW w, NEW t \in Tasks, NEW s, NEW l, Enters(f, w, t), Fits(f, t, NoTask, s, l)
    PROVE  Calm(End(f, t), NoTask, s, l)
<1> DEFINE g == End(f, t)
<1>1. g[t] = Idle /\ \A u \in Tasks : u # t => g[u] = f[u]
  BY IdleRow DEF End, Enters
<1> HIDE DEF g
<1>2. /\ \A u \in Tasks : ~Waiting(g, u) /\ g[u].pc # "get"
      /\ \A u \in Tasks : Acts(g, u) => Acts(f, u) /\ g[u] = f[u]
      /\ \A u \in Tasks : Calling(g, u) => Calling(f, u)
      /\ \A u \in Tasks : g[u].kind # "back"
  <2>1. \A u \in Tasks : ~Waiting(g, u) /\ g[u].pc # "get"
    BY <1>1, IdleRow, Names DEF Fits, Waiting
  <2>2. \A u \in Tasks : u # t /\ f[u].kind = "back" => Waiting(f, u)
    BY KindsApart, FormsKinds, IdleRow DEF Enters, Shaped, Waiting
  <2>3. \A u \in Tasks : g[u].kind # "back"
    BY <1>1, <2>1, <2>2, IdleRow DEF Waiting
  <2> QED
    BY <1>1, <2>1, <2>3, IdleRow, KindsApart DEF Acts, Calling
<1>3. OneActs(g) /\ OneCalls(g, l) /\ Placed(g, NoTask, s)
  BY <1>2 DEF Fits, OneActs, OneCalls, Placed
<1>4. OnSlot(g, NoTask) /\ Microtasks(g, NoTask) /\ Backs(g, s)
  BY <1>2 DEF OnSlot, Microtasks, Backs, Woken, Waiting
<1> QED
  BY <1>3, <1>4 DEF Calm, g

-----------------------------------------------------------------------------
(* Lemmas on the steps of the page.                                          *)

\* A step that shows s and l with functions f leads to a state as it should be.
Lands(f, s, l) ==
    /\ s \in Steps
    /\ l \in BOOLEAN
    /\ {codeOffered', condDisabled', late'} \subseteq BOOLEAN
    /\ Kept(f, ceremony', waiting')
    /\ ~late' => /\ Calm(f, ceremony', s, l)
                 /\ s = "email" /\ ~l => \A t \in Tasks : Acts(f, t) => t = Autofill

LEMMA ShowKeeps ==
    ASSUME IInv, NEW f, NEW s, NEW l, Lands(f, s, l), Show(f, s, l)
    PROVE  IInv'
<1>1. Shows'
  BY DEF IInv, Shows, Lands, Show, Display
<1>2. task' = Armed(f, s, l) /\ step' = s /\ loading' = l
  BY DEF Show, Display
<1>3. Kept(Armed(f, s, l), ceremony', waiting')
  BY ArmedKept DEF Lands
<1>4. ~late' => Calm(Armed(f, s, l), ceremony', s, l)
  BY ArmedCalm DEF Lands
<1> QED
  BY <1>1, <1>2, <1>3, <1>4 DEF IInv

\* Function t comes to the slot with the functions f, on a page that shows s and l.
Comes(f, t, s, l) ==
    /\ s \in Steps
    /\ l \in BOOLEAN
    /\ {codeOffered', condDisabled'} \subseteq BOOLEAN
    /\ UNCHANGED late
    /\ t \in Tasks /\ t # ceremony
    /\ ceremony # NoTask => f[ceremony].pc = "get"
    /\ Enters(f, waiting, t)
    /\ ~late => Fits(f, t, ceremony, s, l)

LEMMA CancelKeeps ==
    ASSUME IInv, NEW f, NEW t, NEW s, NEW l, ceremony # NoTask, Comes(f, t, s, l), Cancel(f, t, s, l)
    PROVE  IInv'
<1>1. Shows'
  BY DEF IInv, Shows, Comes, Cancel, Display
<1>2. /\ task' = Cancelled(f, t, ceremony) /\ ceremony' = ceremony
      /\ waiting' = Append(waiting, t) /\ step' = s /\ loading' = l /\ late' = late
  BY DEF Cancel, Display, Cancelled, Comes
<1>3. waiting \in Seq(Tasks) /\ ceremony \in Tasks /\ t \in Tasks /\ ceremony # t
  BY DEF IInv, Kept, Comes
<1>4. Kept(Cancelled(f, t, ceremony), ceremony, Append(waiting, t))
  BY <1>3, CancelKept DEF Comes
<1>5. ~late => Calm(Cancelled(f, t, ceremony), ceremony, s, l)
  BY <1>3, CancelCalm DEF Comes
<1> QED
  BY <1>1, <1>2, <1>4, <1>5 DEF IInv

LEMMA RunKeeps ==
    ASSUME IInv, NEW f, NEW t, NEW s, NEW l, Comes(f, t, s, l), f[t].kind \in Ceremonies,
           f[t].on = NoTask, RunCeremony(f, t, s, l)
    PROVE  IInv'
<1>1. CASE ceremony # NoTask
  BY <1>1, CancelKeeps DEF RunCeremony
<1>2. CASE ceremony = NoTask
  <2>1. /\ Begin(f, t) /\ Display(s, l) /\ waiting' = waiting /\ late' = late
        /\ waiting \in Seq(Tasks) /\ t \in Tasks
        /\ Enters(f, waiting, t)
        /\ ~late => Fits(f, t, NoTask, s, l)
    BY <1>2 DEF IInv, Kept, RunCeremony, Comes
  <2>2. Shows'
    BY <2>1 DEF IInv, Shows, Comes, Display
  <2>3. CASE f[t].fresh
    <3>1. task' = [f EXCEPT ![t].pc = "get"] /\ ceremony' = t
      BY <2>1, <2>3 DEF Begin
    <3>2. Kept(task', t, waiting)
      BY <2>1, <3>1, BeginKept
    <3>3. ~late => Calm(task', t, s, l)
      BY <2>1, <2>3, <3>1, BeginCalm, FitsVacant DEF Acts
    <3> QED
      BY <2>1, <2>2, <3>1, <3>2, <3>3 DEF IInv, Display
  <2>4. CASE ~f[t].fresh
    <3>1. task' = End(f, t) /\ ceremony' = NoTask
      BY <1>2, <2>1, <2>4 DEF Begin
    <3>2. Kept(task', NoTask, waiting)
      BY <2>1, <3>1, Names, StaleKept
    <3>3. ~late => Calm(task', NoTask, s, l)
      BY <2>1, <3>1, StaleCalm
    <3> QED
      BY <2>1, <2>2, <3>1, <3>2, <3>3 DEF IInv, Display
  <2> QED
    BY <2>3, <2>4
<1> QED
  BY <1>1, <1>2

LEMMA NoneWoken == ASSUME Quiet PROVE \A t \in Tasks : ~Woken(task, t)
  BY DEF Quiet, Released, Woken

\* Back is a function only while it waits.
LEMMA BackWaits ==
    ASSUME NEW f, NEW c, NEW w, NEW t \in Tasks, Kept(f, c, w), f[t].kind = "back"
    PROVE  Waiting(f, t) /\ f[t] # Idle
  BY IdleRow, KindsApart, FormsKinds DEF Kept, Shaped, Waiting

\* While nothing loads there is no call; the steps that only Back and the forms
\* leave have no ceremony to act.
LEMMA NotCalling ==
    ASSUME IInv, ~late, ~loading
    PROVE  \A t \in Tasks : ~Calling(task, t)
  BY DEF IInv, Calm, OneCalls

LEMMA AtRest ==
    ASSUME IInv, ~late, ~loading, step \in {"password", "otp", "offer", "tos"}
    PROVE  \A t \in Tasks : /\ ~Acts(task, t)
                            /\ ~Calling(task, t)
                            /\ task[t].kind = "back" => ~Parked(task, t)
<1>1. \A t \in Tasks : ~Acts(task, t)
  BY DEF IInv, Calm, Placed
<1>2. \A t \in Tasks : task[t].kind = "back" => ~Parked(task, t)
  BY DEF IInv, Calm, Backs
<1> QED
  BY <1>1, <1>2, NotCalling

\* A function that a press starts, which may come to the slot.
LEMMA NewRow ==
    ASSUME NEW g \in [Tasks -> TaskType], NEW t \in Pool, NEW r \in TaskType
    PROVE  /\ [g EXCEPT ![t] = r] \in [Tasks -> TaskType]
           /\ [g EXCEPT ![t] = r][t] = r
           /\ \A u \in Tasks : u # t => [g EXCEPT ![t] = r][u] = g[u]
  BY Names

LEMMA EntersNew ==
    ASSUME NEW g, NEW f \in [Tasks -> TaskType], NEW c, NEW w, NEW t \in Pool, Kept(g, c, w),
           f[t].kind \in {"passkey", "trigger", "submit", "code", "back"}, ~f[t].left,
           \A u \in Tasks : u # t => f[u] = g[u]
    PROVE  Enters(f, w, t)
  BY Names, KindsApart DEF Kept, Enters, Waiting

\* A call, or Back, that comes to the slot while another request holds it.
LEMMA FitsWait ==
    ASSUME NEW f, NEW g, NEW c \in Tasks, NEW w, NEW t \in Tasks, NEW s, NEW l0, NEW l \in BOOLEAN,
           Kept(g, c, w), Calm(g, c, s, l0),
           \A u \in Tasks : ~Woken(g, u) /\ ~Acts(g, u) /\ ~Calling(g, u),
           \A u \in Tasks : u # t => f[u] = g[u],
           \/ f[t].kind \in {"submit", "code"} /\ f[t].pc = "post" /\ l
           \/ f[t].kind = "back" /\ f[t].pc = "wait" /\ s = "passkey"
    PROVE  Fits(f, t, c, s, l)
<1>1. \A u \in Tasks : ~Acts(f, u) /\ (Calling(f, u) => u = t /\ l)
  BY KindsApart DEF Acts, Calling
<1>2. OneActs(f) /\ OneCalls(f, l) /\ Placed(f, c, s)
  BY <1>1 DEF OneActs, OneCalls, Placed
<1>3. \A u \in Tasks : u # t => /\ Waiting(f, u) => f[u].on = c
                                /\ f[u].pc = "get" => u = c
  BY DEF Calm, OnSlot, Waiting, Woken
<1>4. \A b \in Tasks : f[b].kind = "back" => s = "passkey"
  <2>1. \A b \in Tasks : b # t /\ f[b].kind = "back" => Parked(g, b)
    BY BackWaits DEF Waiting, Woken, Parked
  <2> QED
    BY <2>1 DEF Calm, Backs
<1>5. s # "passkey-retry"
  BY Names DEF Calm
<1> QED
  BY <1>1, <1>2, <1>3, <1>4, <1>5, Names DEF Fits

\* A ceremony that a press or an answer triggers.
LEMMA FitsTrigger ==
    ASSUME NEW f, NEW g, NEW c, NEW w, NEW t \in Tasks, NEW s, NEW l,
           Kept(g, c, w), Calm(g, c, s, l),
           \A u \in Tasks : ~Woken(g, u) /\ ~Acts(g, u) /\ g[u].kind # "back",
           \A u \in Tasks : u # t => f[u] = g[u] /\ ~Calling(g, u),
           f[t].kind = "trigger", f[t].pc = "get"
    PROVE  Fits(f, t, c, "passkey", FALSE)
<1>1. /\ \A u \in Tasks : ~Calling(f, u) /\ (Acts(f, u) => u = t)
      /\ \A u \in Tasks : f[u].kind # "back"
  BY KindsApart DEF Acts, Calling
<1>2. OneActs(f) /\ OneCalls(f, FALSE) /\ Placed(f, c, "passkey")
  BY <1>1 DEF OneActs, OneCalls, Placed
<1>3. \A u \in Tasks : u # t => /\ Waiting(f, u) => c # NoTask /\ f[u].on = c
                                /\ f[u].pc = "get" => u = c
  BY DEF Calm, OnSlot, Waiting, Woken
<1> QED
  BY <1>1, <1>2, <1>3 DEF Fits

-----------------------------------------------------------------------------
(* What the user does.                                                       *)

\* What the presses that leave a ceremony have in common.
LEMMA Left ==
    ASSUME IInv, Quiet
    PROVE  /\ Kept(Bump(Leave(task)), ceremony, waiting)
           /\ \A t \in Tasks : /\ ~Acts(Bump(Leave(task)), t)
                               /\ ~Woken(Bump(Leave(task)), t)
                               /\ Calling(Bump(Leave(task)), t) <=> Calling(task, t)
                               /\ Bump(Leave(task))[t].kind = task[t].kind
                               /\ Bump(Leave(task))[t].pc = task[t].pc
                               /\ task[t] = Idle => Bump(Leave(task))[t] = Idle
           /\ ~late => Calm(Bump(Leave(task)), ceremony, step, loading)
<1> DEFINE g == Bump(Leave(task))
<1>1. Kept(task, ceremony, waiting)
  BY DEF IInv
<1>2. Stilled(task, g)
  BY <1>1, LeaveStills
<1> HIDE DEF g
<1>3. Kept(g, ceremony, waiting)
  BY <1>1, <1>2, StilledKept
<1>4. ~late => Calm(g, ceremony, step, loading)
  BY <1>2, NoneWoken, StilledCalm DEF IInv
<1>5. \A t \in Tasks : /\ ~Acts(g, t) /\ ~Woken(g, t) /\ (Calling(g, t) <=> Calling(task, t))
                       /\ g[t].kind = task[t].kind /\ g[t].pc = task[t].pc
                       /\ task[t] = Idle => g[t] = Idle
  BY <1>2, NoneWoken, StilledQuiet DEF Stilled
<1> QED
  BY <1>3, <1>4, <1>5 DEF g

\* onEmailSubmit and "use-code": a call that leaves a ceremony.
LEMMA CallKeeps ==
    ASSUME IInv, Quiet, ~loading, Free # {}, NEW kind \in {"submit", "code"},
           step # "success", UNCHANGED <<codeOffered, condDisabled, late>>,
           \/ /\ ceremony = NoTask
              /\ Show(Call(Bump(Leave(task)), Slot, kind), step, TRUE)
              /\ UNCHANGED <<ceremony, waiting>>
           \/ /\ ceremony # NoTask
              /\ Cancel(Call(Bump(Leave(task)), Slot, kind), Slot, step, TRUE)
    PROVE  IInv'
<1> DEFINE g == Bump(Leave(task))
           f == Call(g, Slot, kind)
<1>1. /\ Kept(g, ceremony, waiting)
      /\ \A t \in Tasks : /\ ~Acts(g, t) /\ ~Woken(g, t)
                          /\ Calling(g, t) <=> Calling(task, t)
                          /\ g[t].pc = task[t].pc
                          /\ task[t] = Idle => g[t] = Idle
      /\ ~late => Calm(g, ceremony, step, loading)
  BY Left
<1>2. Slot \in Pool /\ Slot \in Tasks /\ task[Slot] = Idle
  BY SlotIdle DEF IInv
<1>3. ~late => \A t \in Tasks : ~Calling(g, t)
  BY <1>1, NotCalling
<1>4. step \in Steps /\ {codeOffered', condDisabled', late'} \subseteq BOOLEAN
  BY DEF IInv, Shows
<1> HIDE DEF g
<1>5. CASE ceremony = NoTask /\ Show(f, step, TRUE) /\ UNCHANGED <<ceremony, waiting>>
  <2>1. Kept(f, ceremony, waiting)
    BY <1>1, <1>2, CallKept, KindsApart
  <2>2. ASSUME ~late PROVE Calm(f, ceremony, step, TRUE)
    <3>1. \A t \in Tasks : ~Parked(g, t)
      BY <1>1, <1>5, <2>2 DEF Calm, OnSlot, Parked, Waiting
    <3>2. \A t \in Tasks : /\ ~Acts(g, t) /\ ~Calling(g, t)
                           /\ g[t].kind = "back" => ~Parked(g, t)
      BY <1>1, <1>3, <2>2, <3>1
    <3>3. Calm(g, ceremony, step, loading) /\ g[Slot] = Idle
      BY <1>1, <1>2, <2>2
    <3> QED
      BY <1>1, <1>2, <1>5, <3>2, <3>3, CallCalm, KindsApart
  <2> HIDE DEF f
  <2>3. Lands(f, step, TRUE)
    BY <1>4, <1>5, <2>1, <2>2 DEF Lands
  <2> QED
    BY <1>5, <2>3, ShowKeeps
<1>6. CASE ceremony # NoTask /\ Cancel(f, Slot, step, TRUE)
  <2> DEFINE r == New(kind, "post")
  <2>1. r \in TaskType /\ r.kind = kind /\ r.pc = "post" /\ ~r.left
    BY NewTyped DEF Kinds, Pcs
  <2> HIDE DEF r
  <2>2. /\ f \in [Tasks -> TaskType] /\ f[Slot] = r
        /\ \A u \in Tasks : u # Slot => f[u] = g[u]
    BY <1>1, <1>2, <2>1, NewRow DEF Kept, Call, r
  <2> HIDE DEF f
  <2>3. Enters(f, waiting, Slot) /\ f[Slot].kind = kind /\ f[Slot].pc = "post"
    BY <1>1, <1>2, <2>1, <2>2, EntersNew
  <2>4. ceremony \in Tasks /\ ceremony # Slot /\ f[ceremony].pc = "get"
    BY <1>1, <1>2, <1>6, <2>2, IdleRow DEF Kept
  <2>5. ~late => Fits(f, Slot, ceremony, step, TRUE)
    BY <1>1, <1>2, <1>3, <2>2, <2>4, <2>3, FitsWait
  <2>6. Comes(f, Slot, step, TRUE)
    BY <1>2, <1>4, <2>4, <2>5, <2>3 DEF Comes
  <2> QED
    BY <1>6, <2>6, CancelKeeps
<1> QED
  BY <1>5, <1>6 DEF g

LEMMA EmailSubmitKeeps == ASSUME IInv, Quiet, EmailSubmit PROVE IInv'
  BY CallKeeps DEF EmailSubmit, Press

LEMMA UseCodeKeeps == ASSUME IInv, Quiet, UseCode PROVE IInv'
  BY CallKeeps DEF UseCode, Press

LEMMA PasskeyKeeps == ASSUME IInv, Quiet, Passkey PROVE IInv'
<1> DEFINE g == Bump(Leave(task))
           r == New("passkey", "opts")
           f == [g EXCEPT ![Slot] = r]
<1>1. /\ Kept(g, ceremony, waiting)
      /\ \A t \in Tasks : /\ ~Acts(g, t) /\ ~Woken(g, t)
                          /\ Calling(g, t) <=> Calling(task, t)
                          /\ task[t] = Idle => g[t] = Idle
      /\ ~late => Calm(g, ceremony, step, loading)
  BY Left
<1>2. Slot \in Pool /\ Slot \in Tasks /\ Slot # Autofill /\ task[Slot] = Idle
  BY SlotIdle DEF IInv, Passkey
<1>3. r \in TaskType /\ r.kind = "passkey" /\ r.pc = "opts" /\ r.on = NoTask /\ ~r.left
  BY NewTyped, KindsApart DEF Kinds, Pcs
<1>4. /\ step = "email" /\ ~loading /\ Show(f, "passkey", FALSE)
      /\ UNCHANGED <<ceremony, waiting, late>>
      /\ {codeOffered', condDisabled', late'} \subseteq BOOLEAN
  BY DEF Passkey, Press, IInv, Shows
<1>5. ~late => \A t \in Tasks : ~Calling(g, t)
  BY <1>1, <1>4, NotCalling
<1> HIDE DEF g, r
<1>6. /\ f \in [Tasks -> TaskType] /\ f[Slot] = r
      /\ \A u \in Tasks : u # Slot => f[u] = g[u]
  BY <1>1, <1>2, <1>3 DEF Kept
<1> HIDE DEF f
<1>7. Kept(f, ceremony, waiting)
  <2>1. Shaped(r)
    BY <1>3 DEF Shaped
  <2>2. ceremony # Slot
    BY <1>1, <1>2, IdleRow, Names DEF Kept
  <2> QED
    BY <1>1, <1>2, <1>3, <1>6, <2>1, <2>2, Names DEF Kept, Waiting
<1>8. ASSUME ~late PROVE Calm(f, ceremony, "passkey", FALSE)
  <2>1. \A u \in Tasks : /\ Acts(f, u) => u = Slot
                         /\ ~Calling(f, u)
                         /\ Waiting(f, u) => Waiting(g, u) /\ f[u] = g[u]
                         /\ ~Woken(f, u)
                         /\ f[u].pc = "get" => g[u].pc = "get"
    BY <1>1, <1>3, <1>5, <1>6, <1>8, KindsApart DEF Acts, Calling, Waiting, Woken
  <2>2. \A u \in Tasks : f[u].kind # "back"
    <3>1. \A u \in Tasks : ~Parked(g, u) \/ g[u].kind # "back"
      BY <1>1, <1>4, <1>8 DEF Calm, Backs
    <3>2. \A u \in Tasks : g[u].kind # "back"
      BY <1>1, <3>1, BackWaits DEF Parked, Woken, Waiting
    <3> QED
      BY <1>3, <1>6, <3>2
  <2>3. OneActs(f) /\ OneCalls(f, FALSE) /\ Backs(f, "passkey") /\ Microtasks(f, ceremony)
    BY <2>1, <2>2 DEF OneActs, OneCalls, Backs, Microtasks
  <2>4. Placed(f, ceremony, "passkey")
    BY <1>3, <1>6, <2>1 DEF Placed
  <2>5. OnSlot(f, ceremony)
    BY <1>1, <1>8, <2>1 DEF Calm, OnSlot
  <2> QED
    BY <2>3, <2>4, <2>5 DEF Calm
<1>9. Lands(f, "passkey", FALSE)
  BY <1>4, <1>7, <1>8 DEF Lands, Steps
<1> QED
  BY <1>4, <1>9, ShowKeeps DEF f

LEMMA PasskeyBackKeeps == ASSUME IInv, Quiet, PasskeyBack PROVE IInv'
<1> DEFINE g == Bump(Leave(task))
<1>1. /\ Kept(g, ceremony, waiting)
      /\ \A t \in Tasks : /\ ~Acts(g, t) /\ ~Woken(g, t)
                          /\ Calling(g, t) <=> Calling(task, t)
                          /\ g[t].pc = task[t].pc
                          /\ task[t] = Idle => g[t] = Idle
      /\ ~late => Calm(g, ceremony, step, loading)
  BY Left
<1>2. step \in {"passkey", "passkey-retry"} /\ ~loading
  BY DEF PasskeyBack, Press
<1>3. ~late => \A t \in Tasks : ~Calling(g, t)
  BY <1>1, <1>2, NotCalling
<1>4. /\ step \in Steps /\ loading \in BOOLEAN /\ UNCHANGED late
      /\ {codeOffered', condDisabled', late'} \subseteq BOOLEAN
  BY DEF IInv, Shows, PasskeyBack
<1>5. CASE ceremony = NoTask
  <2>1. Show(g, "email", FALSE) /\ UNCHANGED <<ceremony, waiting>>
    BY <1>5 DEF PasskeyBack
  <2> HIDE DEF g
  <2>2. ASSUME ~late PROVE Calm(g, ceremony, "email", FALSE)
    <3>1. \A t \in Tasks : ~Parked(g, t)
      BY <1>1, <1>5, <2>2 DEF Calm, OnSlot, Parked, Waiting
    <3> QED
      BY <1>1, <1>3, <1>5, <2>2, <3>1, Settles
  <2>3. Lands(g, "email", FALSE)
    BY <1>1, <1>4, <2>1, <2>2 DEF Lands, Steps
  <2> QED
    BY <2>1, <2>3, ShowKeeps
<1>6. CASE ceremony # NoTask
  <2> DEFINE f == [g EXCEPT ![Slot] = New("back", "wait")]
  <2>1. Free # {} /\ Cancel(f, Slot, step, loading)
    BY <1>6 DEF PasskeyBack
  <2>2. Slot \in Pool /\ Slot \in Tasks /\ task[Slot] = Idle
    BY <2>1, SlotIdle DEF IInv
  <2> HIDE DEF g
  <2> DEFINE r == New("back", "wait")
  <2>3. r \in TaskType /\ r.kind = "back" /\ r.pc = "wait" /\ ~r.left
    BY NewTyped DEF Kinds, Pcs
  <2> HIDE DEF r
  <2>4. /\ f \in [Tasks -> TaskType] /\ f[Slot] = r
        /\ \A u \in Tasks : u # Slot => f[u] = g[u]
    BY <1>1, <2>2, <2>3, NewRow DEF Kept, r
  <2> HIDE DEF f
  <2>5. Enters(f, waiting, Slot) /\ f[Slot].kind = "back" /\ f[Slot].pc = "wait"
    BY <1>1, <2>2, <2>3, <2>4, EntersNew
  <2>6. ceremony \in Tasks /\ ceremony # Slot /\ f[ceremony].pc = "get"
    BY <1>1, <1>6, <2>2, <2>4, IdleRow DEF Kept
  <2>7. ASSUME ~late PROVE Fits(f, Slot, ceremony, step, loading)
    <3>1. step = "passkey"
      BY <1>1, <1>2, <1>6, <2>7 DEF Calm
    <3> QED
      BY <1>1, <1>3, <1>4, <2>2, <2>4, <2>6, <2>7, <2>5, <3>1, FitsWait
  <2>8. Comes(f, Slot, step, loading)
    BY <1>4, <2>2, <2>6, <2>7, <2>5 DEF Comes
  <2> QED
    BY <1>6, <2>1, <2>8, CancelKeeps DEF f
<1> QED
  BY <1>5, <1>6

LEMMA BackKeeps == ASSUME IInv, Quiet, Back PROVE IInv'
<1>1. /\ step \in {"password", "otp"} /\ ~loading /\ Show(task, "email", FALSE)
      /\ UNCHANGED <<ceremony, waiting, late>>
      /\ {codeOffered', condDisabled', late'} \subseteq BOOLEAN
  BY DEF IInv, Shows, Back, Press
<1>2. ~late => Calm(task, ceremony, "email", FALSE) /\ \A t \in Tasks : ~Acts(task, t)
  BY <1>1, AtRest, Settles DEF IInv
<1>3. Lands(task, "email", FALSE)
  BY <1>1, <1>2 DEF IInv, Lands, Steps
<1> QED
  BY <1>1, <1>3, ShowKeeps

LEMMA OfferSkipKeeps == ASSUME IInv, Quiet, OfferSkip PROVE IInv'
<1>1. /\ step = "offer" /\ ~loading /\ Show(task, "success", FALSE)
      /\ UNCHANGED <<ceremony, waiting, late>>
      /\ {codeOffered', condDisabled', late'} \subseteq BOOLEAN
  BY DEF IInv, Shows, OfferSkip, Press
<1>2. ~late => Calm(task, ceremony, "success", FALSE)
  BY <1>1, AtRest, Settles DEF IInv
<1>3. Lands(task, "success", FALSE)
  BY <1>1, <1>2 DEF IInv, Lands, Steps
<1> QED
  BY <1>1, <1>3, ShowKeeps

LEMMA SubmitKeeps == ASSUME IInv, Quiet, Submit PROVE IInv'
<1>1. PICK kind \in DOMAIN Forms :
        /\ Press({Forms[kind][1]})
        /\ Free # {}
        /\ Show(Call(task, Slot, kind), Forms[kind][2], TRUE)
        /\ UNCHANGED <<codeOffered, condDisabled, ceremony, waiting, late>>
  BY DEF Submit
<1> DEFINE f == Call(task, Slot, kind)
           s == Forms[kind][2]
<1>2. /\ step \in {"password", "otp", "offer", "tos"} /\ ~loading
      /\ s \in {"verifying", "password", "otp", "offer", "tos"}
      /\ {codeOffered', condDisabled', late'} \subseteq BOOLEAN
  BY <1>1, FormsKinds DEF IInv, Shows, Press
<1>3. Slot \in Pool /\ task[Slot] = Idle /\ kind \in CallKinds
  BY <1>1, SlotIdle DEF IInv, CallKinds
<1> HIDE DEF s
<1>4. Kept(f, ceremony, waiting)
  BY <1>3, CallKept DEF IInv
<1>5. ASSUME ~late PROVE Calm(f, ceremony, s, TRUE)
  <2>1. \A t \in Tasks : /\ ~Acts(task, t) /\ ~Calling(task, t)
                         /\ task[t].kind = "back" => ~Parked(task, t)
    BY <1>2, <1>5, AtRest
  <2>2. Kept(task, ceremony, waiting) /\ Calm(task, ceremony, step, loading) /\ s # "passkey-retry"
    BY <1>2, <1>5 DEF IInv
  <2> QED
    BY <1>3, <2>1, <2>2, CallCalm
<1> HIDE DEF f
<1>6. Lands(f, s, TRUE)
  BY <1>1, <1>2, <1>4, <1>5 DEF Lands, Steps
<1> QED
  BY <1>1, <1>6, ShowKeeps DEF f, s

\* triggerPasskey, with the functions g after attempt++.
LEMMA TriggerKeeps ==
    ASSUME IInv, NEW h, NEW t \in Pool, t # ceremony, Trigger(h, t), UNCHANGED <<condDisabled, late>>,
           codeOffered' \in BOOLEAN,
           Kept(Bump(h), ceremony, waiting),
           ~late => /\ Calm(Bump(h), ceremony, step, loading)
                    /\ \A u \in Tasks :
                          ~Woken(Bump(h), u) /\ ~Acts(Bump(h), u) /\ Bump(h)[u].kind # "back"
                    /\ \A u \in Tasks : u # t => ~Calling(Bump(h), u)
    PROVE  IInv'
<1> DEFINE g == Bump(h)
           f == [g EXCEPT ![t] = New("trigger", "get")]
<1>1. RunCeremony(f, t, "passkey", FALSE)
  BY DEF Trigger
<1> HIDE DEF g
<1> DEFINE r == New("trigger", "get")
<1>2. /\ r \in TaskType /\ r.kind = "trigger" /\ r.pc = "get" /\ r.on = NoTask /\ ~r.left
      /\ Kept(g, ceremony, waiting)
  BY NewTyped DEF Kinds, Ceremonies, Pcs, g
<1> HIDE DEF r
<1>3. /\ f \in [Tasks -> TaskType] /\ f[t] = r
      /\ \A u \in Tasks : u # t => f[u] = g[u]
  BY <1>2, NewRow DEF Kept, r
<1> HIDE DEF f
<1>4. Enters(f, waiting, t) /\ f[t].kind = "trigger" /\ f[t].pc = "get" /\ f[t].on = NoTask
  BY <1>2, <1>3, EntersNew
<1>5. t \in Tasks /\ (ceremony # NoTask => ceremony \in Tasks /\ f[ceremony].pc = "get")
  BY <1>2, <1>3, Names DEF Kept
<1>6. ASSUME ~late PROVE Fits(f, t, ceremony, "passkey", FALSE)
  <2>1. /\ Kept(g, ceremony, waiting) /\ Calm(g, ceremony, step, loading)
        /\ \A u \in Tasks : ~Woken(g, u) /\ ~Acts(g, u) /\ g[u].kind # "back"
        /\ \A u \in Tasks : u # t => f[u] = g[u] /\ ~Calling(g, u)
    BY <1>3, <1>6 DEF g
  <2>2. \A s, l : Calm(g, ceremony, s, l) => Fits(f, t, ceremony, "passkey", FALSE)
    BY <1>5, <1>4, <2>1, FitsTrigger
  <2> QED
    BY <2>1, <2>2
<1>7. Comes(f, t, "passkey", FALSE)
  BY <1>5, <1>6, <1>4 DEF Comes, Steps, IInv, Shows
<1>8. f[t].kind \in Ceremonies /\ RunCeremony(f, t, "passkey", FALSE)
  BY <1>1, <1>4, KindsApart
<1> QED
  BY <1>7, <1>8, <1>4, RunKeeps

LEMMA RetryKeeps == ASSUME IInv, Quiet, Retry PROVE IInv'
<1> DEFINE g == Bump(Leave(task))
<1>1. /\ Kept(g, ceremony, waiting)
      /\ \A t \in Tasks : /\ ~Acts(g, t) /\ ~Woken(g, t)
                          /\ Calling(g, t) <=> Calling(task, t)
                          /\ g[t].kind = task[t].kind
                          /\ task[t] = Idle => g[t] = Idle
      /\ ~late => Calm(g, ceremony, step, loading)
  BY Left
<1>2. /\ step = "passkey-retry" /\ ~loading /\ Free # {} /\ Trigger(Leave(task), Slot)
      /\ UNCHANGED <<codeOffered, condDisabled, late>>
  BY DEF Retry, Press
<1>3. Slot \in Pool /\ Slot \in Tasks /\ task[Slot] = Idle
  BY <1>2, SlotIdle DEF IInv
<1>4. Slot # ceremony
  BY <1>3, IdleRow, Names DEF IInv, Kept
<1>5. ~late => \A t \in Tasks : ~Calling(g, t)
  BY <1>1, <1>2, NotCalling
<1> HIDE DEF g
<1>6. ASSUME ~late PROVE \A t \in Tasks : g[t].kind # "back"
  <2>1. ceremony = NoTask
    BY <1>1, <1>2, <1>6 DEF Calm
  <2>2. \A t \in Tasks : ~Waiting(g, t)
    BY <1>1, <1>6, <2>1 DEF Calm, OnSlot, Woken, Waiting
  <2> QED
    BY <1>1, <2>2, BackWaits
<1>7. codeOffered' \in BOOLEAN
  BY <1>2 DEF IInv, Shows
<1> QED
  BY <1>1, <1>2, <1>3, <1>4, <1>5, <1>6, <1>7, TriggerKeeps DEF g

LEMMA UserKeeps == ASSUME IInv, User PROVE IInv'
  BY EmailSubmitKeeps, PasskeyKeeps, UseCodeKeeps, PasskeyBackKeeps, RetryKeeps, BackKeeps,
     OfferSkipKeeps, SubmitKeeps DEF User

-----------------------------------------------------------------------------
(* The answers.                                                              *)

\* A ceremony that may act is alone.
LEMMA SoleActor ==
    ASSUME IInv, ~late, NEW t \in Tasks, Acts(task, t)
    PROVE  \A u \in Tasks : /\ Acts(task, u) => u = t
                            /\ ~Calling(task, u)
                            /\ ~Parked(task, u) \/ task[u].kind # "back"
  BY DEF IInv, Calm, OneActs, OneCalls, Backs

\* A call that does not wait is alone.
LEMMA SoleCall ==
    ASSUME IInv, ~late, NEW t \in Tasks, Calling(task, t)
    PROVE  \A u \in Tasks : /\ ~Acts(task, u)
                            /\ Calling(task, u) => u = t
                            /\ ~Waiting(task, t) => ~Parked(task, u) \/ task[u].kind # "back"
  BY DEF IInv, Calm, OneCalls, Backs

\* What is left when function t has ended.
LEMMA EndLeaves ==
    ASSUME NEW f, NEW c, NEW w, NEW t \in Tasks, Kept(f, c, w)
    PROVE  \A u \in Tasks : /\ Acts(End(f, t), u) => Acts(f, u) /\ u # t
                            /\ Calling(End(f, t), u) => Calling(f, u) /\ u # t
                            /\ Parked(End(f, t), u) => Parked(f, u)
                            /\ End(f, t)[u].kind = "back" => f[u].kind = "back"
  BY EndRow, IdleRow, KindsApart DEF Acts, Calling, Parked

\* A ceremony that was left ends.
LEMMA StaleKeeps ==
    ASSUME IInv, NEW t \in Tasks, task[t].pc # "get", Stale(t), UNCHANGED <<ceremony, waiting, late>>
    PROVE  IInv'
<1>1. t # ceremony /\ Kept(task, ceremony, waiting)
  BY Names DEF IInv, Kept
<1>2. Kept(End(task, t), ceremony, waiting)
  BY <1>1, EndKept
<1>3. ~late => Calm(End(task, t), ceremony, step, loading)
  BY <1>1, EndCalm DEF IInv
<1> QED
  BY <1>2, <1>3 DEF IInv, Shows, Stale, page, shown

\* A ceremony of the attempt under way fails, with the functions f that are left.
LEMMA FailedKeeps ==
    ASSUME IInv, NEW t \in Tasks, NEW f, Failed(f, t), UNCHANGED late,
           Kept(f, ceremony', waiting'),
           ~late => /\ Calm(f, ceremony', step, loading)
                    /\ \A u \in Tasks : /\ ~Acts(f, u) /\ ~Calling(f, u)
                                        /\ f[u].kind = "back" => ~Parked(f, u)
                    /\ task[t].kind = "trigger" => ceremony' = NoTask
    PROVE  IInv'
<1>1. loading \in BOOLEAN /\ late' \in BOOLEAN /\ {codeOffered, condDisabled} \subseteq BOOLEAN
  BY DEF IInv, Shows
<1>2. CASE task[t].kind = "autofill"
  <2>1. /\ task' = f /\ UNCHANGED <<step, loading, finished, codeOffered>>
        /\ condDisabled' \in BOOLEAN
    BY <1>1, <1>2 DEF Failed, Disable, page, shown
  <2> QED
    BY <1>1, <2>1 DEF IInv, Shows
<1>3. CASE task[t].kind = "passkey"
  <2>1. Show(f, "email", loading) /\ UNCHANGED <<codeOffered, condDisabled>>
    BY <1>3 DEF Failed
  <2>2. ~late => Calm(f, ceremony', "email", loading)
    BY Settles
  <2>3. Lands(f, "email", loading)
    BY <1>1, <2>1, <2>2 DEF Lands, Steps
  <2> QED
    BY <2>1, <2>3, ShowKeeps
<1>4. CASE task[t].kind = "trigger"
  <2>1. Show(f, "passkey-retry", FALSE) /\ UNCHANGED <<codeOffered, condDisabled>>
    BY <1>4 DEF Failed
  <2>2. ~late => Calm(f, ceremony', "passkey-retry", FALSE)
    BY <1>4, Settles
  <2>3. Lands(f, "passkey-retry", FALSE)
    BY <1>1, <2>1, <2>2 DEF Lands, Steps
  <2> QED
    BY <2>1, <2>3, ShowKeeps
<1> QED
  BY <1>2, <1>3, <1>4 DEF Failed

\* The same, of a ceremony that does not have the slot.
LEMMA FailedEarly ==
    ASSUME IInv, NEW t \in Tasks, task[t].pc # "get", Acts(task, t), Failed(End(task, t), t),
           task[t].kind # "trigger" \/ task[t].pc = "verify", UNCHANGED <<ceremony, waiting, late>>
    PROVE  IInv'
<1>1. t # ceremony /\ Kept(task, ceremony, waiting)
  BY Names DEF IInv, Kept
<1>2. Kept(End(task, t), ceremony, waiting)
  BY <1>1, EndKept
<1>3. ASSUME ~late
      PROVE  /\ Calm(End(task, t), ceremony, step, loading)
             /\ \A u \in Tasks : /\ ~Acts(End(task, t), u) /\ ~Calling(End(task, t), u)
                                 /\ End(task, t)[u].kind = "back" => ~Parked(End(task, t), u)
             /\ task[t].kind = "trigger" => ceremony = NoTask
  <2>1. Calm(End(task, t), ceremony, step, loading)
    BY <1>1, <1>3, EndCalm DEF IInv
  <2>2. \A u \in Tasks : /\ ~Acts(End(task, t), u) /\ ~Calling(End(task, t), u)
                         /\ End(task, t)[u].kind = "back" => ~Parked(End(task, t), u)
    BY <1>1, <1>3, SoleActor, EndLeaves
  <2>3. task[t].kind = "trigger" => ceremony = NoTask
    BY <1>3 DEF IInv, Calm, Placed
  <2> QED
    BY <2>1, <2>2, <2>3
<1> QED
  BY <1>2, <1>3, FailedKeeps

\* A ceremony comes to the slot from a call of its own.
LEMMA ComesOwn ==
    ASSUME IInv, Quiet, NEW t \in Tasks, task[t].pc \in {"opts", "available"},
           UNCHANGED <<codeOffered, condDisabled, late>>
    PROVE  /\ Comes(task, t, step, loading)
           /\ task[t].kind \in Ceremonies
           /\ task[t].on = NoTask
<1>1. task[t].kind \in Ceremonies /\ task[t].on = NoTask
  BY KindsApart, FormsKinds, IdleRow DEF IInv, Kept, Shaped
<1>2. Enters(task, waiting, t)
  BY <1>1 DEF IInv, Kept, Shaped, Enters
<1>3. ASSUME ~late PROVE Fits(task, t, ceremony, step, loading)
  <2>1. \A u \in Tasks : /\ Waiting(task, u) => ceremony # NoTask /\ task[u].on = ceremony
                         /\ task[u].pc = "get" => u = ceremony
    BY <1>3, NoneWoken DEF IInv, Calm, OnSlot, Woken, Waiting
  <2>2. \A b \in Tasks : task[b].kind = "back" => Parked(task, b)
    BY NoneWoken, BackWaits DEF IInv, Parked, Woken, Waiting
  <2> QED
    BY <1>3, <2>1, <2>2 DEF IInv, Calm, Backs, Fits
<1>4. t # ceremony /\ (ceremony # NoTask => task[ceremony].pc = "get")
  BY Names DEF IInv, Kept
<1> QED
  BY <1>1, <1>2, <1>3, <1>4 DEF IInv, Shows, Comes

LEMMA OptionsKeeps == ASSUME IInv, Quiet, NEW t \in Tasks, Options(t) PROVE IInv'
<1>1. task[t].pc = "opts" /\ UNCHANGED late
  BY DEF Options
<1>2. CASE Stale(t) /\ UNCHANGED <<ceremony, waiting>>
  BY <1>1, <1>2, StaleKeeps
<1>3. CASE /\ task[t].kind = "autofill" /\ task[t].fresh
           /\ task' = [task EXCEPT ![t].pc = "available"]
           /\ UNCHANGED <<page, ceremony, waiting>>
  <2> DEFINE r == [task[t] EXCEPT !.pc = "available"]
  <2>1. task \in [Tasks -> TaskType] /\ Kept(task, ceremony, waiting)
    BY DEF IInv, Kept
  <2>2. /\ r \in TaskType /\ r.pc = "available" /\ r.kind = "autofill" /\ r.fresh
        /\ r.on = task[t].on /\ r.left = task[t].left
    BY <1>3, <2>1 DEF TaskType, Pcs
  <2> HIDE DEF r
  <2>3. /\ task' \in [Tasks -> TaskType] /\ task'[t] = r
        /\ \A u \in Tasks : u # t => task'[u] = task[u]
    BY <1>3, <2>1, <2>2 DEF r
  <2>4. Shaped(r)
    BY <1>1, <1>3, <2>1, <2>2 DEF Kept, Shaped
  <2>5. Kept(task', ceremony, waiting)
    BY <1>1, <1>3, <2>1, <2>2, <2>3, <2>4, Names DEF Kept, Waiting
  <2>6. ASSUME ~late PROVE Calm(task', ceremony, step, loading)
    <3>1. \A u \in Tasks : /\ Acts(task', u) => u = t
                           /\ ~Calling(task', u)
                           /\ Waiting(task', u) => Waiting(task, u) /\ task'[u] = task[u]
                           /\ ~Woken(task', u)
                           /\ task'[u].pc = "get" => task[u].pc = "get"
      <4>1. Acts(task, t) /\ ~Woken(task', t)
        BY <1>3, <2>2, <2>3, KindsApart DEF Acts, Woken
      <4> QED
        BY <1>3, <2>2, <2>3, <2>6, <4>1, SoleActor, NoneWoken, KindsApart
        DEF Acts, Calling, Waiting, Woken
    <3>2. \A u \in Tasks : task'[u].kind # "back"
      <4>1. \A u \in Tasks : task[u].kind = "back" => Parked(task, u)
        BY <2>1, NoneWoken, BackWaits DEF Woken, Parked, Waiting
      <4>2. Acts(task, t)
        BY <1>3, KindsApart DEF Acts
      <4> QED
        BY <2>2, <2>3, <2>6, <4>1, <4>2, SoleActor
    <3>3. /\ OneActs(task') /\ OneCalls(task', loading)
          /\ Microtasks(task', ceremony) /\ Backs(task', step)
      BY <3>1, <3>2 DEF OneActs, OneCalls, Microtasks, Backs
    <3>4. Placed(task', ceremony, step)
      BY <1>1, <1>3, <2>2, <2>3, <2>6, <3>1, KindsApart DEF IInv, Calm, Placed, Acts
    <3>5. OnSlot(task', ceremony)
      BY <2>6, <3>1 DEF IInv, Calm, OnSlot
    <3> QED
      BY <2>6, <3>3, <3>4, <3>5 DEF IInv, Calm
  <2> QED
    BY <1>1, <1>3, <2>5, <2>6 DEF IInv, Shows, page, shown
<1>4. CASE RunCeremony(task, t, step, loading) /\ UNCHANGED <<codeOffered, condDisabled>>
  BY <1>1, <1>4, ComesOwn, RunKeeps
<1>5. CASE task[t].fresh /\ Failed(End(task, t), t) /\ UNCHANGED <<ceremony, waiting>>
  <2>1. task[t].kind \in Ceremonies /\ task[t].kind # "trigger"
    BY <1>1, KindsApart, FormsKinds, IdleRow DEF IInv, Kept, Shaped
  <2> QED
    BY <1>1, <1>5, <2>1, FailedEarly DEF Acts
<1> QED
  BY <1>2, <1>3, <1>4, <1>5 DEF Options

LEMMA AvailableKeeps == ASSUME IInv, Quiet, NEW t \in Tasks, Available(t) PROVE IInv'
<1>1. task[t].pc = "available" /\ UNCHANGED late
  BY DEF Available
<1>2. CASE Stale(t) /\ UNCHANGED <<ceremony, waiting>>
  BY <1>1, <1>2, StaleKeeps
<1>3. CASE RunCeremony(task, t, step, loading) /\ UNCHANGED <<codeOffered, condDisabled>>
  BY <1>1, <1>3, ComesOwn, RunKeeps
<1>4. CASE task[t].fresh /\ Failed(End(task, t), t) /\ UNCHANGED <<ceremony, waiting>>
  <2>1. task[t].kind \in Ceremonies /\ task[t].kind # "trigger"
    BY <1>1, KindsApart, FormsKinds, IdleRow DEF IInv, Kept, Shaped
  <2> QED
    BY <1>1, <1>4, <2>1, FailedEarly DEF Acts
<1> QED
  BY <1>2, <1>3, <1>4 DEF Available

\* The functions when the request of t has settled.
LEMMA ReleaseRow ==
    ASSUME IInv, NEW t \in Tasks, task[t].pc = "get"
    PROVE  /\ Kept(Release(t), ceremony, waiting)
           /\ Release(t)[t] = task[t]
           /\ \A u \in Tasks : /\ Release(t)[u].kind = task[u].kind
                               /\ Release(t)[u].pc = task[u].pc
                               /\ Release(t)[u].fresh = task[u].fresh
                               /\ Release(t)[u].on = IF task[u].on = t THEN NoTask ELSE task[u].on
<1> DEFINE f == Release(t)
<1>1. task \in [Tasks -> TaskType] /\ Kept(task, ceremony, waiting)
  BY DEF IInv, Kept
<1>2. /\ f \in [Tasks -> TaskType]
      /\ \A u \in Tasks : /\ f[u].kind = task[u].kind /\ f[u].pc = task[u].pc
                          /\ f[u].fresh = task[u].fresh /\ f[u].left = task[u].left
                          /\ f[u].on = IF task[u].on = t THEN NoTask ELSE task[u].on
                          /\ task[u].on # t => f[u] = task[u]
  BY <1>1 DEF Release, TaskType
<1>3. \A u \in Tasks : task[u].on = t => task[u].pc = "wait"
  BY <1>1, Names DEF Kept, Shaped
<1> HIDE DEF f
<1>4. \A u \in Tasks : Shaped(f[u])
  <2> TAKE u \in Tasks
  <2>1. CASE task[u].on # t
    BY <1>1, <1>2, <2>1 DEF Kept
  <2>2. CASE task[u].on = t
    BY <1>1, <1>2, <1>3, <2>2, IdleRow DEF Kept, Shaped
  <2> QED
    BY <2>1, <2>2
<1>5. Kept(f, ceremony, waiting)
  <2>1. \A u \in Tasks : Waiting(f, u) => \E i \in DOMAIN waiting : waiting[i] = u
    BY <1>1, <1>2 DEF Kept, Waiting
  <2>2. \A u \in Tasks : f[u].kind = task[u].kind /\ f[u].pc = task[u].pc
    BY <1>2
  <2>3. ceremony \in Tasks \cup {NoTask} /\ waiting \in Seq(Tasks)
    BY <1>1 DEF Kept
  <2>4. \A u \in Tasks : f[u].kind = "autofill" => u = Autofill
    BY <1>1, <2>2 DEF Kept
  <2>5. f[Autofill].kind \in {"autofill", "idle"}
    BY <1>1, <2>2, Names DEF Kept
  <2>6. ceremony # NoTask => f[ceremony].pc = "get"
    BY <1>1, <2>2, <2>3 DEF Kept
  <2> QED
    BY <1>2, <1>4, <2>1, <2>3, <2>4, <2>5, <2>6 DEF Kept
<1>6. f[t] = task[t]
  BY <1>2, <1>3
<1> QED
  BY <1>2, <1>5, <1>6 DEF f

\* The slot when the request of t has settled.
LEMMA SlotGivenUp ==
    ASSUME IInv, NEW t \in Tasks, task[t].pc = "get", GetSettles(t)
    PROVE  /\ ceremony' # t
           /\ ceremony' \in Tasks \cup {NoTask}
           /\ ceremony' # NoTask => ceremony' = ceremony
           /\ ~late => ceremony = t /\ ceremony' = NoTask
           /\ UNCHANGED <<waiting, late>>
  BY Names DEF GetSettles, IInv, Kept, Calm, OnSlot

LEMMA GetSettlesKeeps == ASSUME IInv, Quiet, NEW t \in Tasks, GetSettles(t) PROVE IInv'
<1> DEFINE f == Release(t)
           e == End(f, t)
<1>1. task[t].pc = "get" /\ task[t].kind \in Ceremonies
  BY KindsApart, FormsKinds, IdleRow DEF GetSettles, IInv, Kept, Shaped
<1>2. /\ Kept(f, ceremony, waiting) /\ f[t] = task[t]
      /\ \A u \in Tasks : /\ f[u].kind = task[u].kind /\ f[u].pc = task[u].pc
                          /\ f[u].fresh = task[u].fresh
                          /\ f[u].on = IF task[u].on = t THEN NoTask ELSE task[u].on
  BY <1>1, ReleaseRow
<1>3. /\ ceremony' # t /\ ceremony' \in Tasks \cup {NoTask}
      /\ ceremony' # NoTask => ceremony' = ceremony
      /\ ~late => ceremony = t /\ ceremony' = NoTask
      /\ UNCHANGED <<waiting, late>>
  BY <1>1, SlotGivenUp
<1> HIDE DEF f
<1>4. /\ e \in [Tasks -> TaskType] /\ e[t] = Idle
      /\ \A u \in Tasks : u # t => e[u] = f[u]
  BY <1>2, EndRow
<1>5. Kept(f, ceremony', waiting') /\ Kept(e, ceremony', waiting')
  <2>1. Kept(f, ceremony', waiting')
    BY <1>2, <1>3 DEF Kept
  <2> QED
    BY <1>3, <2>1, EndKept
<1> HIDE DEF e
\* All that waited were released.
<1>6. ASSUME ~late
      PROVE  /\ \A u \in Tasks : ~Parked(f, u) /\ ~Parked(e, u)
             /\ \A u \in Tasks : f[u].pc = "get" => u = t
             /\ \A u \in Tasks : /\ Acts(e, u) <=> Acts(task, u) /\ u # t
                                 /\ Calling(e, u) => Calling(task, u)
                                 /\ e[u].pc # "get"
                                 /\ e[u].kind = "back" => task[u].kind = "back"
  <2>1. \A u \in Tasks : ~Parked(f, u)
    BY <1>2, <1>3, <1>6 DEF IInv, Calm, OnSlot, Parked, Waiting
  <2>2. \A u \in Tasks : f[u].pc = "get" => u = t
    BY <1>2, <1>3, <1>6 DEF IInv, Calm, OnSlot
  <2> QED
    BY <1>2, <1>4, <2>1, <2>2, IdleRow, KindsApart DEF Acts, Calling, Parked
<1>7. ASSUME ~late PROVE Calm(e, ceremony', step, loading)
  <2>1. OneActs(e) /\ OneCalls(e, loading)
    BY <1>6, <1>7 DEF IInv, Calm, OneActs, OneCalls
  <2>2. Placed(e, ceremony', step)
    BY <1>2, <1>3, <1>4, <1>6, <1>7 DEF IInv, Calm, Placed
  <2>3. OnSlot(e, ceremony') /\ Microtasks(e, ceremony')
    BY <1>3, <1>6, <1>7 DEF OnSlot, Microtasks, Parked, Waiting
  <2>4. Backs(e, step)
    BY <1>2, <1>4, <1>6, <1>7 DEF IInv, Calm, Backs
  <2> QED
    BY <1>3, <1>7, <2>1, <2>2, <2>3, <2>4 DEF Calm
<1>8. CASE task' = e /\ UNCHANGED page
  BY <1>3, <1>5, <1>7, <1>8 DEF IInv, Shows, page, shown
<1>9. CASE task[t].fresh /\ Failed(e, t)
  <2>1. Acts(task, t)
    BY <1>1, <1>9 DEF Acts
  <2>2. ~late => \A u \in Tasks : /\ ~Acts(e, u) /\ ~Calling(e, u)
                                  /\ e[u].kind = "back" => ~Parked(e, u)
    BY <1>6, <2>1, SoleActor
  <2> QED
    BY <1>3, <1>5, <1>7, <1>9, <2>2, FailedKeeps
<1>10. CASE /\ task[t].fresh
            /\ Show([f EXCEPT ![t].pc = "verify"], "verifying", loading)
            /\ UNCHANGED <<codeOffered, condDisabled>>
  <2> DEFINE r == [f[t] EXCEPT !.pc = "verify"]
             g == [f EXCEPT ![t] = r]
  <2>1. /\ r \in TaskType /\ r.pc = "verify" /\ r.kind = task[t].kind /\ r.fresh
        /\ r.on = NoTask /\ r.left = task[t].left
    <3>1. task[t] \in TaskType /\ task[t].on = NoTask
      BY <1>1 DEF IInv, Kept, Shaped
    <3> QED
      BY <1>2, <1>10, <3>1 DEF TaskType, Pcs
  <2> HIDE DEF r
  <2>2. /\ g \in [Tasks -> TaskType] /\ g[t] = r
        /\ \A u \in Tasks : u # t => g[u] = f[u]
    BY <1>2, <2>1 DEF Kept
  <2>3. Show(g, "verifying", loading)
    BY <1>10 DEF r
  <2> HIDE DEF g
  <2>4. Shaped(r)
    BY <1>1, <1>10, <2>1, KindsApart DEF IInv, Kept, Shaped
  <2>5. Kept(g, ceremony', waiting')
    BY <1>3, <1>5, <2>1, <2>2, <2>4, <1>2, Names DEF Kept, Waiting
  <2>6. ASSUME ~late PROVE Calm(g, ceremony', "verifying", loading)
    <3>1. Acts(task, t)
      BY <1>1, <1>10 DEF Acts
    <3>2. \A u \in Tasks : task[u].kind # "back"
      BY <1>1, <2>6, <3>1 DEF IInv, Calm, Backs
    <3>3. /\ \A u \in Tasks : Acts(g, u) => u = t
          /\ \A u \in Tasks : ~Calling(g, u)
          /\ \A u \in Tasks : ~Parked(g, u) /\ g[u].pc # "get"
          /\ \A u \in Tasks : g[u].kind # "back"
      BY <1>1, <1>2, <1>6, <2>1, <2>2, <2>6, <3>1, <3>2, SoleActor, KindsApart
      DEF Acts, Calling, Parked
    <3>4. OneActs(g) /\ OneCalls(g, loading) /\ Backs(g, "verifying")
      BY <3>3 DEF OneActs, OneCalls, Backs
    <3>5. Placed(g, ceremony', "verifying")
      BY <1>3, <2>1, <2>2, <2>6, <3>3 DEF Placed
    <3>6. OnSlot(g, ceremony') /\ Microtasks(g, ceremony')
      BY <1>3, <2>6, <3>3 DEF OnSlot, Microtasks, Parked, Waiting
    <3> QED
      BY <3>4, <3>5, <3>6 DEF Calm
  <2>7. Lands(g, "verifying", loading)
    BY <1>3, <1>10, <2>5, <2>6 DEF Lands, Steps, IInv, Shows
  <2> QED
    BY <2>3, <2>7, ShowKeeps
<1> QED
  BY <1>8, <1>9, <1>10 DEF GetSettles, e, f

\* A ceremony ends, and the page goes on.
LEMMA ActorEnds ==
    ASSUME IInv, NEW t \in Tasks, task[t].pc = "verify", Acts(task, t), NEW s, s # "passkey-retry"
    PROVE  /\ Kept(End(task, t), ceremony, waiting)
           /\ \A l : ~late => Calm(End(task, t), ceremony, s, l)
           /\ ~late => \A u \in Tasks : ~Acts(End(task, t), u)
<1>1. t # ceremony /\ Kept(task, ceremony, waiting)
  BY Names DEF IInv, Kept
<1>2. Kept(End(task, t), ceremony, waiting)
  BY <1>1, EndKept
<1>3. ~late => \A u \in Tasks : /\ ~Acts(End(task, t), u) /\ ~Calling(End(task, t), u)
                                /\ End(task, t)[u].kind = "back" => ~Parked(End(task, t), u)
  BY <1>1, SoleActor, EndLeaves
<1>4. ~late => Calm(End(task, t), ceremony, step, loading)
  BY <1>1, EndCalm DEF IInv
<1>5. ASSUME ~late, NEW l PROVE Calm(End(task, t), ceremony, s, l)
  BY <1>3, <1>4, <1>5, Settles
<1> QED
  BY <1>2, <1>3, <1>5

LEMMA PasskeyVerifiedKeeps == ASSUME IInv, Quiet, NEW t \in Tasks, PasskeyVerified(t) PROVE IInv'
<1>1. /\ task[t].pc = "verify" /\ task[t].kind \in Ceremonies
      /\ UNCHANGED <<ceremony, waiting, late>>
  BY KindsApart, FormsKinds, IdleRow DEF PasskeyVerified, IInv, Kept, Shaped
<1>2. /\ loading \in BOOLEAN
      /\ {codeOffered, condDisabled, late, finished} \subseteq BOOLEAN
  BY DEF IInv, Shows
<1>3. CASE Stale(t)
  BY <1>1, <1>3, StaleKeeps
<1>4. CASE /\ task[t].fresh /\ Proceed(End(task, t)) /\ UNCHANGED <<codeOffered, condDisabled>>
  <2>1. PICK s \in Ends \cup {"tos"} : Show(End(task, t), s, s = "success" /\ loading)
    BY <1>4 DEF Proceed
  <2> DEFINE l == s = "success" /\ loading
  <2>2. s \in Steps /\ s # "passkey-retry" /\ s # "email" /\ l \in BOOLEAN
    BY <1>2 DEF Ends, Steps
  <2> HIDE DEF l
  <2>3. Lands(End(task, t), s, l)
    BY <1>1, <1>2, <1>4, <2>2, ActorEnds DEF Lands, Acts
  <2> QED
    BY <2>1, <2>3, ShowKeeps DEF l
<1>5. CASE task[t].fresh /\ Failed(End(task, t), t)
  BY <1>1, <1>5, FailedEarly DEF Acts
<1>6. CASE /\ task[t].fresh /\ Display("email", loading) /\ condDisabled' = TRUE
           /\ task' = End(task, t) /\ UNCHANGED codeOffered
  <2>1. /\ Kept(End(task, t), ceremony, waiting)
        /\ ~late => Calm(End(task, t), ceremony, "email", loading)
    BY <1>1, <1>6, ActorEnds DEF Acts
  <2>2. Shows'
    BY <1>1, <1>2, <1>6 DEF Shows, Display, Steps
  <2> QED
    BY <1>1, <1>6, <2>1, <2>2 DEF IInv, Display
<1> QED
  BY <1>3, <1>4, <1>5, <1>6 DEF PasskeyVerified

\* A call ends, and the page goes on.
LEMMA CallEnds ==
    ASSUME IInv, NEW t \in Tasks, Calling(task, t), task[t].pc \in {"post", "captcha"},
           NEW s \in Steps, s # "passkey-retry" \/ s = step, NEW l \in BOOLEAN,
           Show(End(task, t), s, l), codeOffered' \in BOOLEAN, condDisabled' \in BOOLEAN,
           UNCHANGED <<ceremony, waiting, late>>
    PROVE  IInv'
<1>1. t # ceremony /\ Kept(task, ceremony, waiting)
  BY Names DEF IInv, Kept
<1>2. Kept(End(task, t), ceremony, waiting)
  BY <1>1, EndKept
<1>3. ASSUME ~late
      PROVE  /\ Calm(End(task, t), ceremony, s, l)
             /\ \A u \in Tasks : ~Acts(End(task, t), u)
  <2>1. ~Waiting(task, t)
    BY DEF Waiting
  <2>2. \A u \in Tasks : /\ ~Acts(End(task, t), u) /\ ~Calling(End(task, t), u)
                         /\ End(task, t)[u].kind = "back" => ~Parked(End(task, t), u)
    BY <1>1, <1>3, <2>1, SoleCall, EndLeaves
  <2>3. Calm(End(task, t), ceremony, step, loading)
    BY <1>1, <1>3, EndCalm DEF IInv
  <2>4. s # "passkey-retry" \/ ceremony = NoTask
    BY <1>3 DEF IInv, Calm
  <2> QED
    BY <2>2, <2>3, <2>4, Settles
<1>4. Lands(End(task, t), s, l)
  BY <1>2, <1>3 DEF Lands, IInv, Shows
<1> QED
  BY <1>4, ShowKeeps

\* Where calls are.
LEMMA PostCalls ==
    ASSUME IInv, NEW t \in Tasks, task[t].pc \in {"post", "captcha"}
    PROVE  Calling(task, t) /\ t \in Pool /\ t # ceremony
<1>1. Calling(task, t)
  BY FormsKinds, IdleRow DEF IInv, Kept, Shaped, Calling, CallKinds
<1>2. t # Autofill
  BY <1>1, KindsApart DEF IInv, Kept, Calling
<1>3. t # ceremony
  BY Names DEF IInv, Kept
<1> QED
  BY <1>1, <1>2, <1>3 DEF Tasks

LEMMA StartedKeeps == ASSUME IInv, Quiet, NEW t \in Tasks, Started(t) PROVE IInv'
<1>1. /\ task[t].kind = "submit" /\ task[t].pc = "post"
      /\ Calling(task, t) /\ t \in Pool /\ t # ceremony
      /\ UNCHANGED <<condDisabled, late>>
      /\ {codeOffered, condDisabled, condDisabled'} \subseteq BOOLEAN
  BY PostCalls DEF Started, IInv, Shows
<1>2. ASSUME NEW s \in {"password", "otp", "email"}, Show(End(task, t), s, FALSE),
             UNCHANGED <<ceremony, waiting>>, codeOffered' \in BOOLEAN
      PROVE  IInv'
  BY <1>1, <1>2, CallEnds DEF Steps
<1>3. CASE Trigger(task, t) /\ codeOffered' \in BOOLEAN
  <2> DEFINE g == Bump(task)
  <2>1. Stilled(task, g) /\ Kept(task, ceremony, waiting)
    BY BumpStills DEF IInv
  <2> HIDE DEF g
  <2>2. Kept(g, ceremony, waiting)
    BY <2>1, StilledKept
  <2>3. ASSUME ~late
        PROVE  /\ Calm(g, ceremony, step, loading)
               /\ \A u \in Tasks : ~Woken(g, u) /\ ~Acts(g, u) /\ g[u].kind # "back"
               /\ \A u \in Tasks : u # t => ~Calling(g, u)
    <3>1. Calm(g, ceremony, step, loading)
      BY <2>1, <2>3, NoneWoken, StilledCalm DEF IInv
    <3>2. \A u \in Tasks : ~Woken(g, u) /\ ~Acts(g, u) /\ (Calling(g, u) <=> Calling(task, u))
      BY <2>1, NoneWoken, StilledQuiet
    <3>3. \A u \in Tasks : u # t => ~Calling(task, u)
      BY <1>1, <2>3, SoleCall
    <3>4. \A u \in Tasks : task[u].kind # "back"
      <4>1. \A u \in Tasks : task[u].kind = "back" => Parked(task, u)
        BY <2>1, NoneWoken, BackWaits DEF Woken, Parked, Waiting
      <4> QED
        BY <1>1, <2>3, <4>1, SoleCall DEF Waiting
    <3> QED
      BY <2>1, <3>1, <3>2, <3>3, <3>4 DEF Stilled
  <2> QED
    BY <1>1, <1>3, <2>2, <2>3, TriggerKeeps DEF g
<1>4. CASE /\ task' = [task EXCEPT ![t].pc = "captcha"] /\ codeOffered' \in BOOLEAN
           /\ UNCHANGED <<shown, ceremony, waiting>>
  <2> DEFINE r == [task[t] EXCEPT !.pc = "captcha"]
  <2>1. task \in [Tasks -> TaskType] /\ Kept(task, ceremony, waiting)
    BY DEF IInv, Kept
  <2>2. /\ r \in TaskType /\ r.pc = "captcha" /\ r.kind = "submit" /\ r.fresh = task[t].fresh
        /\ r.on = task[t].on /\ r.left = task[t].left
    BY <1>1, <2>1 DEF TaskType, Pcs
  <2> HIDE DEF r
  <2>3. /\ task' \in [Tasks -> TaskType] /\ task'[t] = r
        /\ \A u \in Tasks : u # t => task'[u] = task[u]
    BY <1>4, <2>1, <2>2 DEF r
  <2>4. Shaped(r)
    BY <1>1, <2>1, <2>2 DEF Kept, Shaped
  <2>5. Kept(task', ceremony, waiting)
    BY <1>1, <2>1, <2>2, <2>3, <2>4, Names DEF Kept, Waiting
  <2>6. ASSUME ~late PROVE Calm(task', ceremony, step, loading)
    <3>1. \A u \in Tasks : /\ Acts(task', u) <=> Acts(task, u)
                           /\ Calling(task', u) <=> Calling(task, u)
                           /\ Waiting(task', u) <=> Waiting(task, u)
                           /\ Parked(task', u) <=> Parked(task, u)
                           /\ ~Woken(task', u)
                           /\ task'[u].pc = "get" => task[u].pc = "get"
                           /\ task'[u].kind = task[u].kind
                           /\ Acts(task, u) \/ Waiting(task, u) => task'[u] = task[u]
      BY <1>1, <2>2, <2>3, NoneWoken, KindsApart DEF Acts, Calling, Waiting, Parked, Woken
    <3>2. OneActs(task') /\ OneCalls(task', loading)
      BY <2>6, <3>1 DEF IInv, Calm, OneActs, OneCalls
    <3>3. Placed(task', ceremony, step) /\ OnSlot(task', ceremony)
      BY <2>6, <3>1 DEF IInv, Calm, Placed, OnSlot
    <3>4. Microtasks(task', ceremony)
      BY <3>1 DEF Microtasks
    <3>5. Backs(task', step)
      BY <2>6, <3>1 DEF IInv, Calm, Backs
    <3> QED
      BY <2>6, <3>2, <3>3, <3>4, <3>5 DEF IInv, Calm
  <2> QED
    BY <1>1, <1>4, <2>5, <2>6 DEF IInv, Shows, shown
<1> QED
  BY <1>1, <1>2, <1>3, <1>4 DEF Started

LEMMA CaptchaKeeps == ASSUME IInv, NEW t \in Tasks, Captcha(t) PROVE IInv'
<1>1. PICK s \in {"otp", step} : Show(End(task, t), s, FALSE)
  BY DEF Captcha
<1>2. /\ task[t].pc = "captcha" /\ Calling(task, t) /\ s \in Steps
      /\ UNCHANGED <<codeOffered, condDisabled, ceremony, waiting, late>>
      /\ codeOffered' \in BOOLEAN /\ condDisabled' \in BOOLEAN
  BY PostCalls DEF Captcha, SlotUnchanged, IInv, Shows, Steps
<1> QED
  BY <1>1, <1>2, CallEnds

LEMMA PostedKeeps == ASSUME IInv, NEW t \in Tasks, Posted(t) PROVE IInv'
<1>1. \E s \in Steps, l \in BOOLEAN :
          Show(End(task, t), s, l) /\ (s # "passkey-retry" \/ s = step)
  <2>1. step \in Steps /\ loading \in BOOLEAN
    BY DEF IInv, Shows
  <2>2. CASE Proceed(End(task, t))
    <3>1. PICK s \in Ends \cup {"tos"} : Show(End(task, t), s, s = "success" /\ loading)
      BY <2>2 DEF Proceed
    <3>2. s \in Steps /\ s # "passkey-retry" /\ (s = "success" /\ loading) \in BOOLEAN
      BY <2>1 DEF Ends, Steps
    <3> QED
      BY <3>1, <3>2
  <2>3. CASE \E s \in {"otp", "email", "success", step} \cup Ends : Show(End(task, t), s, FALSE)
    BY <2>1, <2>3 DEF Ends, Steps
  <2> QED
    BY <2>2, <2>3 DEF Posted
<1>2. PICK s \in Steps, l \in BOOLEAN :
          Show(End(task, t), s, l) /\ (s # "passkey-retry" \/ s = step)
  BY <1>1
<1>3. /\ task[t].pc = "post" /\ Calling(task, t)
      /\ UNCHANGED <<codeOffered, condDisabled, ceremony, waiting, late>>
      /\ codeOffered' \in BOOLEAN /\ condDisabled' \in BOOLEAN
  BY PostCalls DEF Posted, SlotUnchanged, IInv, Shows
<1> QED
  BY <1>2, <1>3, CallEnds

LEMMA AnsweredKeeps == ASSUME IInv, NEW t \in Tasks, Answered(t) PROVE IInv'
  BY OptionsKeeps, AvailableKeeps, GetSettlesKeeps, PasskeyVerifiedKeeps, StartedKeeps,
     CaptchaKeeps, PostedKeeps DEF Answered

LEMMA TimeoutKeeps == ASSUME IInv, NEW t \in Tasks, Timeout(t) PROVE IInv'
<1> DEFINE r == [task[t] EXCEPT !.on = NoTask]
<1>1. task \in [Tasks -> TaskType] /\ Kept(task, ceremony, waiting) /\ task[t].pc = "wait"
  BY DEF IInv, Kept, Timeout
<1>2. /\ r \in TaskType /\ r.pc = "wait" /\ r.kind = task[t].kind /\ r.fresh = task[t].fresh
      /\ r.on = NoTask /\ r.left = task[t].left
  BY <1>1 DEF TaskType
<1> HIDE DEF r
<1>3. /\ task' \in [Tasks -> TaskType] /\ task'[t] = r
      /\ \A u \in Tasks : u # t => task'[u] = task[u]
  BY <1>1, <1>2 DEF Timeout, r
<1>4. Shaped(r)
  BY <1>1, <1>2, IdleRow DEF Kept, Shaped
<1>5. Kept(task', ceremony, waiting)
  BY <1>1, <1>2, <1>3, <1>4, Names DEF Kept, Waiting
<1> QED
  BY <1>5 DEF IInv, Shows, Timeout, page, shown

\* The queue w, of which v keeps whoever still waits.
LEMMA QueueKept ==
    ASSUME NEW f, NEW c, NEW w, NEW v \in Seq(Tasks), Kept(f, c, w),
           \A u \in Tasks : Waiting(f, u) => \E i \in DOMAIN v : v[i] = u
    PROVE  Kept(f, c, v)
  BY DEF Kept

\* Who goes on, and who still waits.
LEMMA GoesOn ==
    ASSUME IInv, Continue
    PROVE  /\ waiting[First] \in Tasks
           /\ Woken(task, waiting[First])
           /\ waiting' \in Seq(Tasks)
           /\ \A u \in Tasks : u # waiting[First] /\ Waiting(task, u) =>
                 \E i \in DOMAIN waiting' : waiting'[i] = u
<1>1. waiting \in Seq(Tasks) /\ \A t \in Released : \E i \in DOMAIN waiting : waiting[i] = t
  BY DEF IInv, Kept, Released, Waiting
<1>2. First \in DOMAIN waiting /\ waiting[First] \in Released
  BY <1>1, FirstIsReleased DEF Continue
<1>3. waiting' = Dropped(waiting, First)
  BY DEF Continue, Dropped
<1>4. /\ waiting' \in Seq(Tasks)
      /\ \A j \in DOMAIN waiting : j # First => \E k \in DOMAIN waiting' : waiting'[k] = waiting[j]
  BY <1>1, <1>2, <1>3, DropFirst
<1>5. ASSUME NEW u \in Tasks, u # waiting[First], Waiting(task, u)
      PROVE  \E i \in DOMAIN waiting' : waiting'[i] = u
  <2>1. PICK j \in DOMAIN waiting : waiting[j] = u
    BY <1>5 DEF IInv, Kept
  <2> QED
    BY <1>4, <1>5, <2>1
<1> QED
  BY <1>2, <1>4, <1>5 DEF Released, Woken

LEMMA ContinueKeeps == ASSUME IInv, Continue PROVE IInv'
<1> DEFINE t == waiting[First]
<1>1. /\ t \in Tasks /\ Woken(task, t) /\ waiting' \in Seq(Tasks)
      /\ \A u \in Tasks : u # t /\ Waiting(task, u) => \E i \in DOMAIN waiting' : waiting'[i] = u
  BY GoesOn
<1>2. /\ \/ task[t].kind \in Ceremonies /\ Begin(task, t) /\ UNCHANGED page
         \/ /\ task[t].kind \in {"submit", "code"}
            /\ task' = [task EXCEPT ![t].pc = "post"]
            /\ UNCHANGED <<page, ceremony>>
         \/ /\ task[t].kind = "back"
            /\ Show(End(task, t), "email", FALSE)
            /\ UNCHANGED <<codeOffered, condDisabled, ceremony>>
      /\ late' = (late \/ (task[t].kind = "back" /\ loading))
  BY DEF Continue
<1> HIDE DEF t
<1>3. /\ Kept(task, ceremony, waiting) /\ t # ceremony
      /\ task[t].pc = "wait" /\ task[t].on = NoTask
      /\ {loading, late, codeOffered, condDisabled} \subseteq BOOLEAN
  BY <1>1, Names DEF IInv, Shows, Kept, Woken
<1>4. Kept(End(task, t), ceremony, waiting')
  <2>1. Kept(End(task, t), ceremony, waiting)
    BY <1>1, <1>3, EndKept
  <2>2. /\ End(task, t)[t] = Idle
        /\ \A u \in Tasks : u # t => End(task, t)[u] = task[u]
    BY <1>1, <1>3, EndRow
  <2>3. \A u \in Tasks : Waiting(End(task, t), u) => u # t /\ Waiting(task, u)
    BY <2>2, IdleRow DEF Waiting
  <2> QED
    BY <1>1, <2>1, <2>3, QueueKept
\* Until all have gone on, none waits for another release.
<1>5. ASSUME ~late
      PROVE  /\ \A u \in Tasks : ~Parked(task, u)
             /\ ceremony # NoTask => task[ceremony].fresh
  BY <1>1, <1>5 DEF IInv, Calm, Microtasks
<1>6. CASE task[t].kind \in Ceremonies /\ Begin(task, t) /\ UNCHANGED page
  <2>1. late' = late
    BY <1>2, <1>3, <1>6, KindsApart
  <2>2. CASE task[t].fresh
    <3>1. task' = [task EXCEPT ![t].pc = "get"] /\ ceremony' = t
      BY <1>6, <2>2 DEF Begin
    <3>2. Enters(task, waiting', t)
      BY <1>1, <1>3, <1>6 DEF Kept, Enters, Shaped
    <3>3. Kept(task', t, waiting')
      BY <1>1, <1>3, <1>6, <3>1, <3>2, BeginKept
    <3>4. ASSUME ~late PROVE Calm(task', t, step, loading)
      <4>1. Acts(task, t)
        BY <1>6, <2>2 DEF Acts
      <4>2. ceremony = NoTask
        <5>1. ceremony # NoTask => Acts(task, ceremony) /\ ceremony \in Tasks
          BY <1>3, <1>5, <3>4, KindsApart, FormsKinds, IdleRow DEF Kept, Shaped, Acts
        <5> QED
          BY <1>1, <1>3, <3>4, <4>1, <5>1, SoleActor
      <4>3. \A u \in Tasks : ~Parked(task, u) /\ task[u].pc # "get"
        BY <1>5, <3>4, <4>2, Names DEF IInv, Calm, OnSlot
      <4>4. \A u \in Tasks : task[u].kind # "back"
        BY <1>1, <1>3, <3>4, <4>1 DEF IInv, Calm, Backs
      <4>5. Vacant(task, t, step, loading)
        BY <1>3, <3>4, <4>2, <4>3, <4>4 DEF IInv, Calm, Vacant
      <4> QED
        BY <1>1, <3>1, <3>2, <4>1, <4>5, BeginCalm
    <3> QED
      BY <1>3, <1>6, <2>1, <3>1, <3>3, <3>4 DEF IInv, Shows, page, shown
  <2>3. CASE ~task[t].fresh
    <3>1. task' = End(task, t) /\ ceremony' = ceremony
      BY <1>6, <2>3 DEF Begin
    <3>2. ~late => Calm(End(task, t), ceremony, step, loading)
      BY <1>1, <1>3, EndCalm DEF IInv
    <3> QED
      BY <1>3, <1>4, <1>6, <2>1, <3>1, <3>2 DEF IInv, Shows, page, shown
  <2> QED
    BY <2>2, <2>3
<1>7. CASE /\ task[t].kind \in {"submit", "code"}
           /\ task' = [task EXCEPT ![t].pc = "post"]
           /\ UNCHANGED <<page, ceremony>>
  <2> DEFINE r == [task[t] EXCEPT !.pc = "post"]
  <2>1. task \in [Tasks -> TaskType] /\ late' = late
    BY <1>2, <1>3, <1>7 DEF Kept
  <2>2. /\ r \in TaskType /\ r.pc = "post" /\ r.kind = task[t].kind /\ r.fresh = task[t].fresh
        /\ r.on = NoTask /\ r.left = task[t].left
    BY <1>1, <1>3, <2>1 DEF TaskType, Pcs
  <2> HIDE DEF r
  <2>3. /\ task' \in [Tasks -> TaskType] /\ task'[t] = r
        /\ \A u \in Tasks : u # t => task'[u] = task[u]
    BY <1>1, <1>7, <2>1, <2>2 DEF r
  <2>4. Shaped(r)
    BY <1>7, <2>2, KindsApart DEF Shaped
  <2>5. Kept(task', ceremony, waiting')
    <3>1. \A u \in Tasks : Waiting(task', u) => u # t /\ Waiting(task, u)
      BY <2>2, <2>3 DEF Waiting
    <3>2. \A u \in Tasks : Shaped(task'[u])
      BY <1>3, <2>3, <2>4 DEF Kept
    <3>3. Kept(task', ceremony, waiting)
      BY <1>1, <1>3, <1>7, <2>2, <2>3, <3>1, <3>2, Names DEF Kept
    <3> QED
      BY <1>1, <3>1, <3>3, QueueKept
  <2>6. ASSUME ~late PROVE Calm(task', ceremony, step, loading)
    <3>1. \A u \in Tasks : /\ Acts(task', u) <=> Acts(task, u)
                           /\ Calling(task', u) <=> Calling(task, u)
                           /\ Waiting(task', u) => Waiting(task, u) /\ task'[u] = task[u]
                           /\ ~Parked(task', u)
                           /\ Woken(task', u) => Woken(task, u)
                           /\ task'[u].pc = "get" => task'[u] = task[u]
                           /\ task'[u].kind = task[u].kind
                           /\ Acts(task, u) => task'[u] = task[u]
      BY <1>3, <1>5, <1>7, <2>2, <2>3, <2>6, KindsApart DEF Acts, Calling, Waiting, Parked, Woken
    <3>2. OneActs(task') /\ OneCalls(task', loading)
      BY <2>6, <3>1 DEF IInv, Calm, OneActs, OneCalls
    <3>3. Placed(task', ceremony, step) /\ OnSlot(task', ceremony)
      BY <2>6, <3>1 DEF IInv, Calm, Placed, OnSlot
    <3>4. Microtasks(task', ceremony)
      BY <1>3, <1>5, <2>3, <2>6, <3>1 DEF Microtasks, Kept
    <3>5. Backs(task', step)
      BY <2>6, <3>1 DEF IInv, Calm, Backs
    <3> QED
      BY <2>6, <3>2, <3>3, <3>4, <3>5 DEF IInv, Calm
  <2> QED
    BY <1>3, <1>7, <2>1, <2>5, <2>6 DEF IInv, Shows, page, shown
<1>8. CASE /\ task[t].kind = "back"
           /\ Show(End(task, t), "email", FALSE)
           /\ UNCHANGED <<codeOffered, condDisabled, ceremony>>
  <2>1. late' \in BOOLEAN /\ (~late' => ~late /\ ~loading)
    BY <1>2, <1>3, <1>8
  <2>2. ASSUME ~late, ~loading
        PROVE  /\ Calm(End(task, t), ceremony, "email", FALSE)
               /\ \A u \in Tasks : Acts(End(task, t), u) => u = Autofill
    <3> DEFINE e == End(task, t)
    <3>1. \A u \in Tasks : /\ Acts(e, u) => Acts(task, u) /\ u # t
                           /\ Calling(e, u) => Calling(task, u) /\ u # t
                           /\ Parked(e, u) => Parked(task, u)
      BY <1>1, <1>3, EndLeaves
    <3>2. Calm(e, ceremony, step, loading)
      BY <1>1, <1>3, <2>2, EndCalm DEF IInv
    <3>3. \A u \in Tasks : ~Calling(e, u) /\ ~Parked(e, u)
      BY <1>5, <2>2, <3>1, NotCalling
    <3>4. \A u \in Tasks : Acts(e, u) => u = Autofill /\ e[u].pc = "opts"
      <4>1. \A u \in Tasks : Acts(task, u) => u = Autofill /\ task[u].pc = "opts"
        BY <1>1, <1>8, <2>2 DEF IInv, Calm, Backs
      <4> QED
        BY <1>1, <1>3, <3>1, <4>1, EndRow
    <3>5. Kept(e, ceremony, waiting')
      BY <1>4
    <3> HIDE DEF e
    <3>6. OneActs(e) /\ OneCalls(e, FALSE) /\ Backs(e, "email")
      BY <3>3, <3>4 DEF OneActs, OneCalls, Backs
    <3>7. Placed(e, ceremony, "email")
      BY <3>4, <3>5, KindsApart DEF Placed, Acts, Kept
    <3> QED
      BY <3>2, <3>4, <3>6, <3>7 DEF Calm, e
  <2>3. Lands(End(task, t), "email", FALSE)
    BY <1>3, <1>4, <1>8, <2>1, <2>2 DEF Lands, Steps
  <2> QED
    BY <1>8, <2>3, ShowKeeps
<1> QED
  BY <1>2, <1>6, <1>7, <1>8

-----------------------------------------------------------------------------
(* The invariant.                                                            *)

LEMMA InitIInv == Init => IInv
<1> SUFFICES ASSUME Init PROVE IInv
  OBVIOUS
<1> DEFINE r == New("autofill", "opts")
<1>1. /\ r \in TaskType /\ r.kind = "autofill" /\ r.pc = "opts" /\ r.on = NoTask /\ ~r.left
      /\ r.fresh
  BY NewTyped, KindsApart DEF Kinds, Pcs
<1> HIDE DEF r
<1>2. task = [t \in Tasks |-> IF t = Autofill THEN r ELSE Idle]
  BY DEF Init, r
<1>3. /\ task \in [Tasks -> TaskType]
      /\ \A t \in Tasks : task[t] = IF t = Autofill THEN r ELSE Idle
  BY <1>1, <1>2, IdleRow
<1>4. Shows
  BY DEF Init, Shows, Steps
<1>5. Shaped(r)
  BY <1>1 DEF Shaped
<1>6. Kept(task, ceremony, waiting)
  BY <1>1, <1>3, <1>5, IdleRow, Names DEF Init, Kept, Waiting
<1>7. \A t \in Tasks : /\ Acts(task, t) => t = Autofill
                       /\ ~Calling(task, t) /\ ~Waiting(task, t)
                       /\ task[t].pc # "get" /\ task[t].kind # "back"
  BY <1>1, <1>3, IdleRow, KindsApart DEF Acts, Calling, Waiting
<1>8. OneActs(task) /\ OneCalls(task, loading) /\ Backs(task, step)
  BY <1>7 DEF OneActs, OneCalls, Backs
<1>9. Placed(task, ceremony, step)
  BY <1>1, <1>3, <1>7, Names DEF Placed, Init
<1>10. OnSlot(task, ceremony) /\ Microtasks(task, ceremony)
  BY <1>7 DEF OnSlot, Microtasks, Woken, Waiting
<1> QED
  BY <1>4, <1>6, <1>8, <1>9, <1>10 DEF Init, IInv, Calm

LEMMA IInvInductive == IInv /\ [Next]_vars => IInv'
<1> SUFFICES ASSUME IInv, [Next]_vars PROVE IInv'
  OBVIOUS
<1>1. CASE UNCHANGED vars
  BY <1>1 DEF IInv, Shows, vars, page, shown
<1>2. CASE Next
  BY <1>2, UserKeeps, ContinueKeeps, AnsweredKeeps, TimeoutKeeps DEF Next
<1> QED
  BY <1>1, <1>2

-----------------------------------------------------------------------------
(* A ceremony that was left.                                                 *)

\* In f, the functions but t are where they were.
Spares(f, t) ==
    /\ f \in [Tasks -> TaskType]
    /\ \A u \in Tasks : u # t /\ task[u] # Idle => f[u].pc = task[u].pc

LEMMA Running == ASSUME IInv, NEW t \in Tasks, task[t] # Idle PROVE task[t].pc # "end"
  BY EndIsIdle DEF IInv, Kept

LEMMA ShowSpares ==
    ASSUME IInv, NEW t, NEW f, NEW s, NEW l, Spares(f, t), Show(f, s, l)
    PROVE  Spares(task', t)
<1>1. task' = Armed(f, s, l) /\ f \in [Tasks -> TaskType]
  BY DEF Show, Spares
<1>2. \A u \in Tasks : u # t /\ task[u] # Idle => f[u] # Idle
  BY Running, IdleRow DEF Spares
<1>3. \/ task' = f
      \/ /\ f[Autofill] = Idle /\ task' \in [Tasks -> TaskType]
         /\ \A u \in Tasks : u # Autofill => task'[u] = f[u]
  BY <1>1, ArmedRow
<1> QED
  BY <1>2, <1>3 DEF Spares

LEMMA CancelSpares ==
    ASSUME NEW f, NEW t \in Tasks, NEW s, NEW l, ceremony \in Tasks, t # ceremony, Spares(f, t),
           Cancel(f, t, s, l)
    PROVE  Spares(task', t)
<1>1. task' = Cancelled(f, t, ceremony)
  BY DEF Cancel, Cancelled
<1> QED
  BY <1>1, CancelRow DEF Spares

LEMMA EndSpares ==
    ASSUME NEW f, NEW t \in Tasks, Spares(f, t)
    PROVE  Spares(End(f, t), t)
  BY IdleRow DEF Spares, End

LEMMA RowSpares ==
    ASSUME NEW f, NEW g, NEW t \in Tasks, Spares(f, t), NEW r \in TaskType, g = [f EXCEPT ![t] = r]
    PROVE  Spares(g, t)
  BY DEF Spares

LEMMA BeginSpares ==
    ASSUME NEW f, NEW t \in Tasks, Spares(f, t), Begin(f, t)
    PROVE  Spares(task', t)
<1>1. CASE f[t].fresh
  <2>1. [f[t] EXCEPT !.pc = "get"] \in TaskType
    BY DEF Spares, TaskType, Pcs
  <2> QED
    BY <1>1, <2>1, RowSpares DEF Begin
<1>2. CASE ~f[t].fresh
  BY <1>2, EndSpares DEF Begin
<1> QED
  BY <1>1, <1>2

LEMMA RunSpares ==
    ASSUME IInv, NEW f, NEW t \in Tasks, NEW s, NEW l, t # ceremony, Spares(f, t),
           RunCeremony(f, t, s, l)
    PROVE  Spares(task', t)
  BY CancelSpares, BeginSpares DEF RunCeremony, IInv, Kept

LEMMA SelfSpares ==
    ASSUME IInv
    PROVE  /\ \A t : Spares(task, t)
           /\ \A t : Spares(Bump(Leave(task)), t)
           /\ \A t : Spares(Bump(task), t)
<1>1. Kept(task, ceremony, waiting)
  BY DEF IInv
<1>2. Stilled(task, Bump(Leave(task))) /\ Stilled(task, Bump(task))
  BY <1>1, LeaveStills, BumpStills
<1> QED
  BY <1>1, <1>2 DEF Spares, Kept, Stilled

LEMMA StartSpares ==
    ASSUME NEW g, NEW t \in Tasks, NEW kind \in Kinds, NEW pc \in Pcs, Spares(g, t)
    PROVE  Spares([g EXCEPT ![t] = New(kind, pc)], t)
  BY NewTyped, RowSpares

\* A press moves no function but the one it starts.
LEMMA UserSpares ==
    ASSUME IInv, User
    PROVE  \E t : Spares(task', t) /\ (t \in Tasks => task[t] = Idle)
<1> DEFINE g == Bump(Leave(task))
           IdleSlot == Slot \in Tasks /\ task[Slot] = Idle /\ Slot # ceremony
<1>1. Free # {} => IdleSlot
  BY SlotIdle, IdleRow, Names DEF IInv, Kept
<1>2. (\A t : Spares(g, t) /\ Spares(task, t)) /\ ceremony \in Tasks \cup {NoTask}
  BY SelfSpares DEF IInv, Kept
<1>3. \A kind \in CallKinds : \A f : IdleSlot /\ Spares(f, Slot) => Spares(Call(f, Slot, kind), Slot)
  <2>1. "post" \in Pcs /\ CallKinds \subseteq Kinds
    BY DEF Pcs, CallKinds, Kinds
  <2> QED
    BY <2>1, StartSpares DEF Call
<1> HIDE DEF IdleSlot
<1>4. ASSUME NEW kind \in {"submit", "code"}, Free # {},
             \/ Show(Call(g, Slot, kind), step, TRUE)
             \/ ceremony # NoTask /\ Cancel(Call(g, Slot, kind), Slot, step, TRUE)
      PROVE  Spares(task', Slot) /\ task[Slot] = Idle
  <2>1. Spares(Call(g, Slot, kind), Slot) /\ IdleSlot
    BY <1>1, <1>2, <1>3, <1>4, KindsApart
  <2> QED
    BY <1>2, <1>4, <2>1, ShowSpares, CancelSpares DEF IdleSlot
<1>5. CASE EmailSubmit
  BY <1>4, <1>5 DEF EmailSubmit
<1>6. CASE UseCode
  BY <1>4, <1>6 DEF UseCode
<1>7. CASE Passkey
  <2> DEFINE f == [g EXCEPT ![Slot] = New("passkey", "opts")]
  <2>1. Show(f, "passkey", FALSE) /\ IdleSlot
    BY <1>1, <1>7 DEF Passkey
  <2>2. Spares(f, Slot)
    BY <1>2, <2>1, StartSpares, KindsApart DEF IdleSlot, Kinds, Pcs
  <2> QED
    BY <2>1, <2>2, ShowSpares DEF IdleSlot
<1>8. CASE PasskeyBack
  <2>1. CASE Show(g, "email", FALSE)
    BY <1>2, <2>1, Names, ShowSpares
  <2>2. CASE /\ ceremony # NoTask /\ Free # {}
             /\ Cancel([g EXCEPT ![Slot] = New("back", "wait")], Slot, step, loading)
    <3>1. Spares([g EXCEPT ![Slot] = New("back", "wait")], Slot) /\ IdleSlot
      BY <1>1, <1>2, <2>2, StartSpares DEF IdleSlot, Kinds, Pcs
    <3> QED
      BY <1>2, <2>2, <3>1, CancelSpares DEF IdleSlot
  <2> QED
    BY <1>8, <2>1, <2>2 DEF PasskeyBack
<1>9. CASE Retry
  <2>1. Spares([g EXCEPT ![Slot] = New("trigger", "get")], Slot) /\ IdleSlot
    BY <1>1, <1>2, <1>9, StartSpares, KindsApart DEF Retry, IdleSlot, Kinds, Pcs
  <2>2. RunCeremony([g EXCEPT ![Slot] = New("trigger", "get")], Slot, "passkey", FALSE)
    BY <1>9 DEF Retry, Trigger
  <2> QED
    BY <2>1, <2>2, RunSpares DEF IdleSlot
<1>10. CASE Back \/ OfferSkip
  <2>1. Show(task, "email", FALSE) \/ Show(task, "success", FALSE)
    BY <1>10 DEF Back, OfferSkip
  <2> QED
    BY <1>2, <2>1, Names, ShowSpares
<1>11. CASE Submit
  <2>1. PICK kind \in DOMAIN Forms : Free # {} /\ Show(Call(task, Slot, kind), Forms[kind][2], TRUE)
    BY <1>11 DEF Submit
  <2>2. Spares(Call(task, Slot, kind), Slot) /\ IdleSlot
    BY <1>1, <1>2, <1>3, <2>1 DEF CallKinds
  <2> QED
    BY <2>1, <2>2, ShowSpares DEF IdleSlot
<1> QED
  BY <1>5, <1>6, <1>7, <1>8, <1>9, <1>10, <1>11 DEF User

\* An answer moves no function but the one it is for.
LEMMA FailedSpares ==
    ASSUME IInv, NEW t \in Tasks, NEW f, Spares(f, t), Failed(f, t)
    PROVE  Spares(task', t)
  BY ShowSpares DEF Failed, Disable

LEMMA AnsweredSpares ==
    ASSUME IInv, NEW t \in Tasks, Answered(t)
    PROVE  Spares(task', t)
<1>1. Spares(task, t) /\ Spares(End(task, t), t) /\ Spares(Bump(task), t)
  BY SelfSpares, EndSpares
<1>2. task[t].pc # "get" => t # ceremony
  BY Names DEF IInv, Kept
<1>3. task[t] \in TaskType
  BY DEF IInv, Kept
<1>4. \A pc \in Pcs : Spares([task EXCEPT ![t].pc = pc], t)
  <2>1. \A pc \in Pcs : [task[t] EXCEPT !.pc = pc] \in TaskType
    BY <1>3 DEF TaskType
  <2> QED
    BY <1>1, <2>1, RowSpares
<1>5. ASSUME Stale(t) PROVE Spares(task', t)
  BY <1>1, <1>5 DEF Stale
<1>6. ASSUME NEW s, NEW l, Show(End(task, t), s, l) PROVE Spares(task', t)
  BY <1>1, <1>6, ShowSpares
<1>7. CASE Options(t)
  <2>1. t # ceremony /\ "available" \in Pcs
    BY <1>2, <1>7 DEF Options, Pcs
  <2> QED
    BY <1>1, <1>4, <1>5, <1>7, <2>1, RunSpares, FailedSpares DEF Options
<1>8. CASE Available(t)
  <2>1. t # ceremony
    BY <1>2, <1>8 DEF Available
  <2> QED
    BY <1>1, <1>5, <1>8, <2>1, RunSpares, FailedSpares DEF Available
<1>9. CASE GetSettles(t)
  <2> DEFINE f == Release(t)
  <2>1. /\ Kept(f, ceremony, waiting) /\ f[t] = task[t]
        /\ \A u \in Tasks : f[u].pc = task[u].pc
    BY <1>9, ReleaseRow DEF GetSettles
  <2> HIDE DEF f
  <2>2. Spares(f, t) /\ Spares(End(f, t), t)
    BY <2>1, EndSpares DEF Spares, Kept
  <2>3. Spares([f EXCEPT ![t].pc = "verify"], t)
    <3>1. [f[t] EXCEPT !.pc = "verify"] \in TaskType
      BY <1>3, <2>1 DEF TaskType, Pcs
    <3> QED
      BY <2>2, <3>1, RowSpares
  <2>4. \/ task' = End(f, t)
        \/ Failed(End(f, t), t)
        \/ Show([f EXCEPT ![t].pc = "verify"], "verifying", loading)
    BY <1>9 DEF GetSettles, f
  <2> QED
    BY <2>2, <2>3, <2>4, ShowSpares, FailedSpares
<1>10. CASE PasskeyVerified(t)
  BY <1>1, <1>5, <1>6, <1>10, FailedSpares DEF PasskeyVerified, Proceed
<1>11. CASE Started(t)
  <2>1. t # ceremony /\ "captcha" \in Pcs
    BY <1>2, <1>11 DEF Started, Pcs
  <2>2. CASE Trigger(task, t)
    <3>1. Spares([Bump(task) EXCEPT ![t] = New("trigger", "get")], t)
      BY <1>1, StartSpares, KindsApart DEF Kinds, Pcs
    <3> QED
      BY <2>1, <2>2, <3>1, RunSpares DEF Trigger
  <2> QED
    BY <1>4, <1>6, <1>11, <2>1, <2>2 DEF Started
<1>12. CASE Captcha(t)
  BY <1>6, <1>12 DEF Captcha
<1>13. CASE Posted(t)
  BY <1>6, <1>13 DEF Posted, Proceed
<1> QED
  BY <1>7, <1>8, <1>9, <1>10, <1>11, <1>12, <1>13 DEF Answered

\* The answer for a ceremony of an attempt gone by leaves the page as it is.
LEMMA StaleAnswer ==
    ASSUME IInv, NEW t \in Tasks, Answered(t), task[t].kind \in Ceremonies, ~task[t].fresh
    PROVE  UNCHANGED page
<1>1. \A f : RunCeremony(f, t, step, loading) => UNCHANGED shown
  BY DEF RunCeremony, Cancel, Display, shown, IInv, Shows
<1>2. task[t].pc \notin {"post", "captcha"}
  BY PostCalls, KindsApart DEF Calling
<1> QED
  BY <1>1, <1>2
  DEF Answered, Options, Available, GetSettles, PasskeyVerified, Started, Captcha, Posted, Stale, page

LEMMA ContinueSpares ==
    ASSUME IInv, Continue
    PROVE  \E t \in Tasks : Spares(task', t) /\ (task[t].kind \in Ceremonies => UNCHANGED page)
<1> DEFINE t == waiting[First]
<1>1. t \in Tasks
  BY GoesOn
<1>2. \/ task[t].kind \in Ceremonies /\ Begin(task, t) /\ UNCHANGED page
      \/ task[t].kind \in {"submit", "code"} /\ task' = [task EXCEPT ![t].pc = "post"]
      \/ task[t].kind = "back" /\ Show(End(task, t), "email", FALSE)
  BY DEF Continue
<1> HIDE DEF t
<1>3. Spares(task, t) /\ Spares(End(task, t), t)
  BY <1>1, SelfSpares, EndSpares
<1>4. Spares([task EXCEPT ![t].pc = "post"], t)
  <2>1. [task[t] EXCEPT !.pc = "post"] \in TaskType
    BY <1>1 DEF IInv, Kept, TaskType, Pcs
  <2> QED
    BY <1>1, <1>3, <2>1, RowSpares
<1> QED
  BY <1>1, <1>2, <1>3, <1>4, BeginSpares, ShowSpares, KindsApart

LEMMA InertStep == IInv /\ [Next]_vars => LeftIsInert
<1> SUFFICES ASSUME IInv, [Next]_vars PROVE LeftIsInert
  OBVIOUS
<1>1. \A u \in Tasks : task[u].left => task[u] # Idle
  BY IdleRow
<1>2. \A u \in Tasks : task[u].left /\ task[u].kind \in Ceremonies => ~task[u].fresh
  BY DEF IInv, Kept, Shaped
<1>3. ASSUME NEW t, Spares(task', t),
             t \in Tasks /\ task[t].left /\ task[t].kind \in Ceremonies => UNCHANGED page
      PROVE  LeftIsInert
  BY <1>1, <1>3 DEF LeftIsInert, Spares
<1>4. CASE User
  BY <1>1, <1>3, <1>4, UserSpares
<1>5. CASE Continue
  BY <1>3, <1>5, ContinueSpares
<1>6. ASSUME NEW t \in Tasks, Answered(t) PROVE LeftIsInert
  BY <1>2, <1>3, <1>6, AnsweredSpares, StaleAnswer
<1>7. ASSUME NEW t \in Tasks, Timeout(t) PROVE LeftIsInert
  BY <1>7 DEF LeftIsInert, Timeout
<1>8. CASE UNCHANGED vars
  BY <1>8 DEF LeftIsInert, vars
<1> QED
  BY <1>4, <1>5, <1>6, <1>7, <1>8 DEF Next

-----------------------------------------------------------------------------
(* Theorems.                                                                 *)

LEMMA IInvTypes == IInv => TypeOK
  BY DEF IInv, Shows, Kept, TypeOK, TaskType, Kinds, Pcs

LEMMA IInvOneCeremony == IInv => OneCeremony
<1> SUFFICES ASSUME IInv, ~late PROVE Gets = {ceremony} \ {NoTask}
  BY DEF OneCeremony
<1>1. DOMAIN task = Tasks /\ ceremony \in Tasks \cup {NoTask}
  BY DEF IInv, Kept
<1>2. \A t \in Tasks : task[t].pc = "get" => t = ceremony /\ t # NoTask
  BY Names DEF IInv, Calm, OnSlot
<1>3. ceremony # NoTask => task[ceremony].pc = "get"
  BY DEF IInv, Kept
<1> QED
  BY <1>1, <1>2, <1>3 DEF Gets

\* The parts of the invariant hold in every state of the page.
THEOREM Invariance == Spec => []IInv
<1>1. Init => IInv
  BY InitIInv
<1>2. IInv /\ [Next]_vars => IInv'
  BY IInvInductive
<1> QED
  BY <1>1, <1>2, PTL DEF Spec

\* The page and its functions in flight have their types.
THEOREM TypeCorrect == Spec => []TypeOK
  BY IInvTypes, Invariance, PTL

\* The browser has no WebAuthn request but the slot's, unless a wait for a
\* release gave up or Back came over a call (runCeremony, cancelCeremony).
THEOREM OneRequest == Spec => []OneCeremony
  BY IInvOneCeremony, Invariance, PTL

\* A ceremony that the user left never moves the page, nor turns the autofill
\* off, whatever gave up meanwhile (attempt).
THEOREM LeftIsOver == Spec => LeftNeverActs
<1>1. IInv /\ [Next]_vars => [LeftIsInert]_vars
  BY InertStep
<1> QED
  BY <1>1, Invariance, PTL DEF Spec, LeftNeverActs

=============================================================================
