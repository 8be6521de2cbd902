--------------------------- MODULE Sessions_proofs ---------------------------
(***************************************************************************)
(* Proofs about Sessions for any number of messages, any queue and any     *)
(* number of restarts: one session at a time and the count of its live     *)
(* messages, the account of every update, the cron jobs, and the screening *)
(* lock.                                                                   *)
(***************************************************************************)
EXTENDS Sessions, FiniteSetTheorems, SequenceTheorems, TLAPS

\* The updates below it were taken by this process or confirmed by an earlier.
Reached == IF offset > confirmed THEN offset ELSE confirmed

InQ(q, m) == \E i \in 1 .. Len(q) : q[i] = m
NoDup(q) == \A i, j \in 1 .. Len(q) : q[i] = q[j] => i = j

IsChat(m) == running[m] # "no" /\ kinds[m] = "chat"
SomeChat == \E m \in Message : IsChat(m)
One(b) == IF b THEN 1 ELSE 0

\* What is known of a process that has not begun its work.
Fresh ==
    life \in {"down", "starting"} =>
        /\ \A m \in Message : running[m] = "no"
        /\ batch = <<>> /\ queue = <<>> /\ ~asking /\ ~polling /\ ~due /\ offset = 0
        /\ ~cronStarted /\ ~cronOn
        /\ management = "idle" /\ ~finalizing /\ stage = "idle" /\ ~screeningBusy
        /\ liveDepth = 0 /\ (terminal <=> life = "starting")

\* What is handled, queued or in the batch is of a kind that is known.
KindsKnown ==
    /\ Len(kinds) <= sent
    /\ \A m \in Message : running[m] # "no" => m <= Len(kinds)
    /\ \A i \in 1 .. Len(queue) : queue[i] <= Len(kinds)
    /\ \A i \in 1 .. Len(batch) : batch[i] <= Len(kinds)

ChatInv ==
    /\ \A m, n \in Message : IsChat(m) /\ IsChat(n) => m = n
    /\ terminal => ~SomeChat
    /\ busy <=> terminal \/ SomeChat

DepthInv ==
    liveDepth = One(SomeChat) + One(finalizing) + One(management = "live")
                + One(stage \in {"discover", "agent"})

BatchInv ==
    /\ asking => batch = <<>> /\ offset <= confirmed
    /\ batch # <<>> => batch[1] = Reached
    /\ \A i \in 1 .. Len(batch) : batch[i] = batch[1] + i - 1

QueueInv ==
    /\ \A i \in 1 .. Len(queue) : queue[i] < Reached
    /\ NoDup(queue)

TimesInv ==
    \A m \in Message : m \notin redelivered =>
        /\ times[m] <= 1
        /\ times[m] = 1 => m < Reached /\ ~InQ(queue, m)

FirstRun ==
    /\ starts = 0 => confirmed = 1 /\ life = "down"
    /\ starts = 1 /\ life # "down" =>
          \A m \in Message : m < Reached =>
              m \in refused \/ times[m] > 0 \/ InQ(queue, m)

IInv ==
    /\ TypeOK /\ Fresh /\ KindsKnown
    /\ ChatInv /\ DepthInv
    /\ BatchInv /\ QueueInv /\ TimesInv /\ FirstRun
    /\ LockAccounted /\ CronMatchesSwitch

-----------------------------------------------------------------------------
(* Queues *)

LEMMA TailFacts ==
    ASSUME NEW q \in Seq(Message), q # <<>>
    PROVE  /\ Tail(q) \in Seq(Message) /\ Len(Tail(q)) = Len(q) - 1
           /\ Head(q) \in Message /\ Head(q) = q[1] /\ Len(q) \in Nat \ {0}
           /\ \A i \in 1 .. Len(q) - 1 : Tail(q)[i] = q[i + 1]
           /\ \A m : InQ(q, m) <=> (m = Head(q) \/ InQ(Tail(q), m))
           /\ NoDup(q) => NoDup(Tail(q)) /\ ~InQ(Tail(q), Head(q))
  <1>1. /\ Tail(q) \in Seq(Message) /\ Len(Tail(q)) = Len(q) - 1
        /\ Head(q) \in Message /\ Head(q) = q[1] /\ Len(q) \in Nat \ {0}
        /\ \A i \in 1 .. Len(Tail(q)) : Tail(q)[i] = q[i + 1]
    BY HeadTailProperties, EmptySeq
  <1>2. \A i \in 1 .. Len(q) - 1 : Tail(q)[i] = q[i + 1]
    BY <1>1
  <1>3. ASSUME NEW m PROVE InQ(q, m) <=> (m = Head(q) \/ InQ(Tail(q), m))
    <2>1. ASSUME InQ(q, m) PROVE m = Head(q) \/ InQ(Tail(q), m)
      <3>1. PICK i \in 1 .. Len(q) : q[i] = m  BY <2>1 DEF InQ
      <3>2. CASE i = 1  BY <1>1, <3>1, <3>2
      <3>3. CASE i # 1
        <4>1. i - 1 \in 1 .. Len(q) - 1  BY <1>1, <3>1, <3>3
        <4>2. Tail(q)[i - 1] = m  BY <1>2, <3>1, <4>1
        <4>3. QED  BY <1>1, <4>1, <4>2 DEF InQ
      <3>4. QED  BY <3>2, <3>3
    <2>2. ASSUME m = Head(q) PROVE InQ(q, m)
      BY <1>1, <2>2 DEF InQ
    <2>3. ASSUME InQ(Tail(q), m) PROVE InQ(q, m)
      <3>1. PICK i \in 1 .. Len(q) - 1 : Tail(q)[i] = m  BY <1>1, <2>3 DEF InQ
      <3>2. i + 1 \in 1 .. Len(q) /\ q[i + 1] = m  BY <1>1, <1>2, <3>1
      <3>3. QED  BY <3>2 DEF InQ
    <2>4. QED  BY <2>1, <2>2, <2>3
  <1>4. ASSUME NoDup(q) PROVE NoDup(Tail(q)) /\ ~InQ(Tail(q), Head(q))
    <2>1. NoDup(Tail(q))
      <3>1. SUFFICES ASSUME NEW i \in 1 .. Len(q) - 1, NEW j \in 1 .. Len(q) - 1,
                            Tail(q)[i] = Tail(q)[j]
                     PROVE  i = j
        BY <1>1 DEF NoDup
      <3>2. q[i + 1] = q[j + 1] /\ i + 1 \in 1 .. Len(q) /\ j + 1 \in 1 .. Len(q)
        BY <1>1, <1>2, <3>1
      <3>3. i + 1 = j + 1  BY <1>4, <3>2 DEF NoDup
      <3>4. QED  BY <3>3
    <2>2. ~InQ(Tail(q), Head(q))
      <3>1. SUFFICES ASSUME NEW i \in 1 .. Len(q) - 1, Tail(q)[i] = Head(q)
                     PROVE  FALSE
        BY <1>1 DEF InQ
      <3>2. q[i + 1] = q[1] /\ i + 1 \in 1 .. Len(q) /\ 1 \in 1 .. Len(q)
        BY <1>1, <1>2, <3>1
      <3>3. i + 1 = 1  BY <1>4, <3>2 DEF NoDup
      <3>4. QED  BY <3>3
    <2>3. QED  BY <2>1, <2>2
  <1>5. QED  BY <1>1, <1>2, <1>3, <1>4

LEMMA AppendFacts ==
    ASSUME NEW q \in Seq(Message), NEW m \in Message
    PROVE  /\ Append(q, m) \in Seq(Message) /\ Len(Append(q, m)) = Len(q) + 1
           /\ Len(q) \in Nat
           /\ \A i \in 1 .. Len(q) : Append(q, m)[i] = q[i]
           /\ Append(q, m)[Len(q) + 1] = m
           /\ \A x : InQ(Append(q, m), x) <=> (InQ(q, x) \/ x = m)
           /\ NoDup(q) /\ ~InQ(q, m) => NoDup(Append(q, m))
  <1> DEFINE a == Append(q, m)
  <1>1. /\ a \in Seq(Message) /\ Len(a) = Len(q) + 1 /\ Len(q) \in Nat
        /\ \A i \in 1 .. Len(q) : a[i] = q[i]
        /\ a[Len(q) + 1] = m
    OBVIOUS
  <1> HIDE DEF a
  <1>2. \A x : InQ(a, x) <=> (InQ(q, x) \/ x = m)
    <2>1. SUFFICES ASSUME NEW x PROVE InQ(a, x) <=> (InQ(q, x) \/ x = m)
      OBVIOUS
    <2>2. \A i : i \in 1 .. Len(a) <=> i \in 1 .. Len(q) \/ i = Len(q) + 1
      BY <1>1
    <2>3. QED  BY <1>1, <2>2 DEF InQ
  <1>3. ASSUME NoDup(q), ~InQ(q, m) PROVE NoDup(a)
    <2>1. SUFFICES ASSUME NEW i \in 1 .. Len(a), NEW j \in 1 .. Len(a), a[i] = a[j]
                   PROVE  i = j
      BY DEF NoDup
    <2>2. CASE i \in 1 .. Len(q) /\ j \in 1 .. Len(q)
      BY <1>1, <1>3, <2>1, <2>2 DEF NoDup
    <2>3. CASE i = Len(q) + 1 /\ j \in 1 .. Len(q)
      BY <1>1, <1>3, <2>1, <2>3 DEF InQ
    <2>4. CASE j = Len(q) + 1 /\ i \in 1 .. Len(q)
      BY <1>1, <1>3, <2>1, <2>4 DEF InQ
    <2>5. CASE i = Len(q) + 1 /\ j = Len(q) + 1
      BY <2>5
    <2>6. QED  BY <1>1, <2>1, <2>2, <2>3, <2>4, <2>5
  <1>4. QED  BY <1>1, <1>2, <1>3 DEF a

LEMMA EmptyQueue ==
    /\ <<>> \in Seq(Message) /\ Len(<<>>) = 0
    /\ \A m : ~InQ(<<>>, m)
    /\ NoDup(<<>>)
  <1>1. <<>> \in Seq(Message) /\ Len(<<>>) = 0
    OBVIOUS
  <1>2. \A i : i \notin 1 .. Len(<<>>)
    BY <1>1
  <1>3. QED  BY <1>1, <1>2 DEF InQ, NoDup

-----------------------------------------------------------------------------
(* What a step leaves alone *)

LEMMA UpdatesFrame ==
    ASSUME KindsKnown, BatchInv, QueueInv, TimesInv, FirstRun,
           UNCHANGED <<userVars, offset, asking, batch, queue, running, times, refused,
                       redelivered, starts>>,
           life' = "down" <=> life = "down"
    PROVE  KindsKnown' /\ BatchInv' /\ QueueInv' /\ TimesInv' /\ FirstRun'
  <1>1. /\ UNCHANGED <<sent, kinds, confirmed, offset, asking, batch, queue, running,
                       times, refused, redelivered, starts>>
        /\ Reached' = Reached
    BY DEF userVars, Reached
  <1>2. KindsKnown'  BY <1>1 DEF KindsKnown
  <1>3. BatchInv'  BY <1>1 DEF BatchInv
  <1>4. QueueInv'  BY <1>1 DEF QueueInv
  <1>5. TimesInv'  BY <1>1 DEF TimesInv
  <1>6. FirstRun'  BY <1>1 DEF FirstRun
  <1>7. QED  BY <1>2, <1>3, <1>4, <1>5, <1>6

LEMMA ChatFrame ==
    ASSUME ChatInv, UNCHANGED <<kinds, running, busy, terminal>>
    PROVE  ChatInv' /\ (SomeChat' <=> SomeChat)
  BY DEF ChatInv, SomeChat, IsChat

LEMMA SessionFrame ==
    ASSUME ChatInv, DepthInv,
           UNCHANGED <<kinds, running, busy, terminal, liveDepth, finalizing,
                       management, stage>>
    PROVE  ChatInv' /\ DepthInv'
  <1>1. ChatInv' /\ (SomeChat' <=> SomeChat)  BY ChatFrame
  <1>2. DepthInv'  BY <1>1 DEF DepthInv, One
  <1>3. QED  BY <1>1, <1>2

LEMMA CronFrame ==
    ASSUME CronMatchesSwitch, UNCHANGED cronVars, mode' = mode,
           life' = life \/ life' # "up"
    PROVE  CronMatchesSwitch'
  BY DEF CronMatchesSwitch, cronVars

LEMMA LockFrame ==
    ASSUME LockAccounted, UNCHANGED cycleVars
    PROVE  LockAccounted'
  BY DEF LockAccounted, LockHasHolder, CycleAccounted, cycleVars

\* What has something to do is neither down nor only starting.
LEMMA Awake ==
    ASSUME Fresh,
           \/ \E m \in Message : running[m] # "no"
           \/ batch # <<>> \/ queue # <<>> \/ asking \/ polling \/ due
           \/ cronStarted \/ cronOn
           \/ management # "idle" \/ finalizing \/ stage # "idle"
    PROVE  life # "down" /\ life # "starting"
  BY DEF Fresh

LEMMA FreshElse ==
    ASSUME life' # "down", life' # "starting"
    PROVE  Fresh'
  BY DEF Fresh

-----------------------------------------------------------------------------
(* Cron *)

\* The jobs stop or start; one poller at most.
LEMMA StopCronFacts ==
    ASSUME CronMatchesSwitch, TypeOK, StopCron
    PROVE  cronOn' = FALSE /\ pollers' = 0 /\ current' = TRUE
  BY DEF CronMatchesSwitch, StopCron, TypeOK

LEMMA StartCronFacts ==
    ASSUME CronMatchesSwitch, TypeOK, StartCron
    PROVE  cronOn' = TRUE /\ pollers' = 1 /\ current' = TRUE
  BY DEF CronMatchesSwitch, StartCron, TypeOK

CronTyped ==
    /\ cronStarted \in BOOLEAN /\ cronOn \in BOOLEAN
    /\ pollers \in Nat /\ current \in BOOLEAN

LEMMA LaunchFacts ==
    ASSUME CronMatchesSwitch, TypeOK, LaunchCron, mode' = mode, life' = life
    PROVE  CronTyped' /\ CronMatchesSwitch'
  <1>1. CASE cronStarted
    BY <1>1 DEF LaunchCron, cronVars, CronMatchesSwitch, CronTyped, TypeOK
  <1>2. CASE ~cronStarted
    <2>1. cronStarted' = TRUE /\ StartCron  BY <1>2 DEF LaunchCron
    <2>2. cronOn' = TRUE /\ pollers' = 1 /\ current' = TRUE
      BY <2>1, StartCronFacts
    <2>3. QED  BY <2>1, <2>2 DEF CronMatchesSwitch, CronTyped
  <1>3. QED  BY <1>1, <1>2

LEMMA RestarterFacts ==
    ASSUME CronMatchesSwitch, TypeOK, CronRestarter, mode' = mode, life' = life
    PROVE  CronTyped' /\ CronMatchesSwitch'
  <1>1. CASE cronStarted
    <2>1. UNCHANGED cronStarted /\ StartCron  BY <1>1 DEF CronRestarter
    <2>2. cronOn' = TRUE /\ pollers' = 1 /\ current' = TRUE
      BY <2>1, StartCronFacts
    <2>3. QED  BY <1>1, <2>1, <2>2 DEF CronMatchesSwitch, CronTyped
  <1>2. CASE ~cronStarted
    <2>1. current' = ~cronOn /\ UNCHANGED <<cronStarted, cronOn, pollers>>
      BY <1>2 DEF CronRestarter
    <2>2. QED  BY <1>2, <2>1 DEF CronMatchesSwitch, CronTyped, TypeOK
  <1>3. QED  BY <1>1, <1>2

LEMMA PauseFacts ==
    ASSUME CronMatchesSwitch, TypeOK, StopCron, cronStarted' \in BOOLEAN,
           cronStarted' = FALSE \/ life' # "up", mode' = mode
    PROVE  CronTyped' /\ CronMatchesSwitch'
  <1>1. cronOn' = FALSE /\ pollers' = 0 /\ current' = TRUE
    BY StopCronFacts
  <1>2. QED  BY <1>1 DEF CronMatchesSwitch, CronTyped

-----------------------------------------------------------------------------
(* A handler begins *)

Runs == [Message -> {"no", "poll", "drain"}]

LEMMA BeginFacts ==
    ASSUME TypeOK, CronMatchesSwitch, NEW m \in Message, NEW loop \in {"poll", "drain"},
           NEW r \in Runs, NEW depth \in Int, NEW held,
           Begin(m, loop, r, depth, held), mode' = mode, life' = life
    PROVE  /\ running' \in Runs
           /\ \A n \in Message : running'[n] = IF n = m THEN loop ELSE r[n]
           /\ times' \in [Message -> Nat]
           /\ \A n \in Message : times'[n] = IF n = m THEN times[n] + 1 ELSE times[n]
           /\ busy' = Claims(m, held)
           /\ liveDepth' = depth + One(kinds[m] = "chat")
           /\ CronTyped' /\ CronMatchesSwitch'
  <1>1. /\ running' \in Runs
        /\ \A n \in Message : running'[n] = IF n = m THEN loop ELSE r[n]
    BY DEF Begin, Runs
  <1>2. /\ times' \in [Message -> Nat]
        /\ \A n \in Message : times'[n] = IF n = m THEN times[n] + 1 ELSE times[n]
    BY DEF Begin, TypeOK
  <1>3. busy' = Claims(m, held)
    BY DEF Begin
  <1>4. liveDepth' = depth + One(kinds[m] = "chat")
    BY DEF Begin, One
  <1>5. CASE kinds[m] = "pause"
    <2>1. StopCron /\ cronStarted' = FALSE  BY <1>5 DEF Begin
    <2>2. CronTyped' /\ CronMatchesSwitch'  BY <2>1, PauseFacts
    <2>3. QED  BY <1>1, <1>2, <1>3, <1>4, <2>2
  <1>6. CASE kinds[m] = "resume"
    <2>1. LaunchCron  BY <1>6 DEF Begin
    <2>2. CronTyped' /\ CronMatchesSwitch'  BY <2>1, LaunchFacts
    <2>3. QED  BY <1>1, <1>2, <1>3, <1>4, <2>2
  <1>7. CASE kinds[m] \notin {"pause", "resume"}
    <2>1. UNCHANGED cronVars  BY <1>7 DEF Begin
    <2>2. CronMatchesSwitch'  BY <2>1, CronFrame
    <2>3. CronTyped'  BY <2>1 DEF CronTyped, cronVars, TypeOK
    <2>4. QED  BY <1>1, <1>2, <1>3, <1>4, <2>2, <2>3
  <1>8. QED  BY <1>5, <1>6, <1>7

\* One that begins when none is busy is the only chat.
LEMMA BeginChats ==
    ASSUME NEW m \in Message, NEW r \in Runs,
           \A n \in Message : r[n] # "no" => kinds[n] # "chat",
           \A n \in Message : running'[n] = IF n = m THEN "drain" ELSE r[n],
           ~terminal, terminal' = terminal, kinds' = kinds,
           busy' <=> kinds[m] = "chat"
    PROVE  ChatInv' /\ (SomeChat' <=> kinds[m] = "chat")
  <1>1. \A n \in Message : IsChat(n)' <=> n = m /\ kinds[m] = "chat"
    BY DEF IsChat
  <1>2. SomeChat' <=> kinds[m] = "chat"
    BY <1>1 DEF SomeChat
  <1>3. QED  BY <1>1, <1>2 DEF ChatInv

Upd == KindsKnown /\ BatchInv /\ QueueInv /\ TimesInv /\ FirstRun

\* Whatever runs besides a chat, the head of the queue begins, or none does.
LEMMA DrainFacts ==
    ASSUME IInv, NEW r \in Runs, NEW depth \in Int, Drain(r, depth),
           \A n \in Message : r[n] # "no" => kinds[n] # "chat" /\ running[n] # "no",
           depth = One(finalizing) + One(management = "live")
                   + One(stage \in {"discover", "agent"}),
           ~terminal, UNCHANGED <<refused, userVars, pollVars, processVars, cycleVars,
                                  terminal, management, finalizing>>
    PROVE  /\ queue' \in Seq(Message) /\ Len(queue') <= QueueLimit
           /\ running' \in Runs /\ times' \in [Message -> Nat] /\ busy' \in BOOLEAN
           /\ CronTyped' /\ CronMatchesSwitch'
           /\ Upd' /\ ChatInv' /\ DepthInv'
  <1>1. /\ UNCHANGED <<sent, kinds, confirmed, offset, polling, asking, batch, mode, life,
                       starts, redelivered, refused, terminal, management, finalizing,
                       stage, screeningBusy, unaccounted>>
        /\ Reached' = Reached
    BY DEF userVars, pollVars, processVars, cycleVars, Reached
  <1>2. BatchInv'  BY <1>1 DEF IInv, BatchInv
  <1>3. /\ queue \in Seq(Message) /\ Len(queue) <= QueueLimit
        /\ times \in [Message -> Nat] /\ TypeOK /\ CronMatchesSwitch
    BY DEF IInv, TypeOK
  <1>4. CASE queue # <<>> /\ management = "idle" /\ ~screeningBusy
    <2>0. PICK m, no : m = Head(queue) /\ no = FALSE
      OBVIOUS
    <2>1. queue' = Tail(queue) /\ Begin(m, "drain", r, depth, no)
      BY <1>4, <2>0 DEF Drain
    <2>2. /\ Tail(queue) \in Seq(Message) /\ Len(Tail(queue)) = Len(queue) - 1
          /\ m \in Message /\ m = queue[1] /\ Len(queue) \in Nat \ {0}
          /\ \A i \in 1 .. Len(queue) - 1 : Tail(queue)[i] = queue[i + 1]
          /\ \A n : InQ(queue, n) <=> (n = m \/ InQ(Tail(queue), n))
          /\ NoDup(queue) => NoDup(Tail(queue)) /\ ~InQ(Tail(queue), m)
      BY <1>3, <1>4, <2>0, TailFacts
    <2>3. /\ running' \in Runs
          /\ \A n \in Message : running'[n] = IF n = m THEN "drain" ELSE r[n]
          /\ times' \in [Message -> Nat]
          /\ \A n \in Message : times'[n] = IF n = m THEN times[n] + 1 ELSE times[n]
          /\ busy' = Claims(m, no)
          /\ liveDepth' = depth + One(kinds[m] = "chat")
          /\ CronTyped' /\ CronMatchesSwitch'
      <3>1. mode' = mode /\ life' = life  BY <1>1
      <3>2. TypeOK /\ CronMatchesSwitch /\ m \in Message  BY <1>3, <2>2
      <3>3. Begin(m, "drain", r, depth, no)  BY <2>1
      <3>4. QED  BY <3>1, <3>2, <3>3, BeginFacts
    <2>31. busy' \in BOOLEAN /\ (busy' <=> kinds[m] = "chat")
      BY <2>0, <2>3 DEF Claims
    <2>4. ChatInv' /\ (SomeChat' <=> kinds[m] = "chat")
      BY <1>1, <2>2, <2>3, <2>31, BeginChats
    <2>5. DepthInv'
      BY <1>1, <2>3, <2>4 DEF DepthInv, One
    <2>6. KindsKnown'
      <3>1. m <= Len(kinds)
        BY <2>2 DEF IInv, KindsKnown
      <3>2. \A n \in Message : running'[n] # "no" => n <= Len(kinds)
        BY <2>2, <2>3, <3>1 DEF IInv, KindsKnown
      <3>3. \A i \in 1 .. Len(queue') : queue'[i] <= Len(kinds)
        BY <2>1, <2>2 DEF IInv, KindsKnown
      <3>4. QED  BY <1>1, <3>2, <3>3 DEF IInv, KindsKnown
    <2>7. QueueInv'
      <3>1. \A i \in 1 .. Len(queue') : queue'[i] < Reached
        BY <2>1, <2>2 DEF IInv, QueueInv
      <3>2. QED  BY <1>1, <2>1, <2>2, <3>1 DEF IInv, QueueInv
    <2>8. TimesInv'
      <3>1. SUFFICES ASSUME NEW n \in Message, n \notin redelivered
                     PROVE  /\ times'[n] <= 1
                            /\ times'[n] = 1 => n < Reached /\ ~InQ(queue', n)
        BY <1>1 DEF TimesInv
      <3>2. times[n] \in Nat /\ times[n] <= 1
            /\ (times[n] = 1 => n < Reached /\ ~InQ(queue, n))
        BY <1>3, <3>1 DEF IInv, TimesInv
      <3>3. CASE n = m
        <4>1. InQ(queue, n) /\ n < Reached /\ ~InQ(queue', n)
          BY <2>1, <2>2, <3>3 DEF IInv, QueueInv
        <4>2. times[n] = 0  BY <3>2, <4>1
        <4>3. QED  BY <2>3, <3>3, <4>1, <4>2
      <3>4. CASE n # m
        BY <2>1, <2>2, <2>3, <3>2, <3>4
      <3>5. QED  BY <3>3, <3>4
    <2>9. FirstRun'
      <3>1. SUFFICES ASSUME starts = 1, life # "down", NEW n \in Message, n < Reached
                     PROVE  n \in refused \/ times'[n] > 0 \/ InQ(queue', n)
        BY <1>1 DEF IInv, FirstRun
      <3>2. n \in refused \/ times[n] > 0 \/ InQ(queue, n)
        BY <3>1 DEF IInv, FirstRun
      <3>3. times[n] \in Nat  BY <1>3
      <3>4. QED  BY <2>1, <2>2, <2>3, <3>2, <3>3
    <2>10. Upd'  BY <1>2, <2>6, <2>7, <2>8, <2>9 DEF Upd
    <2>11. queue' \in Seq(Message) /\ Len(queue') <= QueueLimit
      BY <1>3, <2>1, <2>2, SessionConstants
    <2>12. QED  BY <2>3, <2>31, <2>4, <2>5, <2>10, <2>11
  <1>5. CASE ~(queue # <<>> /\ management = "idle" /\ ~screeningBusy)
    <2>1. /\ running' = r /\ liveDepth' = depth /\ busy' = FALSE
          /\ UNCHANGED <<queue, times, cronVars>>
      BY <1>5 DEF Drain
    <2>2. \A n \in Message : ~IsChat(n)'
      BY <1>1, <2>1 DEF IsChat
    <2>3. ChatInv' /\ ~SomeChat'
      BY <1>1, <2>1, <2>2 DEF ChatInv, SomeChat
    <2>4. DepthInv'
      BY <1>1, <2>1, <2>3 DEF DepthInv, One
    <2>5. CronMatchesSwitch'  BY <1>1, <1>3, <2>1, CronFrame
    <2>6. CronTyped'  BY <1>3, <2>1 DEF TypeOK, CronTyped, cronVars
    <2>7. KindsKnown'  BY <1>1, <2>1 DEF IInv, KindsKnown
    <2>8. QueueInv'  BY <1>1, <2>1 DEF IInv, QueueInv
    <2>9. TimesInv'  BY <1>1, <2>1 DEF IInv, TimesInv
    <2>10. FirstRun'  BY <1>1, <2>1 DEF IInv, FirstRun
    <2>11. QED
      BY <1>2, <1>3, <2>1, <2>3, <2>4, <2>5, <2>6, <2>7, <2>8, <2>9, <2>10 DEF Upd
  <1>6. QED  BY <1>4, <1>5

-----------------------------------------------------------------------------
(* The parts of the type *)

UserTyped ==
    /\ kinds \in Seq(Kinds) /\ sent \in 0 .. MaxMessages
    /\ confirmed \in 1 .. MaxMessages + 1 /\ offset \in 0 .. MaxMessages + 1
    /\ polling \in BOOLEAN /\ asking \in BOOLEAN
    /\ batch \in Seq(Message)
HandlersTyped ==
    /\ queue \in Seq(Message) /\ Len(queue) <= QueueLimit
    /\ running \in Runs /\ times \in [Message -> Nat]
    /\ due \in BOOLEAN /\ refused \subseteq Message /\ busy \in BOOLEAN
ProcessTyped ==
    /\ mode \in {"tty", "headless"}
    /\ life \in {"starting", "up", "stopping", "down"}
    /\ starts \in 0 .. MaxStarts /\ redelivered \subseteq Message
CyclesTyped ==
    /\ ScreeningTypeOK
    /\ terminal \in BOOLEAN
    /\ management \in {"idle", "silent", "live"} /\ finalizing \in BOOLEAN
    /\ liveDepth \in Int

Typed == UserTyped /\ HandlersTyped /\ ProcessTyped /\ CyclesTyped /\ CronTyped

LEMMA TypeParts == ASSUME TypeOK PROVE Typed
  BY DEF TypeOK, Typed, UserTyped, HandlersTyped, ProcessTyped, CyclesTyped, CronTyped, Runs

LEMMA TypePartsBack == ASSUME Typed' PROVE TypeOK'
  BY DEF TypeOK, Typed, UserTyped, HandlersTyped, ProcessTyped, CyclesTyped, CronTyped, Runs

LEMMA UserFrame ==
    ASSUME UserTyped, UNCHANGED <<userVars, pollVars>> PROVE UserTyped'
  BY DEF UserTyped, userVars, pollVars
LEMMA HandlersFrame ==
    ASSUME HandlersTyped, UNCHANGED handlerVars PROVE HandlersTyped'
  BY DEF HandlersTyped, handlerVars
LEMMA ProcessFrame ==
    ASSUME ProcessTyped, UNCHANGED processVars PROVE ProcessTyped'
  BY DEF ProcessTyped, processVars
LEMMA CyclesFrame ==
    ASSUME CyclesTyped, UNCHANGED <<cycleVars, terminal, management, finalizing>>,
           liveDepth' \in Int
    PROVE  CyclesTyped'
  BY DEF CyclesTyped, ScreeningTypeOK, cycleVars
LEMMA CronTypedFrame ==
    ASSUME CronTyped, UNCHANGED cronVars PROVE CronTyped'
  BY DEF CronTyped, cronVars

LEMMA DepthIsInt == ASSUME DepthInv' PROVE liveDepth' \in Int
  BY DEF DepthInv, One

Sess == ChatInv /\ DepthInv

\* The invariant, in the parts that the steps are proved in.
LEMMA InvParts ==
    ASSUME IInv
    PROVE  /\ TypeOK /\ UserTyped /\ HandlersTyped /\ ProcessTyped /\ CyclesTyped /\ CronTyped
           /\ Fresh /\ Upd /\ Sess /\ LockAccounted /\ CronMatchesSwitch
           /\ KindsKnown /\ BatchInv /\ QueueInv /\ TimesInv /\ FirstRun
           /\ ChatInv /\ DepthInv
  BY TypeParts DEF IInv, Typed, Upd, Sess

LEMMA InvFromParts ==
    ASSUME UserTyped', HandlersTyped', ProcessTyped', CyclesTyped', CronTyped',
           Fresh', Upd', Sess', LockAccounted', CronMatchesSwitch'
    PROVE  IInv'
  BY TypePartsBack DEF IInv, Typed, Upd, Sess

-----------------------------------------------------------------------------
(* Handlers *)

\* No other chat and no terminal command beside a chat.
LEMMA ChatEndsStep ==
    ASSUME IInv, NEW m \in Message, ChatEnds(m)
    PROVE  IInv'
  <1>1. /\ Quiet /\ running[m] # "no" /\ kinds[m] = "chat"
        /\ due' = (running[m] = "drain")
        /\ UNCHANGED <<refused, userVars, pollVars, processVars, cycleVars, terminal,
                       management, finalizing>>
    BY DEF ChatEnds, Handled, Others
  <1>2. PICK r, depth : /\ r = [running EXCEPT ![m] = "no"] /\ depth = liveDepth - 1
                        /\ Drain(r, depth)
    BY DEF ChatEnds
  <1>3. IsChat(m) /\ SomeChat /\ ~terminal /\ \A n \in Message : IsChat(n) => n = m
    BY <1>1, InvParts DEF IsChat, SomeChat, ChatInv
  <1>4. r \in Runs /\ \A n \in Message : r[n] = IF n = m THEN "no" ELSE running[n]
    BY <1>2, InvParts DEF HandlersTyped, Runs
  <1>5. \A n \in Message : r[n] # "no" => kinds[n] # "chat" /\ running[n] # "no"
    BY <1>3, <1>4 DEF IsChat
  <1>6. /\ depth \in Int
        /\ depth = One(finalizing) + One(management = "live")
                   + One(stage \in {"discover", "agent"})
    BY <1>2, <1>3, InvParts DEF DepthInv, One
  <1>7. /\ queue' \in Seq(Message) /\ Len(queue') <= QueueLimit
        /\ running' \in Runs /\ times' \in [Message -> Nat] /\ busy' \in BOOLEAN
        /\ CronTyped' /\ CronMatchesSwitch'
        /\ Upd' /\ ChatInv' /\ DepthInv'
    BY <1>1, <1>2, <1>3, <1>4, <1>5, <1>6, DrainFacts
  <1>8. HandlersTyped'
    BY <1>1, <1>7, InvParts DEF HandlersTyped
  <1>9. UserTyped' /\ ProcessTyped'
    BY <1>1, InvParts, UserFrame, ProcessFrame
  <1>10. CyclesTyped'
    BY <1>1, <1>7, InvParts, CyclesFrame, DepthIsInt
  <1>11. Fresh'
    BY <1>1, InvParts, Awake, FreshElse DEF processVars
  <1>12. LockAccounted'  BY <1>1, InvParts, LockFrame
  <1>13. Sess'  BY <1>7 DEF Sess
  <1>14. QED  BY <1>7, <1>8, <1>9, <1>10, <1>11, <1>12, <1>13, InvFromParts

LEMMA CommandEndsStep ==
    ASSUME IInv, NEW m \in Message, CommandEnds(m)
    PROVE  IInv'
  <1>1. /\ Quiet /\ running[m] # "no" /\ kinds[m] # "chat"
        /\ running' = [running EXCEPT ![m] = "no"]
        /\ due' = (running[m] = "drain")
        /\ UNCHANGED <<queue, times, refused, busy, liveDepth, cronVars, userVars,
                       pollVars, processVars, cycleVars, terminal, management, finalizing>>
    BY DEF CommandEnds, Handled, Others
  <1>2. /\ running' \in Runs
        /\ \A n \in Message : running'[n] = IF n = m THEN "no" ELSE running[n]
    BY <1>1, InvParts DEF HandlersTyped, Runs
  <1>3. HandlersTyped'
    BY <1>1, <1>2, InvParts DEF HandlersTyped
  <1>4. UserTyped' /\ ProcessTyped' /\ CyclesTyped' /\ CronTyped'
    <2>1. liveDepth' \in Int  BY <1>1, InvParts DEF CyclesTyped
    <2>2. QED  BY <1>1, <2>1, InvParts, UserFrame, ProcessFrame, CyclesFrame, CronTypedFrame
  <1>5. Fresh'
    BY <1>1, InvParts, Awake, FreshElse DEF processVars
  <1>6. Upd'
    <2>1. /\ UNCHANGED <<sent, kinds, confirmed, offset, asking, batch, queue,
                         times, refused, redelivered, starts, life>>
          /\ Reached' = Reached
      BY <1>1 DEF userVars, pollVars, processVars, Reached
    <2>2. KindsKnown'  BY <1>2, <2>1, InvParts DEF KindsKnown
    <2>3. BatchInv' /\ QueueInv'  BY <2>1, InvParts DEF BatchInv, QueueInv
    <2>4. TimesInv'  BY <2>1, InvParts DEF TimesInv
    <2>5. FirstRun'  BY <2>1, InvParts DEF FirstRun
    <2>6. QED  BY <2>2, <2>3, <2>4, <2>5 DEF Upd
  <1>7. Sess'
    <2>1. UNCHANGED <<kinds, busy, terminal, liveDepth, management, finalizing, stage>>
      BY <1>1 DEF userVars, cycleVars
    <2>2. \A n \in Message : IsChat(n)' <=> IsChat(n)
      BY <1>1, <1>2, <2>1 DEF IsChat
    <2>3. SomeChat' <=> SomeChat  BY <2>2 DEF SomeChat
    <2>4. ChatInv'  BY <2>1, <2>2, <2>3, InvParts DEF ChatInv
    <2>5. DepthInv'  BY <2>1, <2>3, InvParts DEF DepthInv, One
    <2>6. QED  BY <2>4, <2>5 DEF Sess
  <1>8. LockAccounted' /\ CronMatchesSwitch'
    BY <1>1, InvParts, LockFrame, CronFrame DEF processVars
  <1>9. QED  BY <1>3, <1>4, <1>5, <1>6, <1>7, <1>8, InvFromParts

LEMMA DrainContinuesStep ==
    ASSUME IInv, DrainContinues
    PROVE  IInv'
  <1>1. /\ due /\ life # "down" /\ due' = FALSE
        /\ UNCHANGED <<refused, userVars, pollVars, processVars, cycleVars, terminal,
                       management, finalizing>>
    BY DEF DrainContinues, Others
  <1>2. UserTyped' /\ ProcessTyped'
    BY <1>1, InvParts, UserFrame, ProcessFrame
  <1>3. Fresh'
    BY <1>1, InvParts, Awake, FreshElse DEF processVars
  <1>4. LockAccounted'  BY <1>1, InvParts, LockFrame
  <1>5. CASE busy
    <2>1. UNCHANGED <<queue, running, times, busy, liveDepth, cronVars>>
      BY <1>5 DEF DrainContinues
    <2>2. HandlersTyped'  BY <1>1, <2>1, InvParts DEF HandlersTyped
    <2>3. liveDepth' \in Int  BY <2>1, InvParts DEF CyclesTyped
    <2>4. CyclesTyped' /\ CronTyped'
      BY <1>1, <2>1, <2>3, InvParts, CyclesFrame, CronTypedFrame
    <2>5. Upd'
      BY <1>1, <2>1, InvParts, UpdatesFrame DEF Upd, pollVars, processVars
    <2>6. Sess'
      BY <1>1, <2>1, InvParts, SessionFrame DEF Sess, userVars, cycleVars
    <2>7. CronMatchesSwitch'
      BY <1>1, <2>1, InvParts, CronFrame DEF processVars
    <2>8. QED
      BY <1>2, <1>3, <1>4, <2>2, <2>4, <2>5, <2>6, <2>7, InvFromParts
  <1>6. CASE ~busy
    <2>1. PICK r, depth : r = running /\ depth = liveDepth /\ Drain(r, depth)
      BY <1>6 DEF DrainContinues
    <2>2. ~terminal /\ ~SomeChat
      BY <1>6, InvParts DEF ChatInv
    <2>3. \A n \in Message : r[n] # "no" => kinds[n] # "chat" /\ running[n] # "no"
      BY <2>1, <2>2 DEF SomeChat, IsChat
    <2>4. r \in Runs  BY <2>1, InvParts DEF HandlersTyped
    <2>5. /\ depth \in Int
          /\ depth = One(finalizing) + One(management = "live")
                     + One(stage \in {"discover", "agent"})
      BY <2>1, <2>2, InvParts DEF DepthInv, One
    <2>6. /\ queue' \in Seq(Message) /\ Len(queue') <= QueueLimit
          /\ running' \in Runs /\ times' \in [Message -> Nat] /\ busy' \in BOOLEAN
          /\ CronTyped' /\ CronMatchesSwitch'
          /\ Upd' /\ ChatInv' /\ DepthInv'
      BY <1>1, <2>1, <2>2, <2>3, <2>4, <2>5, DrainFacts
    <2>7. HandlersTyped'
      BY <1>1, <2>6, InvParts DEF HandlersTyped
    <2>8. CyclesTyped'
      BY <1>1, <2>6, InvParts, CyclesFrame, DepthIsInt
    <2>9. Sess'  BY <2>6 DEF Sess
    <2>10. QED
      BY <1>2, <1>3, <1>4, <2>6, <2>7, <2>8, <2>9, InvFromParts
  <1>7. QED  BY <1>5, <1>6

-----------------------------------------------------------------------------
(* Polling *)

LEMMA QuietFrame ==
    ASSUME IInv, UNCHANGED <<processVars, cycleVars, terminal, management, finalizing,
                             liveDepth, queue, running, times, refused, busy, due, cronVars>>,
           UserTyped', Upd', Fresh', kinds' = kinds
    PROVE  IInv'
  <1>1. liveDepth' \in Int  BY InvParts DEF CyclesTyped
  <1>2. HandlersTyped'  BY InvParts DEF HandlersTyped
  <1>3. ProcessTyped' /\ CyclesTyped' /\ CronTyped'
    BY <1>1, InvParts, ProcessFrame, CyclesFrame, CronTypedFrame
  <1>4. Sess'  BY InvParts, SessionFrame DEF Sess, cycleVars
  <1>5. LockAccounted' /\ CronMatchesSwitch'
    BY InvParts, LockFrame, CronFrame DEF processVars
  <1>6. QED  BY <1>2, <1>3, <1>4, <1>5, InvFromParts

LEMMA UserSendsStep ==
    ASSUME IInv, UserSends
    PROVE  IInv'
  <1>1. /\ sent < MaxMessages /\ sent' = sent + 1
        /\ UNCHANGED <<kinds, confirmed, pollVars, handlerVars, cronVars, processVars,
                       cycleVars, terminal, management, finalizing, liveDepth>>
    BY DEF UserSends
  <1>2. UNCHANGED <<offset, polling, asking, batch, queue, running, times, refused,
                    busy, due, life, starts, redelivered, stage, screeningBusy,
                    cronStarted, cronOn>>
    BY <1>1 DEF pollVars, handlerVars, processVars, cycleVars, cronVars
  <1>3. UserTyped'
    BY <1>1, <1>2, InvParts, SessionConstants DEF UserTyped
  <1>4. Len(kinds) \in Nat  BY InvParts DEF UserTyped
  <1>5. KindsKnown'
    BY <1>1, <1>2, <1>4, InvParts DEF KindsKnown, UserTyped
  <1>6. Reached' = Reached  BY <1>1, <1>2 DEF Reached
  <1>7. BatchInv' /\ QueueInv'  BY <1>1, <1>2, <1>6, InvParts DEF BatchInv, QueueInv
  <1>8. TimesInv'  BY <1>1, <1>2, <1>6, InvParts DEF TimesInv
  <1>9. FirstRun'  BY <1>1, <1>2, <1>6, InvParts DEF FirstRun
  <1>10. Upd'  BY <1>5, <1>7, <1>8, <1>9 DEF Upd
  <1>11. Fresh'  BY <1>1, <1>2, InvParts DEF Fresh
  <1>12. QED  BY <1>1, <1>2, <1>3, <1>10, <1>11, QuietFrame

LEMMA PollAsksStep ==
    ASSUME IInv, PollAsks
    PROVE  IInv'
  <1>1. /\ Quiet /\ polling /\ batch = <<>> /\ ~asking /\ asking' = TRUE
        /\ confirmed' = IF offset > confirmed THEN offset ELSE confirmed
        /\ UNCHANGED <<kinds, offset, polling, batch, queue, running, times, refused, busy,
                       liveDepth, cronVars, sent, processVars, cycleVars, terminal,
                       management, finalizing, due>>
    BY DEF PollAsks, LoopFree, NoHandler, PollFrame
  <1>2. UNCHANGED <<life, starts, redelivered, stage, screeningBusy, cronStarted, cronOn>>
    BY <1>1 DEF processVars, cycleVars, cronVars
  <1>3. UserTyped'
    BY <1>1, InvParts DEF UserTyped
  <1>4. Reached' = Reached /\ offset' <= confirmed'
    BY <1>1, InvParts DEF Reached, UserTyped
  <1>5. KindsKnown'  BY <1>1, InvParts DEF KindsKnown
  <1>6. BatchInv'  BY <1>1, <1>4, InvParts DEF BatchInv
  <1>7. QueueInv' /\ TimesInv'
    BY <1>1, <1>2, <1>4, InvParts DEF QueueInv, TimesInv
  <1>8. life # "down" /\ life # "starting"
    BY <1>1, InvParts, Awake
  <1>9. FirstRun'
    BY <1>1, <1>2, <1>4, <1>8, InvParts DEF FirstRun
  <1>10. Upd'  BY <1>5, <1>6, <1>7, <1>9 DEF Upd
  <1>11. Fresh'  BY <1>2, <1>8, FreshElse
  <1>12. QED  BY <1>1, <1>3, <1>10, <1>11, QuietFrame

LEMMA PollFailsStep ==
    ASSUME IInv, PollFails
    PROVE  IInv'
  <1>1. /\ Quiet /\ asking /\ asking' = FALSE
        /\ UNCHANGED <<kinds, confirmed, offset, polling, batch, queue, running, times,
                       refused, busy, liveDepth, cronVars, sent, processVars, cycleVars,
                       terminal, management, finalizing, due>>
    BY DEF PollFails, NoHandler, PollFrame
  <1>2. UNCHANGED <<life, starts, redelivered>>
    BY <1>1 DEF processVars
  <1>3. UserTyped'  BY <1>1, InvParts DEF UserTyped
  <1>4. Reached' = Reached  BY <1>1 DEF Reached
  <1>5. KindsKnown'  BY <1>1, InvParts DEF KindsKnown
  <1>6. BatchInv' /\ QueueInv' /\ TimesInv'
    BY <1>1, <1>2, <1>4, InvParts DEF BatchInv, QueueInv, TimesInv
  <1>7. FirstRun'  BY <1>1, <1>2, <1>4, InvParts DEF FirstRun
  <1>8. Upd'  BY <1>5, <1>6, <1>7 DEF Upd
  <1>9. Fresh'  BY <1>1, <1>2, InvParts, Awake, FreshElse
  <1>10. QED  BY <1>1, <1>3, <1>8, <1>9, QuietFrame

\* What an answer brings is new, and follows what was confirmed.
LEMMA PollAnswersStep ==
    ASSUME IInv, PollAnswers
    PROVE  IInv'
  <1>1. /\ Quiet /\ asking /\ sent >= confirmed /\ asking' = FALSE
        /\ batch' = [i \in 1 .. sent - confirmed + 1 |-> confirmed + i - 1]
        /\ UNCHANGED <<confirmed, offset, polling, queue, running, times, refused, busy,
                       liveDepth, cronVars, sent, processVars, cycleVars, terminal,
                       management, finalizing, due>>
    BY DEF PollAnswers, NoHandler, PollFrame
  <1>2. UNCHANGED <<life, starts, redelivered, stage>>
    BY <1>1 DEF processVars, cycleVars
  <1>3. PICK k \in [1 .. sent -> Kinds] : SubSeq(k, 1, Len(kinds)) = kinds /\ kinds' = k
    BY DEF PollAnswers
  <1>4. /\ sent \in Nat /\ sent <= MaxMessages /\ confirmed \in Nat \ {0}
        /\ Len(kinds) \in Nat /\ Len(kinds) <= sent
        /\ kinds \in Seq(Kinds)
    BY InvParts, SessionConstants DEF UserTyped, KindsKnown
  <1>5. kinds' \in Seq(Kinds) /\ Len(kinds') = sent
    BY <1>3, <1>4
  <1>6. \A i \in 1 .. Len(kinds) : kinds'[i] = kinds[i]
    <2>1. \A i \in 1 .. Len(kinds) - 1 + 1 : SubSeq(k, 1, Len(kinds))[i] = k[1 + i - 1]
      <3>1. \A i \in 1 .. Len(kinds) : k[i] \in Kinds  BY <1>3, <1>4
      <3>2. 1 \in Int /\ Len(kinds) \in Int  BY <1>4
      <3> HIDE DEF Kinds
      <3>3. QED  BY <3>1, <3>2, SubSeqProperties
    <2>2. QED  BY <1>3, <1>4, <2>1
  <1>7. batch' \in Seq(Message)
    <2>1. sent - confirmed + 1 \in Nat  BY <1>1, <1>4
    <2>2. \A i \in 1 .. sent - confirmed + 1 : confirmed + i - 1 \in Message
      BY <1>4, SessionConstants DEF Message
    <2>3. QED  BY <1>1, <2>1, <2>2
  <1>8. /\ Len(batch') = sent - confirmed + 1
        /\ batch'[1] = confirmed
        /\ \A i \in 1 .. Len(batch') : batch'[i] = confirmed + i - 1
    BY <1>1, <1>4
  <1>9. UserTyped'
    BY <1>1, <1>5, <1>7, InvParts DEF UserTyped
  <1>10. Reached' = Reached /\ Reached = confirmed
    BY <1>1, <1>4, InvParts DEF Reached, BatchInv, UserTyped
  <1>11. KindsKnown'
    <2>1. \A m \in Message : running'[m] # "no" => m <= sent
      BY <1>1, <1>4, InvParts DEF KindsKnown, Message
    <2>2. \A i \in 1 .. Len(queue') : queue'[i] <= sent
      <3>1. Len(queue) \in Nat /\ \A i \in 1 .. Len(queue) : queue[i] \in Message
        BY InvParts DEF HandlersTyped
      <3>2. \A i \in 1 .. Len(queue) : queue[i] <= sent
        BY <1>4, <3>1, InvParts DEF KindsKnown, Message
      <3>3. QED  BY <1>1, <3>2
    <2>3. \A i \in 1 .. Len(batch') : batch'[i] <= sent
      BY <1>1, <1>4, <1>8
    <2>4. QED  BY <1>1, <1>4, <1>5, <2>1, <2>2, <2>3 DEF KindsKnown
  <1>12. BatchInv'  BY <1>1, <1>8, <1>10 DEF BatchInv
  <1>13. QueueInv'  BY <1>1, <1>10, InvParts DEF QueueInv
  <1>14. TimesInv'  BY <1>1, <1>2, <1>10, InvParts DEF TimesInv
  <1>15. FirstRun'  BY <1>1, <1>2, <1>10, InvParts DEF FirstRun
  <1>16. Upd'  BY <1>11, <1>12, <1>13, <1>14, <1>15 DEF Upd
  <1>17. Fresh'  BY <1>1, <1>2, InvParts, Awake, FreshElse
  <1>18. HandlersTyped' /\ ProcessTyped' /\ CyclesTyped' /\ CronTyped'
    <2>1. HandlersTyped'  BY <1>1, InvParts DEF HandlersTyped
    <2>2. liveDepth' \in Int  BY <1>1, InvParts DEF CyclesTyped
    <2>3. QED  BY <1>1, <2>1, <2>2, InvParts, ProcessFrame, CyclesFrame, CronTypedFrame
  <1>19. \A n \in Message : IsChat(n)' <=> IsChat(n)
    <2>1. SUFFICES ASSUME NEW n \in Message PROVE IsChat(n)' <=> IsChat(n)
      OBVIOUS
    <2>2. CASE running[n] = "no"
      BY <1>1, <2>2 DEF IsChat
    <2>3. CASE running[n] # "no"
      <3>1. n \in 1 .. Len(kinds)
        BY <1>4, <2>3, InvParts DEF KindsKnown, Message
      <3>2. QED  BY <1>1, <1>6, <3>1 DEF IsChat
    <2>4. QED  BY <2>2, <2>3
  <1>20. SomeChat' <=> SomeChat  BY <1>19 DEF SomeChat
  <1>21. ChatInv'  BY <1>1, <1>19, <1>20, InvParts DEF ChatInv
  <1>22. DepthInv'  BY <1>1, <1>2, <1>20, InvParts DEF DepthInv, One
  <1>23. LockAccounted' /\ CronMatchesSwitch'
    BY <1>1, InvParts, LockFrame, CronFrame DEF processVars
  <1>24. Sess'  BY <1>21, <1>22 DEF Sess
  <1>25. QED  BY <1>9, <1>16, <1>17, <1>18, <1>23, <1>24, InvFromParts

\* An update is taken: it is the next one, and neither queued nor handled.
LEMMA TakesFacts ==
    ASSUME IInv, TakesUpdate
    PROVE  /\ Quiet /\ batch # <<>>
           /\ Head(batch) = Reached /\ Reached \in Message /\ Reached <= Len(kinds)
           /\ Reached' = Reached + 1 /\ ~InQ(queue, Reached)
           /\ Len(kinds) \in Nat
           /\ kinds[Reached] \in Kinds
           /\ UNCHANGED <<kinds, confirmed, polling, asking, sent, processVars, cycleVars,
                          terminal, management, finalizing, due>>
           /\ UserTyped' /\ BatchInv' /\ Fresh'
           /\ \A i \in 1 .. Len(batch') : batch'[i] <= Len(kinds)
  <1>1. /\ Quiet /\ batch # <<>> /\ offset' = Head(batch) + 1 /\ batch' = Tail(batch)
        /\ UNCHANGED <<kinds, confirmed, polling, asking, sent, processVars, cycleVars,
                       terminal, management, finalizing, due>>
    BY DEF TakesUpdate, PollFrame
  <1>2. /\ Tail(batch) \in Seq(Message) /\ Len(Tail(batch)) = Len(batch) - 1
        /\ Head(batch) \in Message /\ Head(batch) = batch[1] /\ Len(batch) \in Nat \ {0}
        /\ \A i \in 1 .. Len(batch) - 1 : Tail(batch)[i] = batch[i + 1]
    BY <1>1, InvParts, TailFacts DEF UserTyped
  <1>3. Head(batch) = Reached /\ Reached \in Message
    BY <1>1, <1>2, InvParts DEF BatchInv
  <1>4. /\ confirmed \in Nat /\ offset \in Nat /\ Reached \in Nat /\ Reached >= confirmed
        /\ Reached + 1 \in 0 .. MaxMessages + 1 /\ Len(kinds) \in Nat /\ kinds \in Seq(Kinds)
    BY <1>3, InvParts, SessionConstants DEF UserTyped, Reached, Message
  <1>5. Reached' = Reached + 1
    <2>1. offset' = Reached + 1 /\ confirmed' = confirmed  BY <1>1, <1>3
    <2>2. offset' > confirmed'  BY <1>4, <2>1
    <2>3. Reached' = offset'  BY <2>2 DEF Reached
    <2>4. QED  BY <2>1, <2>3
  <1>6. ~InQ(queue, Reached)
    BY <1>4, InvParts DEF QueueInv, InQ
  <1>7. Reached <= Len(kinds) /\ kinds[Reached] \in Kinds
    <2>1. Reached <= Len(kinds)
      BY <1>2, <1>3, InvParts DEF KindsKnown
    <2>2. Reached \in 1 .. Len(kinds)  BY <1>3, <1>4, <2>1 DEF Message
    <2>3. QED  BY <1>4, <2>1, <2>2
  <1>8. UserTyped'
    BY <1>1, <1>2, <1>3, <1>4, InvParts DEF UserTyped
  <1>9. BatchInv'
    <2>1. ~asking'  BY <1>1, InvParts DEF BatchInv
    <2>2. \A i \in 1 .. Len(batch') : batch'[i] = Reached + i
      BY <1>1, <1>2, <1>3, <1>4, InvParts DEF BatchInv
    <2>3. batch' # <<>> => 1 \in 1 .. Len(batch')
      BY <1>1, <1>2
    <2>4. batch' # <<>> => batch'[1] = Reached + 1
      BY <2>2, <2>3
    <2>5. \A i \in 1 .. Len(batch') : batch'[i] = batch'[1] + i - 1
      <3>1. SUFFICES ASSUME NEW i \in 1 .. Len(batch')
                     PROVE  batch'[i] = batch'[1] + i - 1
        OBVIOUS
      <3>2. 1 \in 1 .. Len(batch')  BY <1>1, <1>2
      <3>3. batch'[1] = Reached + 1 /\ batch'[i] = Reached + i  BY <2>2, <3>2
      <3>4. QED  BY <1>4, <3>3
    <2>6. QED  BY <1>5, <2>1, <2>4, <2>5 DEF BatchInv
  <1>10. Fresh'
    BY <1>1, InvParts, Awake, FreshElse DEF processVars
  <1>11. \A i \in 1 .. Len(batch') : batch'[i] <= Len(kinds)
    BY <1>1, <1>2, InvParts DEF KindsKnown
  <1>12. QED
    BY <1>1, <1>3, <1>4, <1>5, <1>6, <1>7, <1>8, <1>9, <1>10, <1>11

\* What remains to be shown of an update that is refused, queued or begun.
LEMMA TakesFrame ==
    ASSUME IInv, TakesUpdate,
           HandlersTyped', QueueInv', TimesInv', FirstRun', CronTyped', CronMatchesSwitch',
           ChatInv', DepthInv',
           \A n \in Message : running'[n] # "no" => n <= Len(kinds),
           \A i \in 1 .. Len(queue') : queue'[i] <= Len(kinds)
    PROVE  IInv'
  <1>1. KindsKnown'
    BY TakesFacts, InvParts DEF KindsKnown
  <1>2. Upd'  BY <1>1, TakesFacts DEF Upd
  <1>3. ProcessTyped'  BY TakesFacts, InvParts, ProcessFrame
  <1>4. CyclesTyped'  BY TakesFacts, InvParts, CyclesFrame, DepthIsInt
  <1>5. LockAccounted'  BY TakesFacts, InvParts, LockFrame
  <1>6. Sess'  BY DEF Sess
  <1>7. QED  BY <1>2, <1>3, <1>4, <1>5, <1>6, TakesFacts, InvFromParts

LEMMA RefusedStep ==
    ASSUME IInv, TakesUpdate, UNCHANGED queue, NotBegun,
           refused' = refused \cup {Reached}
    PROVE  IInv'
  <1>1. UNCHANGED <<queue, running, times, busy, liveDepth, cronVars>>
    BY DEF NotBegun
  <1>2. /\ UNCHANGED <<kinds, terminal, due, mode, life, starts, redelivered, management,
                       finalizing, stage, confirmed>>
        /\ Reached \in Nat /\ Reached \in Message /\ Reached' = Reached + 1
    BY TakesFacts DEF processVars, cycleVars, Message
  <1>3. HandlersTyped'
    BY <1>1, <1>2, InvParts DEF HandlersTyped
  <1>4. Len(queue) \in Nat /\ \A i \in 1 .. Len(queue) : queue[i] \in Nat
    BY InvParts DEF HandlersTyped, Message
  <1>5. QueueInv'  BY <1>1, <1>2, <1>4, InvParts DEF QueueInv
  <1>6. TimesInv'
    <2>1. \A n \in Message : n < Reached => n < Reached + 1
      BY <1>2 DEF Message
    <2>2. QED  BY <1>1, <1>2, <2>1, InvParts DEF TimesInv
  <1>7. FirstRun'
    <2>1. \A n \in Message : n < Reached + 1 => n < Reached \/ n = Reached
      BY <1>2 DEF Message
    <2>2. QED  BY <1>1, <1>2, <2>1, InvParts DEF FirstRun
  <1>8. ChatInv' /\ DepthInv'
    BY <1>1, <1>2, InvParts, SessionFrame
  <1>9. CronTyped' /\ CronMatchesSwitch'
    BY <1>1, <1>2, InvParts, CronTypedFrame, CronFrame
  <1>10. /\ \A n \in Message : running'[n] # "no" => n <= Len(kinds)
         /\ \A i \in 1 .. Len(queue') : queue'[i] <= Len(kinds)
    BY <1>1, InvParts DEF KindsKnown
  <1>11. QED  BY <1>3, <1>5, <1>6, <1>7, <1>8, <1>9, <1>10, TakesFrame

LEMMA QueuedStep ==
    ASSUME IInv, TakesUpdate, UNCHANGED refused, NotBegun,
           Len(queue) < QueueLimit, queue' = Append(queue, Reached)
    PROVE  IInv'
  <1>1. UNCHANGED <<running, times, busy, liveDepth, cronVars, refused>>
    BY DEF NotBegun
  <1>2. /\ UNCHANGED <<kinds, terminal, due, mode, life, starts, redelivered, management,
                       finalizing, stage, confirmed>>
        /\ Reached \in Nat /\ Reached \in Message /\ Reached' = Reached + 1
        /\ Reached <= Len(kinds) /\ ~InQ(queue, Reached)
    BY TakesFacts DEF processVars, cycleVars, Message
  <1>3. queue \in Seq(Message)  BY InvParts DEF HandlersTyped
  <1>4. PICK m : m = Reached  OBVIOUS
  <1>5. /\ Append(queue, m) \in Seq(Message) /\ Len(Append(queue, m)) = Len(queue) + 1
        /\ Len(queue) \in Nat
        /\ \A i \in 1 .. Len(queue) : Append(queue, m)[i] = queue[i]
        /\ Append(queue, m)[Len(queue) + 1] = m
        /\ \A x : InQ(Append(queue, m), x) <=> (InQ(queue, x) \/ x = m)
        /\ NoDup(queue) /\ ~InQ(queue, m) => NoDup(Append(queue, m))
    BY <1>2, <1>3, <1>4, AppendFacts
  <1>6. queue' = Append(queue, m)  BY <1>4
  <1>7. HandlersTyped'
    <2>1. Len(queue') <= QueueLimit
      BY <1>5, <1>6, SessionConstants
    <2>2. queue' \in Seq(Message)  BY <1>5, <1>6
    <2>3. running' \in Runs /\ times' \in [Message -> Nat] /\ due' \in BOOLEAN
      BY <1>1, <1>2, InvParts DEF HandlersTyped
    <2>4. refused' \subseteq Message /\ busy' \in BOOLEAN
      BY <1>1, InvParts DEF HandlersTyped
    <2>5. QED  BY <2>1, <2>2, <2>3, <2>4 DEF HandlersTyped
  <1>8. \A i \in 1 .. Len(queue) : queue[i] \in Nat
    <2>1. \A i \in 1 .. Len(queue) : queue[i] \in Message  BY <1>3
    <2>2. QED  BY <2>1, SessionConstants DEF Message
  <1>9. QueueInv'
    <2>1. NoDup(queue')  BY <1>2, <1>4, <1>5, <1>6, InvParts DEF QueueInv
    <2>2. \A i \in 1 .. Len(queue') : queue'[i] < Reached + 1
      BY <1>2, <1>4, <1>5, <1>6, <1>8, InvParts DEF QueueInv
    <2>3. QED  BY <1>2, <2>1, <2>2 DEF QueueInv
  <1>10. TimesInv'
    <2>1. \A n \in Message : n < Reached => n < Reached + 1 /\ n # Reached
      BY <1>2 DEF Message
    <2>2. \A n \in Message : n < Reached /\ ~InQ(queue, n) => ~InQ(queue', n)
      BY <1>4, <1>5, <1>6, <2>1
    <2>3. SUFFICES ASSUME NEW n \in Message, n \notin redelivered
                   PROVE  /\ times[n] <= 1
                          /\ times[n] = 1 => n < Reached + 1 /\ ~InQ(queue', n)
      BY <1>1, <1>2 DEF TimesInv
    <2>4. QED  BY <2>1, <2>2, <2>3, InvParts DEF TimesInv
  <1>11. FirstRun'
    <2>1. \A n \in Message : n < Reached + 1 => n < Reached \/ n = Reached
      BY <1>2 DEF Message
    <2>2. QED  BY <1>1, <1>2, <1>4, <1>5, <1>6, <2>1, InvParts DEF FirstRun
  <1>12. ChatInv' /\ DepthInv'
    BY <1>1, <1>2, InvParts, SessionFrame
  <1>13. CronTyped' /\ CronMatchesSwitch'
    BY <1>1, <1>2, InvParts, CronTypedFrame, CronFrame
  <1>14. \A n \in Message : running'[n] # "no" => n <= Len(kinds)
    BY <1>1, InvParts DEF KindsKnown
  <1>15. \A i \in 1 .. Len(queue') : queue'[i] <= Len(kinds)
    BY <1>2, <1>4, <1>5, <1>6, InvParts DEF KindsKnown
  <1>16. QED
    BY <1>7, <1>9, <1>10, <1>11, <1>12, <1>13, <1>14, <1>15, TakesFrame

LEMMA BegunStep ==
    ASSUME IInv, TakesUpdate, UNCHANGED <<queue, refused>>,
           ~MustWait(Reached), ~Blocked(Reached),
           Begin(Reached, "poll", running, liveDepth, busy)
    PROVE  IInv'
  <1>1. PICK m, depth, held : m = Reached /\ depth = liveDepth /\ held = busy
    OBVIOUS
  <1>2. /\ UNCHANGED <<kinds, terminal, due, mode, life, starts, redelivered, management,
                       finalizing, stage, confirmed>>
        /\ m \in Nat /\ m \in Message /\ Reached' = m + 1
        /\ m <= Len(kinds) /\ ~InQ(queue, m)
    BY <1>1, TakesFacts DEF processVars, cycleVars, Message
  <1>3. /\ running \in Runs /\ times \in [Message -> Nat] /\ busy \in BOOLEAN
        /\ depth \in Int /\ TypeOK /\ CronMatchesSwitch
    BY <1>1, InvParts DEF HandlersTyped, CyclesTyped
  <1>4. Begin(m, "poll", running, depth, held)
    BY <1>1
  <1>5. /\ running' \in Runs
        /\ \A n \in Message : running'[n] = IF n = m THEN "poll" ELSE running[n]
        /\ times' \in [Message -> Nat]
        /\ \A n \in Message : times'[n] = IF n = m THEN times[n] + 1 ELSE times[n]
        /\ busy' = Claims(m, held)
        /\ liveDepth' = depth + One(kinds[m] = "chat")
        /\ CronTyped' /\ CronMatchesSwitch'
    BY <1>2, <1>3, <1>4, BeginFacts
  <1>6. busy' \in BOOLEAN /\ (busy' <=> busy \/ kinds[m] = "chat")
    BY <1>1, <1>3, <1>5 DEF Claims
  <1>7. HandlersTyped'
    BY <1>2, <1>5, <1>6, InvParts DEF HandlersTyped
  <1>8. Len(queue) \in Nat /\ \A i \in 1 .. Len(queue) : queue[i] \in Nat
    BY InvParts DEF HandlersTyped, Message
  <1>9. QueueInv'  BY <1>1, <1>2, <1>8, InvParts DEF QueueInv
  <1>10. TimesInv'
    <2>1. SUFFICES ASSUME NEW n \in Message, n \notin redelivered
                   PROVE  /\ times'[n] <= 1
                          /\ times'[n] = 1 => n < m + 1 /\ ~InQ(queue, n)
      BY <1>2 DEF TimesInv
    <2>2. times[n] \in Nat /\ times[n] <= 1
          /\ (times[n] = 1 => n < m /\ ~InQ(queue, n)) /\ n \in Nat
      BY <1>1, <1>3, <2>1, InvParts DEF TimesInv, Message
    <2>3. CASE n = m
      BY <1>2, <1>5, <2>2, <2>3
    <2>4. CASE n # m
      BY <1>2, <1>5, <2>2, <2>4
    <2>5. QED  BY <2>3, <2>4
  <1>11. FirstRun'
    <2>1. SUFFICES ASSUME starts = 1, life # "down", NEW n \in Message, n < m + 1
                   PROVE  n \in refused \/ times'[n] > 0 \/ InQ(queue, n)
      BY <1>2, InvParts DEF FirstRun
    <2>2. times[n] \in Nat /\ n \in Nat  BY <1>3 DEF Message
    <2>3. CASE n = m  BY <1>5, <2>2, <2>3
    <2>4. CASE n # m
      <3>1. n < m  BY <1>2, <2>1, <2>2, <2>4
      <3>2. n \in refused \/ times[n] > 0 \/ InQ(queue, n)
        BY <1>1, <2>1, <3>1, InvParts DEF FirstRun
      <3>3. times'[n] = times[n]  BY <1>5, <2>4
      <3>4. QED  BY <3>2, <3>3
    <2>5. QED  BY <2>3, <2>4
  <1>12. kinds[m] = "chat" => ~terminal /\ ~SomeChat
    BY <1>1, <1>3, InvParts DEF MustWait, AnyBusy, Blocked, ChatInv
  <1>13. \A n \in Message : IsChat(n)' <=> IsChat(n) \/ (n = m /\ kinds[m] = "chat")
    BY <1>2, <1>5 DEF IsChat
  <1>14. SomeChat' <=> SomeChat \/ kinds[m] = "chat"
    BY <1>2, <1>13 DEF SomeChat
  <1>15. ChatInv'
    <2>1. \A n, o \in Message : IsChat(n)' /\ IsChat(o)' => n = o
      BY <1>12, <1>13, InvParts DEF ChatInv, SomeChat
    <2>2. QED  BY <1>2, <1>6, <1>12, <1>14, <2>1, InvParts DEF ChatInv
  <1>16. DepthInv'
    BY <1>1, <1>2, <1>5, <1>12, <1>14, InvParts DEF DepthInv, One
  <1>17. /\ \A n \in Message : running'[n] # "no" => n <= Len(kinds)
         /\ \A i \in 1 .. Len(queue') : queue'[i] <= Len(kinds)
    BY <1>2, <1>5, InvParts DEF KindsKnown
  <1>18. QED
    BY <1>5, <1>7, <1>9, <1>10, <1>11, <1>15, <1>16, <1>17, TakesFrame

LEMMA TakesStep ==
    ASSUME IInv, TakesUpdate
    PROVE  IInv'
  <1>1. Dispatch(Reached)  BY TakesFacts DEF TakesUpdate
  <1>2. CASE /\ refused' = refused \cup {Reached} /\ UNCHANGED queue /\ NotBegun
    BY <1>2, RefusedStep
  <1>3. CASE Enqueue(Reached) /\ NotBegun
    <2>1. CASE Len(queue) < QueueLimit
      BY <1>3, <2>1, QueuedStep DEF Enqueue
    <2>2. CASE ~(Len(queue) < QueueLimit)
      BY <1>3, <2>2, RefusedStep DEF Enqueue
    <2>3. QED  BY <2>1, <2>2
  <1>4. CASE /\ ~Blocked(Reached) /\ ~MustWait(Reached)
             /\ Begin(Reached, "poll", running, liveDepth, busy)
             /\ UNCHANGED <<queue, refused>>
    BY <1>4, BegunStep
  <1>5. QED  BY <1>1, <1>2, <1>3, <1>4 DEF Dispatch

LEMMA PollStep ==
    ASSUME IInv, Poll
    PROVE  IInv'
  BY PollAsksStep, PollAnswersStep, PollFailsStep, TakesStep DEF Poll

-----------------------------------------------------------------------------
(* The process, the terminal and the configuration *)

\* No update and no handler is touched.
LEMMA NoUpdateFrame ==
    ASSUME IInv,
           UNCHANGED <<userVars, offset, asking, batch, running, queue, due, times,
                       refused, mode, starts, redelivered>>,
           polling' \in BOOLEAN, busy' \in BOOLEAN,
           life' \in {"starting", "up", "stopping", "down"},
           life' = "down" <=> life = "down",
           CyclesTyped', CronTyped', Fresh', ChatInv', DepthInv', LockAccounted',
           CronMatchesSwitch'
    PROVE  IInv'
  <1>1. UserTyped'  BY InvParts DEF UserTyped, userVars
  <1>2. HandlersTyped'  BY InvParts DEF HandlersTyped
  <1>3. ProcessTyped'  BY InvParts DEF ProcessTyped
  <1>4. Upd'  BY InvParts, UpdatesFrame DEF Upd
  <1>5. Sess'  BY DEF Sess
  <1>6. QED  BY <1>1, <1>2, <1>3, <1>4, <1>5, InvFromParts

LEMMA BootStep ==
    ASSUME IInv, Boot
    PROVE  IInv'
  <1>1. /\ life = "down" /\ starts < MaxStarts /\ starts' = starts + 1
        /\ life' = IF Headless THEN "up" ELSE "starting"
        /\ polling' = Headless
        /\ busy' = ~Headless /\ terminal' = ~Headless
        /\ cronOn' = Headless /\ pollers' = IF Headless THEN 1 ELSE 0
        /\ screeningBusy' = Headless
        /\ stage' = IF Headless THEN "precheck" ELSE "idle"
        /\ UNCHANGED <<mode, redelivered, sent, kinds, confirmed, offset, asking,
                       batch, queue, running, due, times, refused, unaccounted,
                       cronStarted, current, management, finalizing, liveDepth>>
    BY DEF Boot, userVars
  <1>2. /\ \A m \in Message : running[m] = "no"
        /\ batch = <<>> /\ queue = <<>> /\ ~asking /\ ~polling /\ ~due /\ offset = 0
        /\ ~cronStarted /\ ~cronOn
        /\ management = "idle" /\ ~finalizing /\ stage = "idle" /\ ~screeningBusy
        /\ liveDepth = 0
    BY <1>1, InvParts DEF Fresh
  <1>3. /\ Headless \in BOOLEAN /\ starts \in 0 .. MaxStarts /\ confirmed \in Nat
        /\ ~Headless => mode = "tty"
        /\ Headless => mode # "tty"
    BY InvParts DEF Headless, ProcessTyped, UserTyped
  <1>4. UserTyped'  BY <1>1, <1>3, InvParts DEF UserTyped
  <1>5. HandlersTyped'  BY <1>1, <1>3, InvParts DEF HandlersTyped
  <1>6. ProcessTyped'
    <2>1. starts' \in 0 .. MaxStarts  BY <1>1, <1>3, SessionConstants
    <2>2. QED  BY <1>1, <2>1, InvParts DEF ProcessTyped
  <1>7. CyclesTyped'
    BY <1>1, <1>3, InvParts DEF CyclesTyped, ScreeningTypeOK, Stages
  <1>8. CronTyped'
    BY <1>1, <1>3, InvParts DEF CronTyped
  <1>9. Fresh'
    BY <1>1, <1>2 DEF Fresh
  <1>10. Reached' = Reached  BY <1>1 DEF Reached
  <1>11. KindsKnown' /\ BatchInv' /\ QueueInv' /\ TimesInv'
    BY <1>1, <1>10, InvParts DEF KindsKnown, BatchInv, QueueInv, TimesInv
  <1>12. FirstRun'
    <2>1. starts' # 0  BY <1>1, <1>3
    <2>2. ASSUME starts' = 1, NEW m \in Message, m < Reached PROVE FALSE
      <3>1. starts = 0  BY <1>1, <1>3, <2>2
      <3>2. confirmed = 1  BY <3>1, InvParts DEF FirstRun
      <3>3. Reached = 1  BY <1>2, <3>2 DEF Reached
      <3>4. QED  BY <2>2, <3>3 DEF Message
    <2>3. QED  BY <1>10, <2>1, <2>2 DEF FirstRun
  <1>13. Upd'  BY <1>11, <1>12 DEF Upd
  <1>14. ~SomeChat'
    BY <1>1, <1>2 DEF SomeChat, IsChat
  <1>15. ChatInv'
    BY <1>1, <1>2, <1>3, <1>14 DEF ChatInv, IsChat
  <1>16. stage' \notin {"discover", "agent"}  BY <1>1
  <1>17. DepthInv'
    BY <1>1, <1>2, <1>14, <1>16 DEF DepthInv, One
  <1>18. LockAccounted'
    BY <1>1, <1>3, InvParts DEF LockAccounted, LockHasHolder, CycleAccounted
  <1>19. CronMatchesSwitch'
    BY <1>1, <1>2, <1>3 DEF CronMatchesSwitch
  <1>20. Sess'  BY <1>15, <1>17 DEF Sess
  <1>21. QED
    BY <1>4, <1>5, <1>6, <1>7, <1>8, <1>9, <1>13, <1>18, <1>19, <1>20, InvFromParts

LEMMA ShutdownStep ==
    ASSUME IInv, Shutdown
    PROVE  IInv'
  <1>1. /\ life \in {"starting", "up"} /\ life' = "stopping" /\ polling' = FALSE
        /\ StopCron /\ UNCHANGED cronStarted
        /\ UNCHANGED <<mode, starts, redelivered, userVars, offset, asking, batch, queue,
                       running, due, times, refused, busy, cycleVars, terminal,
                       management, finalizing, liveDepth>>
    BY DEF Shutdown, handlerVars
  <1>2. CronTyped' /\ CronMatchesSwitch'
    <2>1. cronStarted' \in BOOLEAN /\ life' # "up"
      BY <1>1, InvParts DEF CronTyped
    <2>2. QED  BY <1>1, <2>1, InvParts, PauseFacts
  <1>3. liveDepth' \in Int /\ busy' \in BOOLEAN
    BY <1>1, InvParts DEF CyclesTyped, HandlersTyped
  <1>4. CyclesTyped'  BY <1>1, <1>3, InvParts, CyclesFrame
  <1>5. Fresh'  BY <1>1, FreshElse
  <1>6. ChatInv' /\ DepthInv'
    BY <1>1, InvParts, SessionFrame DEF userVars, cycleVars
  <1>7. LockAccounted'  BY <1>1, InvParts, LockFrame
  <1>8. QED
    BY <1>1, <1>2, <1>3, <1>4, <1>5, <1>6, <1>7, NoUpdateFrame

\* What the next process finds: nothing but what Telegram will send again.
LEMMA DiesStep ==
    ASSUME IInv, life # "down", Dies
    PROVE  IInv'
  <1>1. /\ life' = "down"
        /\ redelivered' = redelivered \cup {m \in Message : confirmed <= m /\ m < offset}
        /\ offset' = 0 /\ polling' = FALSE /\ asking' = FALSE /\ batch' = <<>>
        /\ queue' = <<>> /\ running' = [m \in Message |-> "no"] /\ due' = FALSE
        /\ busy' = FALSE /\ terminal' = FALSE
        /\ cronStarted' = FALSE /\ cronOn' = FALSE /\ pollers' = 0 /\ current' = TRUE
        /\ screeningBusy' = FALSE /\ stage' = "idle"
        /\ management' = "idle" /\ finalizing' = FALSE /\ liveDepth' = 0
        /\ UNCHANGED <<mode, starts, sent, kinds, confirmed, times, refused, unaccounted>>
    BY DEF Dies, userVars
  <1>2. /\ confirmed \in Nat \ {0} /\ offset \in Nat
        /\ confirmed' = confirmed /\ Reached' = confirmed
    BY <1>1, InvParts, SessionConstants DEF UserTyped, Reached
  <1>3. UserTyped'
    <2>1. <<>> \in Seq(Message)  OBVIOUS
    <2>2. 0 \in 0 .. MaxMessages + 1  BY SessionConstants
    <2>3. QED  BY <1>1, <2>1, <2>2, InvParts DEF UserTyped
  <1>4. HandlersTyped'
    <2>1. running' \in Runs  BY <1>1 DEF Runs
    <2>2. Len(queue') <= QueueLimit /\ queue' \in Seq(Message)
      BY <1>1, EmptyQueue, SessionConstants
    <2>3. QED  BY <1>1, <2>1, <2>2, InvParts DEF HandlersTyped
  <1>5. ProcessTyped'  BY <1>1, InvParts DEF ProcessTyped
  <1>6. CyclesTyped'
    <2>1. unaccounted \in BOOLEAN  BY InvParts DEF CyclesTyped, ScreeningTypeOK
    <2>2. ScreeningTypeOK'  BY <1>1, <2>1 DEF ScreeningTypeOK, Stages
    <2>3. liveDepth' \in Int  BY <1>1
    <2>4. QED  BY <1>1, <2>2, <2>3 DEF CyclesTyped
  <1>7. CronTyped'  BY <1>1 DEF CronTyped
  <1>8. Fresh'  BY <1>1 DEF Fresh
  <1>9. \A i : i \notin 1 .. Len(<<>>)  BY EmptyQueue
  <1>10. KindsKnown'  BY <1>1, <1>9, InvParts DEF KindsKnown
  <1>11. BatchInv'  BY <1>1, <1>9 DEF BatchInv
  <1>12. QueueInv'  BY <1>1, <1>9, EmptyQueue DEF QueueInv
  <1>13. TimesInv'
    <2>1. SUFFICES ASSUME NEW m \in Message, m \notin redelivered'
                   PROVE  times[m] <= 1 /\ (times[m] = 1 => m < confirmed)
      BY <1>1, <1>2, EmptyQueue DEF TimesInv
    <2>2. m \notin redelivered /\ ~(confirmed <= m /\ m < offset) /\ m \in Nat
      BY <1>1, <2>1 DEF Message
    <2>3. times[m] <= 1 /\ (times[m] = 1 => m < Reached)
      BY <2>2, InvParts DEF TimesInv
    <2>4. m < Reached => m < confirmed
      BY <1>2, <2>2 DEF Reached
    <2>5. QED  BY <2>3, <2>4
  <1>14. FirstRun'  BY <1>1, InvParts DEF FirstRun
  <1>15. Upd'  BY <1>10, <1>11, <1>12, <1>13, <1>14 DEF Upd
  <1>16. \A m \in Message : running'[m] = "no"  BY <1>1
  <1>17. ChatInv' /\ ~SomeChat'
    BY <1>1, <1>16 DEF ChatInv, SomeChat, IsChat
  <1>18. DepthInv'  BY <1>1, <1>17 DEF DepthInv, One
  <1>19. Sess'  BY <1>17, <1>18 DEF Sess
  <1>20. LockAccounted'
    BY <1>1, InvParts DEF LockAccounted, LockHasHolder, CycleAccounted
  <1>21. CronMatchesSwitch'  BY <1>1 DEF CronMatchesSwitch
  <1>22. QED
    BY <1>3, <1>4, <1>5, <1>6, <1>7, <1>8, <1>15, <1>19, <1>20, <1>21, InvFromParts

\* What the terminal's actions leave alone.
LEMMA TerminalRest ==
    ASSUME IInv, TerminalFrame, UNCHANGED <<offset, asking, batch>>,
           polling' \in BOOLEAN, busy' \in BOOLEAN, terminal' \in BOOLEAN,
           life # "down", life' \in {"up", "stopping"},
           CronTyped', CronMatchesSwitch', ChatInv'
    PROVE  IInv'
  <1>1. /\ UNCHANGED <<userVars, running, queue, due, times, refused, cycleVars,
                       management, finalizing, liveDepth, mode, starts, redelivered>>
        /\ UNCHANGED <<stage, kinds>>
    BY DEF TerminalFrame, cycleVars, userVars
  <1>2. CyclesTyped'
    BY <1>1, InvParts DEF CyclesTyped, ScreeningTypeOK, cycleVars
  <1>3. SomeChat' <=> SomeChat  BY <1>1 DEF SomeChat, IsChat
  <1>4. DepthInv'  BY <1>1, <1>3, InvParts DEF DepthInv, One
  <1>5. LockAccounted'  BY <1>1, InvParts, LockFrame
  <1>6. Fresh'  BY FreshElse
  <1>7. QED  BY <1>1, <1>2, <1>4, <1>5, <1>6, NoUpdateFrame

LEMMA StartupDoneStep ==
    ASSUME IInv, StartupDone
    PROVE  IInv'
  <1>1. /\ life = "starting" /\ life' = "up" /\ busy' = FALSE /\ terminal' = FALSE
        /\ LaunchCron /\ polling' = TRUE
        /\ UNCHANGED <<offset, asking, batch, running, kinds>> /\ TerminalFrame
    BY DEF StartupDone, TerminalFrame, userVars
  <1>2. ~cronStarted /\ \A m \in Message : running[m] = "no"
    BY <1>1, InvParts DEF Fresh
  <1>3. cronStarted' = TRUE /\ cronOn' = TRUE /\ pollers' = 1 /\ current' = TRUE
    BY <1>1, <1>2, InvParts, StartCronFacts DEF LaunchCron
  <1>4. CronTyped' /\ CronMatchesSwitch'
    BY <1>3 DEF CronTyped, CronMatchesSwitch
  <1>5. ChatInv'
    BY <1>1, <1>2 DEF ChatInv, SomeChat, IsChat
  <1>6. QED  BY <1>1, <1>4, <1>5, TerminalRest

LEMMA TerminalStartsStep ==
    ASSUME IInv, TerminalStarts
    PROVE  IInv'
  <1>1. /\ life = "up" /\ life' = life /\ ~busy /\ busy' = TRUE /\ terminal' = TRUE
        /\ UNCHANGED <<offset, polling, asking, batch, running, kinds, cronVars, mode>>
        /\ TerminalFrame
    BY DEF TerminalStarts, TerminalFrame, userVars, pollVars
  <1>2. CronTyped' /\ CronMatchesSwitch' /\ polling' \in BOOLEAN
    BY <1>1, InvParts, CronTypedFrame, CronFrame DEF UserTyped
  <1>3. ChatInv'
    BY <1>1, InvParts DEF ChatInv, SomeChat, IsChat
  <1>4. QED  BY <1>1, <1>2, <1>3, TerminalRest

LEMMA TerminalEndsStep ==
    ASSUME IInv, TerminalEnds
    PROVE  IInv'
  <1>1. /\ life # "down" /\ life # "starting" /\ life' = life /\ terminal
        /\ busy' = FALSE /\ terminal' = FALSE
        /\ LaunchCron \/ UNCHANGED cronVars
        /\ UNCHANGED <<offset, polling, asking, batch, running, kinds, mode>>
        /\ TerminalFrame
    BY DEF TerminalEnds, TerminalFrame, userVars, pollVars, Quiet
  <1>2. CronTyped' /\ CronMatchesSwitch'
    <2>1. CASE LaunchCron  BY <1>1, <2>1, InvParts, LaunchFacts
    <2>2. CASE UNCHANGED cronVars
      BY <1>1, <2>2, InvParts, CronTypedFrame, CronFrame
    <2>3. QED  BY <1>1, <2>1, <2>2
  <1>3. polling' \in BOOLEAN /\ life' \in {"up", "stopping"}
    BY <1>1, InvParts DEF UserTyped, ProcessTyped
  <1>4. ChatInv'
    BY <1>1, InvParts DEF ChatInv, SomeChat, IsChat
  <1>5. QED  BY <1>1, <1>2, <1>3, <1>4, TerminalRest

LEMMA TerminalLaunchesStep ==
    ASSUME IInv, TerminalLaunches
    PROVE  IInv'
  <1>1. /\ life = "up" /\ LaunchCron
        /\ UNCHANGED <<offset, polling, asking, batch, running, kinds, mode, life, busy,
                       terminal>>
        /\ TerminalFrame
    BY DEF TerminalLaunches, TerminalFrame, userVars, pollVars
  <1>2. CronTyped' /\ CronMatchesSwitch'
    BY <1>1, InvParts, LaunchFacts
  <1>3. /\ polling' \in BOOLEAN /\ busy' \in BOOLEAN /\ terminal' \in BOOLEAN
        /\ life' \in {"up", "stopping"}
    BY <1>1, InvParts DEF UserTyped, HandlersTyped, CyclesTyped
  <1>4. ChatInv'  BY <1>1, InvParts, ChatFrame
  <1>5. QED  BY <1>1, <1>2, <1>3, <1>4, TerminalRest

LEMMA ChangesIntervalStep ==
    ASSUME IInv, ChangesInterval
    PROVE  IInv'
  <1>1. /\ life # "down" /\ CronRestarter
        /\ \/ life # "starting"
           \/ \E m \in Message : running[m] # "no"
        /\ UNCHANGED <<offset, polling, asking, batch, running, kinds, mode, life, busy,
                       terminal>>
        /\ TerminalFrame
    BY DEF ChangesInterval, TerminalFrame, userVars, pollVars, Quiet, Handled
  <1>2. CronTyped' /\ CronMatchesSwitch'
    BY <1>1, InvParts, RestarterFacts
  <1>3. life # "starting"  BY <1>1, InvParts, Awake
  <1>4. /\ polling' \in BOOLEAN /\ busy' \in BOOLEAN /\ terminal' \in BOOLEAN
        /\ life' \in {"up", "stopping"}
    BY <1>1, <1>3, InvParts DEF UserTyped, HandlersTyped, CyclesTyped, ProcessTyped
  <1>5. ChatInv'  BY <1>1, InvParts, ChatFrame
  <1>6. QED  BY <1>1, <1>2, <1>4, <1>5, TerminalRest

-----------------------------------------------------------------------------
(* The cycles *)

\* What a cycle's step leaves alone.
LEMMA CycleRest ==
    ASSUME IInv, CycleFrame, life # "down", life # "starting",
           CyclesTyped', DepthInv', LockAccounted'
    PROVE  IInv'
  <1>1. UNCHANGED <<userVars, polling, offset, asking, batch, queue, running, due, times,
                    refused, busy, cronVars, mode, life, starts, redelivered, terminal,
                    kinds>>
    BY DEF CycleFrame, userVars, pollVars, handlerVars, processVars
  <1>2. CronTyped' /\ CronMatchesSwitch'
    BY <1>1, InvParts, CronTypedFrame, CronFrame
  <1>3. ChatInv'  BY <1>1, InvParts, ChatFrame
  <1>4. Fresh'  BY <1>1, FreshElse
  <1>5. /\ polling' \in BOOLEAN /\ busy' \in BOOLEAN
        /\ life' \in {"starting", "up", "stopping", "down"}
    BY <1>1, InvParts DEF UserTyped, HandlersTyped, ProcessTyped
  <1>6. QED  BY <1>1, <1>2, <1>3, <1>4, <1>5, NoUpdateFrame

\* The management cycle and the reports: the screening cycle stands still.
LEMMA ManagementRest ==
    ASSUME IInv, CycleFrame, UNCHANGED cycleVars, life # "down", life # "starting",
           management' \in {"idle", "silent", "live"}, finalizing' \in BOOLEAN,
           liveDepth' = liveDepth + One(finalizing') - One(finalizing)
                        + One(management' = "live") - One(management = "live")
    PROVE  IInv'
  <1>1. UNCHANGED <<kinds, running, terminal, stage, screeningBusy, unaccounted>>
    BY DEF CycleFrame, userVars, handlerVars, cycleVars
  <1>2. SomeChat' <=> SomeChat  BY <1>1 DEF SomeChat, IsChat
  <1>3. DepthInv'
    BY <1>1, <1>2, InvParts DEF DepthInv, One
  <1>4. CyclesTyped'
    BY <1>1, <1>3, InvParts, DepthIsInt DEF CyclesTyped, ScreeningTypeOK
  <1>5. LockAccounted'  BY InvParts, LockFrame
  <1>6. QED  BY <1>3, <1>4, <1>5, CycleRest

LEMMA CronManagesStep ==
    ASSUME IInv, CronManages
    PROVE  IInv'
  <1>1. /\ Quiet /\ cronOn /\ management = "idle" /\ management' = "live"
        /\ liveDepth' = liveDepth + 1 /\ UNCHANGED <<cycleVars, finalizing>> /\ CycleFrame
    BY DEF CronManages
  <1>2. life # "down" /\ life # "starting"  BY <1>1, InvParts, Awake
  <1>3. finalizing' \in BOOLEAN /\ liveDepth \in Int
    BY <1>1, InvParts DEF CyclesTyped
  <1>4. liveDepth' = liveDepth + One(finalizing') - One(finalizing)
                     + One(management' = "live") - One(management = "live")
    BY <1>1, <1>3 DEF One
  <1>5. QED  BY <1>1, <1>2, <1>3, <1>4, ManagementRest

LEMMA SilentManagesStep ==
    ASSUME IInv, SilentManages
    PROVE  IInv'
  <1>1. /\ Quiet /\ life # "starting" /\ management = "idle" /\ management' = "silent"
        /\ UNCHANGED <<cycleVars, finalizing, liveDepth>> /\ CycleFrame
    BY DEF SilentManages
  <1>2. finalizing' \in BOOLEAN /\ liveDepth \in Int
    BY <1>1, InvParts DEF CyclesTyped
  <1>3. liveDepth' = liveDepth + One(finalizing') - One(finalizing)
                     + One(management' = "live") - One(management = "live")
    BY <1>1, <1>2 DEF One
  <1>4. QED  BY <1>1, <1>2, <1>3, ManagementRest DEF Quiet

LEMMA ManagementEndsStep ==
    ASSUME IInv, ManagementEnds
    PROVE  IInv'
  <1>1. /\ Quiet /\ management # "idle" /\ ~finalizing
        /\ management' = "idle" /\ finalizing' = (management = "live")
        /\ UNCHANGED <<cycleVars, liveDepth>> /\ CycleFrame
    BY DEF ManagementEnds
  <1>2. life # "down" /\ life # "starting"  BY <1>1, InvParts, Awake
  <1>3. finalizing' \in BOOLEAN /\ liveDepth \in Int
    BY <1>1, InvParts DEF CyclesTyped
  <1>4. liveDepth' = liveDepth + One(finalizing') - One(finalizing)
                     + One(management' = "live") - One(management = "live")
    <2>1. CASE management = "live"
      <3>1. finalizing'  BY <1>1, <2>1
      <3>2. QED  BY <1>1, <1>3, <2>1, <3>1 DEF One
    <2>2. CASE management # "live"
      <3>1. ~finalizing'  BY <1>1, <2>2
      <3>2. QED  BY <1>1, <1>3, <2>2, <3>1 DEF One
    <2>3. QED  BY <2>1, <2>2
  <1>5. QED  BY <1>1, <1>2, <1>3, <1>4, ManagementRest

LEMMA FinalizesStep ==
    ASSUME IInv, Finalizes
    PROVE  IInv'
  <1>1. /\ Quiet /\ finalizing /\ finalizing' = FALSE /\ liveDepth' = liveDepth - 1
        /\ UNCHANGED <<cycleVars, management>> /\ CycleFrame
    BY DEF Finalizes
  <1>2. life # "down" /\ life # "starting"  BY <1>1, InvParts, Awake
  <1>3. management' \in {"idle", "silent", "live"} /\ liveDepth \in Int
    BY <1>1, InvParts DEF CyclesTyped
  <1>4. liveDepth' = liveDepth + One(finalizing') - One(finalizing)
                     + One(management' = "live") - One(management = "live")
    BY <1>1, <1>3 DEF One
  <1>5. QED  BY <1>1, <1>2, <1>3, <1>4, ManagementRest

\* The screening cycle's steps: management stands still.
InAgent == stage \in {"discover", "agent"}

LEMMA ScreeningRest ==
    ASSUME IInv, CycleFrame, UNCHANGED management, life # "down", life # "starting",
           stage' \in Stages, screeningBusy' \in BOOLEAN, unaccounted' = FALSE,
           screeningBusy' = (stage' # "idle"), finalizing' \in BOOLEAN,
           liveDepth' = liveDepth + One(finalizing') - One(finalizing)
                        + One(InAgent') - One(InAgent)
    PROVE  IInv'
  <1>1. UNCHANGED <<kinds, running, terminal>>
    BY DEF CycleFrame, userVars, handlerVars
  <1>2. SomeChat' <=> SomeChat  BY <1>1 DEF SomeChat, IsChat
  <1>3. DepthInv'
    BY <1>1, <1>2, InvParts DEF DepthInv, One, InAgent
  <1>4. CyclesTyped'
    BY <1>1, <1>3, InvParts, DepthIsInt DEF CyclesTyped, ScreeningTypeOK
  <1>5. LockAccounted'
    BY DEF LockAccounted, LockHasHolder, CycleAccounted
  <1>6. QED  BY <1>3, <1>4, <1>5, CycleRest

LEMMA ScreeningStartsStep ==
    ASSUME IInv, ScreeningStarts
    PROVE  IInv'
  <1>1. /\ Quiet /\ (cronOn \/ management \in {"silent", "live"})
        /\ ~screeningBusy /\ screeningBusy' = TRUE /\ stage' = "precheck"
        /\ UNCHANGED <<unaccounted, management, finalizing, liveDepth>> /\ CycleFrame
    BY DEF ScreeningStarts, StartScreening
  <1>2. life # "down" /\ life # "starting"  BY <1>1, InvParts, Awake
  <1>3. /\ ~unaccounted /\ unaccounted \in BOOLEAN
        /\ stage = "idle" /\ finalizing \in BOOLEAN /\ liveDepth \in Int
    BY <1>1, InvParts
       DEF LockAccounted, LockHasHolder, CycleAccounted, CyclesTyped, ScreeningTypeOK
  <1>4. liveDepth' = liveDepth + One(finalizing') - One(finalizing)
                     + One(InAgent') - One(InAgent)
    BY <1>1, <1>3 DEF One, InAgent
  <1>5. stage' \in Stages /\ unaccounted' = FALSE /\ screeningBusy' = (stage' # "idle")
    BY <1>1, <1>3 DEF Stages
  <1>6. QED  BY <1>1, <1>2, <1>3, <1>4, <1>5, ScreeningRest

\* A cycle that ends leaves one line, or none after a deploy it noted.
LEMMA ReleaseFacts ==
    ASSUME IInv, NEW lines, NEW noted, Release(lines, noted),
           lines = 1 \/ (lines = 0 /\ noted)
    PROVE  screeningBusy' = FALSE /\ stage' = "idle" /\ unaccounted' = FALSE
  BY InvParts DEF Release, LockAccounted, CycleAccounted, CyclesTyped, ScreeningTypeOK

LEMMA ScreeningStepStep ==
    ASSUME IInv, ScreeningStep
    PROVE  IInv'
  <1>1. Quiet /\ UNCHANGED management /\ CycleFrame  BY DEF ScreeningStep
  <1>2. /\ ~unaccounted /\ (screeningBusy <=> stage # "idle") /\ screeningBusy \in BOOLEAN
        /\ finalizing \in BOOLEAN /\ liveDepth \in Int /\ unaccounted \in BOOLEAN
    BY InvParts
       DEF LockAccounted, LockHasHolder, CycleAccounted, CyclesTyped, ScreeningTypeOK
  <1>3. CASE PrecheckPasses /\ liveDepth' = liveDepth + 1 /\ UNCHANGED finalizing
    <2>1. /\ stage = "precheck" /\ stage' = "discover"
          /\ UNCHANGED <<screeningBusy, unaccounted>>
      BY <1>3 DEF PrecheckPasses
    <2>2. life # "down" /\ life # "starting"  BY <2>1, InvParts, Awake
    <2>3. liveDepth' = liveDepth + One(finalizing') - One(finalizing)
                       + One(InAgent') - One(InAgent)
      BY <1>2, <1>3, <2>1 DEF One, InAgent
    <2>4. stage' \in Stages /\ unaccounted' = FALSE /\ screeningBusy' = (stage' # "idle")
      BY <1>2, <2>1 DEF Stages
    <2>5. QED  BY <1>1, <1>2, <1>3, <2>1, <2>2, <2>3, <2>4, ScreeningRest
  <1>4. CASE PrecheckStops /\ UNCHANGED <<liveDepth, finalizing>>
    <2>1. stage = "precheck"  BY <1>4 DEF PrecheckStops
    <2>2. life # "down" /\ life # "starting"  BY <2>1, InvParts, Awake
    <2>3. CASE \E no \in {FALSE} : Release(1, no)
      <3>1. screeningBusy' = FALSE /\ stage' = "idle" /\ unaccounted' = FALSE
        BY <2>3, ReleaseFacts
      <3>2. liveDepth' = liveDepth + One(finalizing') - One(finalizing)
                         + One(InAgent') - One(InAgent)
        BY <1>2, <1>4, <2>1, <3>1 DEF One, InAgent
      <3>3. stage' \in Stages /\ screeningBusy' = (stage' # "idle")
        BY <3>1 DEF Stages
      <3>4. QED  BY <1>1, <1>2, <1>4, <2>2, <3>1, <3>2, <3>3, ScreeningRest
    <2>4. CASE stage' = "stuck" /\ UNCHANGED <<screeningBusy, unaccounted>>
      <3>1. liveDepth' = liveDepth + One(finalizing') - One(finalizing)
                         + One(InAgent') - One(InAgent)
        BY <1>2, <1>4, <2>1, <2>4 DEF One, InAgent
      <3>2. stage' \in Stages /\ unaccounted' = FALSE /\ screeningBusy' = (stage' # "idle")
        BY <1>2, <2>1, <2>4 DEF Stages
      <3>3. QED  BY <1>1, <1>2, <1>4, <2>2, <2>4, <3>1, <3>2, ScreeningRest
    <2>5. QED  BY <1>4, <2>3, <2>4 DEF PrecheckStops
  <1>5. CASE AsksModel /\ UNCHANGED <<liveDepth, finalizing>>
    <2>1. /\ stage = "discover" /\ stage' = "agent"
          /\ UNCHANGED <<screeningBusy, unaccounted>>
      BY <1>5 DEF AsksModel
    <2>2. life # "down" /\ life # "starting"  BY <2>1, InvParts, Awake
    <2>3. liveDepth' = liveDepth + One(finalizing') - One(finalizing)
                       + One(InAgent') - One(InAgent)
      BY <1>2, <1>5, <2>1 DEF One, InAgent
    <2>4. stage' \in Stages /\ unaccounted' = FALSE /\ screeningBusy' = (stage' # "idle")
      BY <1>2, <2>1 DEF Stages
    <2>5. QED  BY <1>1, <1>2, <1>5, <2>1, <2>2, <2>3, <2>4, ScreeningRest
  <1>6. CASE /\ NoEntry \/ SessionEnds \/ ScreeningThrows
             /\ ~finalizing /\ finalizing' = TRUE /\ UNCHANGED liveDepth
    <2>1. InAgent  BY <1>6 DEF NoEntry, SessionEnds, ScreeningThrows, InAgent
    <2>2. life # "down" /\ life # "starting"
      BY <2>1, InvParts, Awake DEF InAgent
    <2>3. \E lines \in {0, 1}, noted \in BOOLEAN :
              Release(lines, noted) /\ (lines = 1 \/ (lines = 0 /\ noted))
      <3>1. CASE Release(1, FALSE)
        BY <3>1
      <3>2. CASE SessionEnds
        <4>1. PICK noDeploy \in BOOLEAN, noted \in BOOLEAN :
                  Release(IF noDeploy \/ ~noted THEN 1 ELSE 0, noted)
          BY <3>2 DEF SessionEnds
        <4>2. CASE noDeploy \/ ~noted
          BY <4>1, <4>2
        <4>3. CASE ~(noDeploy \/ ~noted)
          BY <4>1, <4>3
        <4>4. QED  BY <4>2, <4>3
      <3>3. QED  BY <1>6, <3>1, <3>2 DEF NoEntry, ScreeningThrows
    <2>4. screeningBusy' = FALSE /\ stage' = "idle" /\ unaccounted' = FALSE
      BY <2>3, ReleaseFacts
    <2>5. ~InAgent'  BY <2>4 DEF InAgent
    <2>6. liveDepth' = liveDepth + One(finalizing') - One(finalizing)
                       + One(InAgent') - One(InAgent)
      BY <1>2, <1>6, <2>1, <2>5 DEF One
    <2>7. stage' \in Stages /\ screeningBusy' = (stage' # "idle") /\ finalizing' \in BOOLEAN
      BY <1>6, <2>4 DEF Stages
    <2>8. QED  BY <1>1, <1>6, <2>2, <2>4, <2>6, <2>7, ScreeningRest
  <1>7. QED  BY <1>3, <1>4, <1>5, <1>6 DEF ScreeningStep

-----------------------------------------------------------------------------
(* The invariant *)

LEMMA InvInit == ASSUME Init PROVE IInv
  <1>1. /\ mode \in {"tty", "headless"} /\ life = "down" /\ starts = 0
        /\ sent = 0 /\ kinds = <<>> /\ confirmed = 1
        /\ times = [m \in Message |-> 0] /\ refused = {} /\ redelivered = {}
        /\ offset = 0 /\ polling = FALSE /\ asking = FALSE /\ batch = <<>>
        /\ queue = <<>> /\ running = [m \in Message |-> "no"] /\ due = FALSE
        /\ busy = FALSE /\ terminal = FALSE
        /\ cronStarted = FALSE /\ cronOn = FALSE /\ pollers = 0 /\ current = TRUE
        /\ screeningBusy = FALSE /\ stage = "idle" /\ unaccounted = FALSE
        /\ management = "idle" /\ finalizing = FALSE /\ liveDepth = 0
    BY DEF Init
  <1>2. TypeOK
    <2>1. kinds \in Seq(Kinds) /\ batch \in Seq(Message) /\ queue \in Seq(Message)
      BY <1>1
    <2>2. running \in [Message -> {"no", "poll", "drain"}] /\ times \in [Message -> Nat]
      BY <1>1
    <2>3. Len(queue) <= QueueLimit  BY <1>1, EmptyQueue, SessionConstants
    <2>4. /\ starts \in 0 .. MaxStarts /\ sent \in 0 .. MaxMessages
          /\ confirmed \in 1 .. MaxMessages + 1 /\ offset \in 0 .. MaxMessages + 1
      BY <1>1, SessionConstants
    <2>5. ScreeningTypeOK  BY <1>1 DEF ScreeningTypeOK, Stages
    <2>6. /\ mode \in {"tty", "headless"} /\ life \in {"starting", "up", "stopping", "down"}
          /\ polling \in BOOLEAN /\ asking \in BOOLEAN /\ due \in BOOLEAN
          /\ refused \subseteq Message /\ redelivered \subseteq Message
          /\ busy \in BOOLEAN /\ terminal \in BOOLEAN
          /\ cronStarted \in BOOLEAN /\ cronOn \in BOOLEAN /\ current \in BOOLEAN
          /\ management \in {"idle", "silent", "live"} /\ finalizing \in BOOLEAN
      BY <1>1
    <2>7. pollers \in Nat /\ liveDepth \in Int  BY <1>1
    <2>8. QED  BY <2>1, <2>2, <2>3, <2>4, <2>5, <2>6, <2>7 DEF TypeOK
  <1>3. \A m \in Message : running[m] = "no"  BY <1>1
  <1>4. Fresh  BY <1>1, <1>3 DEF Fresh
  <1>5. \A i : i \notin 1 .. Len(<<>>)  BY EmptyQueue
  <1>6. KindsKnown  BY <1>1, <1>3, <1>5, EmptySeq DEF KindsKnown
  <1>7. ChatInv /\ ~SomeChat  BY <1>1, <1>3 DEF ChatInv, SomeChat, IsChat
  <1>8. DepthInv  BY <1>1, <1>7 DEF DepthInv, One
  <1>9. BatchInv /\ QueueInv  BY <1>1, <1>5, EmptyQueue DEF BatchInv, QueueInv
  <1>10. TimesInv /\ FirstRun  BY <1>1 DEF TimesInv, FirstRun
  <1>11. LockAccounted /\ CronMatchesSwitch
    BY <1>1 DEF LockAccounted, LockHasHolder, CycleAccounted, CronMatchesSwitch
  <1>12. QED
    BY <1>2, <1>4, <1>6, <1>7, <1>8, <1>9, <1>10, <1>11 DEF IInv

LEMMA StutterStep == ASSUME IInv, UNCHANGED vars PROVE IInv'
  <1>1. UNCHANGED <<userVars, pollVars, handlerVars, cronVars, processVars, cycleVars,
                    terminal, management, finalizing, liveDepth>>
    BY DEF vars
  <1>2. UNCHANGED <<kinds, offset, polling, asking, batch, queue, running, due, times,
                    refused, busy, mode, life, starts, redelivered, stage, screeningBusy,
                    cronStarted, cronOn>>
    BY <1>1 DEF userVars, pollVars, handlerVars, processVars, cycleVars, cronVars
  <1>3. liveDepth' \in Int  BY <1>1, InvParts DEF CyclesTyped
  <1>4. UserTyped' /\ HandlersTyped' /\ ProcessTyped' /\ CyclesTyped' /\ CronTyped'
    BY <1>1, <1>3, InvParts, UserFrame, HandlersFrame, ProcessFrame, CyclesFrame,
       CronTypedFrame
  <1>5. Fresh'  BY <1>1, <1>2, InvParts DEF Fresh
  <1>6. Upd'  BY <1>1, <1>2, InvParts, UpdatesFrame DEF Upd
  <1>7. Sess'  BY <1>1, <1>2, InvParts, SessionFrame DEF Sess
  <1>8. LockAccounted' /\ CronMatchesSwitch'
    BY <1>1, <1>2, InvParts, LockFrame, CronFrame
  <1>9. QED  BY <1>4, <1>5, <1>6, <1>7, <1>8, InvFromParts

LEMMA StepInv == ASSUME IInv, [Next]_vars PROVE IInv'
  <1>1. ASSUME NEW m \in Message, ChatEnds(m) \/ CommandEnds(m) PROVE IInv'
    BY <1>1, ChatEndsStep, CommandEndsStep
  <1>2. CASE DrainContinues  BY <1>2, DrainContinuesStep
  <1>3. CASE UserSends  BY <1>3, UserSendsStep
  <1>4. CASE Poll  BY <1>4, PollStep
  <1>5. CASE Terminal
    BY <1>5, StartupDoneStep, TerminalStartsStep, TerminalEndsStep, TerminalLaunchesStep
       DEF Terminal
  <1>6. CASE ChangesInterval  BY <1>6, ChangesIntervalStep
  <1>7. CASE Cycles
    BY <1>7, CronManagesStep, SilentManagesStep, ManagementEndsStep, ScreeningStartsStep,
       ScreeningStepStep, FinalizesStep DEF Cycles
  <1>8. CASE Boot  BY <1>8, BootStep
  <1>9. CASE Shutdown  BY <1>9, ShutdownStep
  <1>10. CASE Exits \/ Killed
    BY <1>10, DiesStep DEF Exits, Killed
  <1>11. CASE UNCHANGED vars  BY <1>11, StutterStep
  <1>12. QED
    BY <1>1, <1>2, <1>3, <1>4, <1>5, <1>6, <1>7, <1>8, <1>9, <1>10, <1>11 DEF Next

\* Whatever happens, in any number of processes.
THEOREM InvHolds == Spec => []IInv
  BY InvInit, StepInv, PTL DEF Spec

\* Every variable keeps its type: the queue, the batch and the offset stay
\* within their bounds.
THEOREM TypeCorrect == Spec => []TypeOK
  <1>1. IInv => TypeOK  BY DEF IInv
  <1>2. QED  BY <1>1, InvHolds, PTL

LEMMA ChatsCounted ==
    ASSUME ChatInv
    PROVE  /\ Cardinality(Chats) = One(SomeChat)
           /\ Chats # {} <=> SomeChat
  <1>1. \A m \in Message : m \in Chats <=> IsChat(m)
    BY DEF Chats, IsChat, Handled
  <1>2. CASE SomeChat
    <2>1. PICK m \in Message : IsChat(m)  BY <1>2 DEF SomeChat
    <2>2. Chats = {m}  BY <1>1, <2>1 DEF ChatInv, Chats
    <2>3. Cardinality({m}) = 1  BY FS_Singleton
    <2>4. QED  BY <1>2, <2>2, <2>3 DEF One
  <1>3. CASE ~SomeChat
    <2>1. Chats = {}  BY <1>1, <1>3 DEF SomeChat, Chats
    <2>2. QED  BY <1>3, <2>1, FS_EmptySet DEF One
  <1>4. QED  BY <1>2, <1>3

\* At most one chat or terminal command holds `busy', which says whether one
\* does, and _liveMessageDepth counts exactly the live messages that are open.
THEOREM SessionsStayCounted == Spec => []SessionsCounted
  <1>1. ASSUME IInv PROVE SessionsCounted
    <2>1. OneSession
      <3>1. Cardinality(Chats) + One(terminal) <= 1
        BY InvParts, <1>1, ChatsCounted DEF ChatInv, One
      <3>2. busy = (terminal \/ Chats # {})
        <4>1. busy \in BOOLEAN  BY <1>1, InvParts DEF HandlersTyped
        <4>2. busy <=> terminal \/ Chats # {}
          BY InvParts, <1>1, ChatsCounted DEF ChatInv
        <4>3. QED  BY <4>1, <4>2
      <3>3. QED  BY <3>1, <3>2 DEF OneSession, One
    <2>2. LiveMessagesCounted
      <3>1. liveDepth = Cardinality(Chats) + One(finalizing) + One(management = "live")
                        + One(stage \in {"discover", "agent"})
        BY InvParts, <1>1, ChatsCounted DEF DepthInv
      <3>2. QED  BY <3>1 DEF LiveMessagesCounted, One
    <2>3. QED  BY <2>1, <2>2 DEF SessionsCounted
  <1>2. QED  BY <1>1, InvHolds, PTL

\* An update that Telegram will not send again was refused, handled, or waits
\* in the queue, and none is handled twice unless a restart brought it again.
THEOREM UpdatesStayAccounted == Spec => []UpdatesAccounted
  <1>1. ASSUME IInv PROVE UpdatesAccounted
    <2>1. SUFFICES ASSUME NEW m \in Message
                   PROVE  /\ m < confirmed /\ starts = 1 /\ life # "down" =>
                                \/ m \in refused \/ times[m] > 0
                                \/ \E i \in DOMAIN queue : queue[i] = m
                          /\ times[m] > 1 => m \in redelivered
      BY DEF UpdatesAccounted
    <2>2. /\ confirmed \in Nat /\ offset \in Nat /\ m \in Nat /\ times[m] \in Nat
          /\ DOMAIN queue = 1 .. Len(queue)
      BY <1>1, InvParts DEF UserTyped, HandlersTyped, Message
    <2>3. m < confirmed => m < Reached
      BY <2>2 DEF Reached
    <2>4. m < confirmed /\ starts = 1 /\ life # "down" =>
             m \in refused \/ times[m] > 0 \/ InQ(queue, m)
      BY <1>1, <2>3, InvParts DEF FirstRun
    <2>5. times[m] > 1 => m \in redelivered
      BY <1>1, <2>2, InvParts DEF TimesInv
    <2>6. QED  BY <2>2, <2>4, <2>5 DEF InQ
  <1>2. QED  BY <1>1, InvHolds, PTL

\* _screeningBusy is set exactly while a cycle holds it, and a cycle that gives
\* it back has left one line in the ledger, or noted a deploy.
THEOREM LockStaysAccounted == Spec => []LockAccounted
  <1>1. IInv => LockAccounted  BY DEF IInv
  <1>2. QED  BY <1>1, InvHolds, PTL

\* Through /pause, /resume, changed intervals and restarts: one poller per set
\* of running jobs, no jobs in a paused process, and launched jobs that run at
\* the configured intervals.
THEOREM CronFollowsSwitch == Spec => []CronMatchesSwitch
  <1>1. IInv => CronMatchesSwitch  BY DEF IInv
  <1>2. QED  BY <1>1, InvHolds, PTL
=============================================================================
