---------------------------- MODULE CommandsProofs ----------------------------
(***************************************************************************)
(* Proofs about Commands, for any times, budgets, inputs and nodes: the    *)
(* waiter is under a timer, ends within its budget and reports what was    *)
(* done; a node tells every outcome and goes on for the newest input; a    *)
(* slot holds what waits, and a photo has a number of its own; and for any *)
(* heights, tables and records of modes, names and numbers: a command that *)
(* is confirmed was done, and a mode by name is the one that is entered.   *)
(***************************************************************************)
EXTENDS Commands, Sequences, FiniteSetTheorems, WellFoundedInduction, TLAPS

-----------------------------------------------------------------------------
(* The waiter: its invariant *)

\* What W!TypeOK says, but for how often the vehicle carries the command out.
WaiterTyped ==
  /\ noAutoRetry \in BOOLEAN /\ linkRepeats \in BOOLEAN
  /\ started \in BOOLEAN /\ heard \in BOOLEAN /\ busy \in BOOLEAN /\ inWork \in BOOLEAN
  /\ outcome \in W!Results \cup {"none", "timeout", "send_failed", "cancelled"}
  /\ retries \in 0..MaxRetries
  /\ deadline \in Nat \cup {W!Unarmed} /\ retryAt \in Nat \cup {W!Unarmed}
  /\ now \in Nat
  /\ up \subseteq 0..MaxRetries /\ down \subseteq W!Acks
  /\ executed \in Nat

\* Before start() nothing is armed, on its way or done.
NothingBeforeStart ==
  ~started => /\ outcome = "none" /\ ~heard /\ deadline = W!Unarmed /\ retryAt = W!Unarmed
              /\ now = 0 /\ retries = 0 /\ up = {} /\ executed = 0

\* How long a wait with n re-sends behind it can have lasted when its window closes.
Budget(n) == TimeoutMs * W!IN_PROGRESS_CEILING + n * (RetryInterval + TimeoutMs)

\* No timer is overdue, and none lies beyond the budget of the re-sends so far;
\* a back-off only runs while a re-send is left and what was sent is answered.
TimersAreBounded ==
  /\ deadline # W!Unarmed => now <= deadline /\ deadline <= Budget(retries)
  /\ retryAt # W!Unarmed =>
       /\ now <= retryAt /\ retryAt <= Budget(retries) + RetryInterval
       /\ heard /\ retries < MaxRetries

\* What says the command was begun says so truly: an acceptance or a progress
\* report addressed to us, a busy vehicle, a window renewed by progress, and
\* an acceptance or a silence reported.
BegunIsTrue ==
  /\ \A ack \in down : ack.addressed = W!Ours /\ ack.result \in {"accepted", "in_progress"} => executed > 0
  /\ \A ack \in down : ack.addressed # W!Ours => ack.result = "accepted"
  /\ busy => executed > 0
  /\ W!Waiting /\ heard /\ deadline # W!Unarmed => executed > 0
  /\ outcome = "accepted" => executed > 0
  /\ outcome = "timeout" => noAutoRetry \/ retries = MaxRetries \/ executed > 0

\* Every execution had a transmission of its own.
TransmissionsAreCounted ==
  executed + Cardinality(up) <= IF started THEN retries + 1 ELSE 0

Rejection == [result |-> "temporarily_rejected", addressed |-> W!Ours]

\* A command that may not be repeated is at one place at a time: not yet sent, on
\* its way, rejected, backing off, or done.
ThereIsOneCommand ==
  noAutoRetry /\ ~linkRepeats =>
    (IF started THEN 0 ELSE 1) + Cardinality(up) + (IF Rejection \in down THEN 1 ELSE 0)
      + (IF retryAt # W!Unarmed THEN 1 ELSE 0) + executed <= 1

WaiterInv ==
  /\ WaiterTyped /\ NothingBeforeStart /\ W!WaitingIsTimed /\ TimersAreBounded /\ W!WaitIsBounded
  /\ BegunIsTrue /\ TransmissionsAreCounted /\ ThereIsOneCommand

-----------------------------------------------------------------------------
(* The waiter: its steps *)

\* A re-send adds a back-off and a window to the budget, which is W!LongestWait
\* when none is left.
LEMMA BudgetGrows ==
  ASSUME W!TimesAssumption
  PROVE  /\ \A n \in Nat : /\ Budget(n) \in Nat /\ TimeoutMs * W!IN_PROGRESS_CEILING <= Budget(n)
                           /\ Budget(n + 1) = Budget(n) + RetryInterval + TimeoutMs
         /\ \A n, m \in Nat : n <= m => Budget(n) <= Budget(m)
         /\ TimeoutMs * W!IN_PROGRESS_CEILING \in Nat /\ TimeoutMs <= TimeoutMs * W!IN_PROGRESS_CEILING
         /\ Budget(0) = TimeoutMs * W!IN_PROGRESS_CEILING
         /\ Budget(MaxRetries) = W!LongestWait
<1> DEFINE k == RetryInterval + TimeoutMs
           c == TimeoutMs * W!IN_PROGRESS_CEILING
<1>1. k \in Nat /\ c \in Nat /\ TimeoutMs <= c /\ k = RetryInterval + TimeoutMs /\ TimeoutMs \in Nat /\ RetryInterval \in Nat
  BY DEF W!TimesAssumption, W!IN_PROGRESS_CEILING
<1>2. \A n : Budget(n) = c + n * k
  BY DEF Budget
<1>3. Budget(MaxRetries) = W!LongestWait
  BY DEF Budget, W!LongestWait
<1> HIDE DEF k, c
<1>4. \A n \in Nat : n * k \in Nat /\ (n + 1) * k = n * k + k
  BY <1>1
<1>5. \A n, m \in Nat : n <= m => n * k <= m * k
  BY <1>1
<1>6. 0 * k = 0
  BY <1>1
<1>7. \A n \in Nat : Budget(n) \in Nat /\ c <= Budget(n) /\ Budget(n + 1) = Budget(n) + RetryInterval + TimeoutMs
  BY <1>1, <1>2, <1>4
<1>8. \A n, m \in Nat : n <= m => Budget(n) <= Budget(m)
  BY <1>1, <1>2, <1>4, <1>5
<1>9. Budget(0) = c
  BY <1>1, <1>2, <1>6
<1> QED BY <1>1, <1>3, <1>7, <1>8, <1>9 DEF c

\* The transmissions on their way are finitely many.
LEMMA UpIsFinite ==
  ASSUME W!TimesAssumption, WaiterTyped
  PROVE  IsFiniteSet(up)
<1>1. IsFiniteSet(0..MaxRetries)
  BY FS_Interval DEF W!TimesAssumption
<1> QED BY <1>1, FS_Subset DEF WaiterTyped

\* They are counted one by one.
LEMMA UpIsCounted ==
  ASSUME W!TimesAssumption, WaiterTyped
  PROVE  /\ Cardinality(up) \in Nat
         /\ Cardinality({}) = 0
         /\ \A n : /\ Cardinality(up \cup {n}) \in Nat /\ Cardinality(up \cup {n}) <= Cardinality(up) + 1
                   /\ n \in up => Cardinality(up \ {n}) = Cardinality(up) - 1
<1>1. IsFiniteSet(up)
  BY UpIsFinite
<1>2. Cardinality(up) \in Nat /\ Cardinality({}) = 0
  BY <1>1, FS_CardinalityType, FS_EmptySet
<1>3. \A n : Cardinality(up \cup {n}) = IF n \in up THEN Cardinality(up) ELSE Cardinality(up) + 1
  BY <1>1, FS_AddElement
<1>4. \A n : Cardinality(up \ {n}) = IF n \in up THEN Cardinality(up) - 1 ELSE Cardinality(up)
  BY <1>1, FS_RemoveElement
<1> QED BY <1>2, <1>3, <1>4

\* The wait is over, whatever ended it.
LEMMA SettlingKeeps ==
  ASSUME W!TimesAssumption, WaiterInv, W!Waiting, NEW how, W!Settle(how),
         how \in W!Results \cup {"timeout", "send_failed", "cancelled"},
         UNCHANGED <<noAutoRetry, linkRepeats, started, now, up, executed, busy>>,
         retries' \in 0..MaxRetries, retries <= retries', heard' \in BOOLEAN, inWork' \in BOOLEAN,
         down' \subseteq down,
         how = "accepted" => executed > 0,
         how = "timeout" => noAutoRetry \/ retries' = MaxRetries \/ executed > 0
  PROVE  WaiterInv'
<1> USE DEF WaiterInv
<1>1. outcome' = how /\ how # "none" /\ deadline' = W!Unarmed /\ retryAt' = W!Unarmed /\ started /\ started'
  BY DEF W!Settle, W!Waiting, W!Results
<1>2. WaiterTyped'
  BY <1>1 DEF WaiterTyped
<1>3. NothingBeforeStart' /\ W!WaitIsBounded' /\ TimersAreBounded'
  BY <1>1 DEF NothingBeforeStart, W!WaitIsBounded, W!LongestWait, TimersAreBounded
<1>4. W!WaitingIsTimed'
  BY <1>1 DEF W!WaitingIsTimed, W!Waiting, W!Settled
<1>5. BegunIsTrue'
  BY <1>1 DEF BegunIsTrue, W!Waiting, W!Settled
<1>6. Cardinality(up) \in Nat /\ executed \in Nat /\ retries \in Nat /\ retries' \in Nat
  <2>1. Cardinality(up) \in Nat
    BY UpIsCounted
  <2>2. executed \in Nat
    BY DEF WaiterTyped
  <2>3. retries \in Nat
    BY DEF WaiterTyped, W!TimesAssumption
  <2>4. retries' \in Nat
    BY DEF W!TimesAssumption
  <2> QED BY <2>1, <2>2, <2>3, <2>4
<1>7. TransmissionsAreCounted'
  BY <1>1, <1>6 DEF TransmissionsAreCounted
<1>8. ThereIsOneCommand'
  BY <1>1, <1>6 DEF ThereIsOneCommand
<1> QED BY <1>2, <1>3, <1>4, <1>5, <1>7, <1>8

\* One more transmission, within the budget.
LEMMA ResendKeeps ==
  ASSUME W!TimesAssumption, WaiterInv, W!Waiting, retries < MaxRetries, W!Resend(W!Unarmed),
         now <= Budget(retries) + RetryInterval, noAutoRetry => retryAt # W!Unarmed,
         UNCHANGED <<noAutoRetry, linkRepeats, started, now, down, executed, busy, inWork>>
  PROVE  WaiterInv'
<1> USE DEF WaiterInv
<1>1. /\ retries' = retries + 1 /\ heard' = FALSE
      /\ retries \in Nat /\ retries' \in 0..MaxRetries /\ retries <= retries'
  BY DEF W!Resend, WaiterTyped, W!TimesAssumption
<1>2. CASE W!Settle("send_failed") /\ UNCHANGED up
  BY <1>1, <1>2, SettlingKeeps DEF WaiterTyped
<1>3. CASE W!Transmit(retries + 1) /\ retryAt' = W!Unarmed
  <2>1. /\ up' = up \cup {retries'} /\ deadline' = now + TimeoutMs /\ outcome' = outcome
        /\ started /\ outcome = "none" /\ now \in Nat
    BY <1>1, <1>3 DEF W!Transmit, W!Waiting, W!Settled, WaiterTyped
  <2>2. deadline' \in Nat /\ deadline' # W!Unarmed /\ now <= deadline'
    BY <2>1 DEF W!TimesAssumption, W!Unarmed
  <2>3. WaiterTyped'
    BY <1>1, <1>3, <2>1, <2>2 DEF WaiterTyped
  <2>4. NothingBeforeStart' /\ W!WaitIsBounded'
    BY <2>1 DEF NothingBeforeStart, W!WaitIsBounded, W!LongestWait
  <2>5. W!WaitingIsTimed'
    BY <2>1, <2>2 DEF W!WaitingIsTimed, W!Waiting, W!Settled
  <2>6. TimersAreBounded'
    <3>1. Budget(retries') = Budget(retries) + RetryInterval + TimeoutMs /\ Budget(retries) \in Nat
      BY <1>1, BudgetGrows
    <3>2. deadline' <= Budget(retries')
      BY <2>1, <3>1 DEF W!TimesAssumption
    <3>3. Budget(retries)' = Budget(retries')
      BY DEF Budget, W!IN_PROGRESS_CEILING
    <3> QED BY <1>3, <2>1, <2>2, <3>2, <3>3 DEF TimersAreBounded
  <2>7. BegunIsTrue'
    BY <1>1, <2>1 DEF BegunIsTrue, W!Waiting, W!Settled
  <2>8. Cardinality(up') \in Nat /\ Cardinality(up) \in Nat /\ Cardinality(up') <= Cardinality(up) + 1 /\ executed \in Nat
    BY <2>1, UpIsCounted DEF WaiterTyped
  <2>9. TransmissionsAreCounted'
    BY <1>1, <2>1, <2>8 DEF TransmissionsAreCounted
  <2>10. ThereIsOneCommand'
    BY <1>3, <2>1, <2>8 DEF ThereIsOneCommand
  <2> QED BY <2>3, <2>4, <2>5, <2>6, <2>7, <2>9, <2>10
<1> QED BY <1>2, <1>3 DEF W!Resend


\* Time has not passed the budget of the re-sends so far.
LEMMA NowIsWithin ==
  ASSUME W!TimesAssumption, WaiterInv, W!Waiting
  PROVE  /\ now <= Budget(retries) + RetryInterval
         /\ retryAt = W!Unarmed => now <= Budget(retries)
         /\ now \in Nat /\ retries \in Nat /\ MaxRetries \in Nat /\ Budget(retries) \in Nat /\ RetryInterval \in Nat
<1> USE DEF WaiterInv
<1>1. now \in Nat /\ retries \in Nat /\ MaxRetries \in Nat /\ RetryInterval \in Nat
  BY DEF WaiterTyped, W!TimesAssumption
<1>2. Budget(retries) \in Nat
  BY <1>1, BudgetGrows
<1>3. deadline \in Nat \cup {W!Unarmed} /\ retryAt \in Nat \cup {W!Unarmed}
  BY DEF WaiterTyped
<1>4. deadline # W!Unarmed \/ retryAt # W!Unarmed
  BY DEF W!WaitingIsTimed
<1> QED BY <1>1, <1>2, <1>3, <1>4 DEF TimersAreBounded, W!Unarmed

\* Start sends the command for the first time, or throws.
LEMMA StartKeeps ==
  ASSUME W!TimesAssumption, WaiterInv, W!Start, UNCHANGED <<noAutoRetry, linkRepeats>>
  PROVE  WaiterInv'
<1> USE DEF WaiterInv
<1>1. /\ ~started /\ started' = TRUE
      /\ UNCHANGED <<noAutoRetry, linkRepeats, retries, heard, now, down, executed, busy, inWork>>
  BY DEF W!Start, W!vehicleVars
<1>2. outcome = "none" /\ deadline = W!Unarmed /\ retryAt = W!Unarmed /\ now = 0 /\ retries = 0 /\ up = {} /\ executed = 0
  BY <1>1 DEF NothingBeforeStart
<1>3. Cardinality({}) = 0 /\ Cardinality(up \cup {0}) \in Nat /\ Cardinality(up \cup {0}) <= Cardinality(up) + 1
  BY UpIsCounted
<1>4. NothingBeforeStart'
  BY <1>1 DEF NothingBeforeStart
<1>5. W!WaitIsBounded'
  BY <1>1 DEF W!WaitIsBounded, W!LongestWait
<1>6. CASE W!Transmit(0) /\ retryAt' = retryAt
  <2>1. up' = up \cup {0} /\ deadline' = TimeoutMs /\ outcome' = outcome /\ retryAt' = W!Unarmed
    BY <1>2, <1>6 DEF W!Transmit, W!TimesAssumption
  <2>2. deadline' \in Nat /\ deadline' # W!Unarmed /\ now' <= deadline'
    BY <1>1, <1>2, <2>1 DEF W!TimesAssumption, W!Unarmed
  <2>3. WaiterTyped'
    BY <1>1, <1>2, <2>1, <2>2 DEF WaiterTyped, W!TimesAssumption
  <2>4. W!WaitingIsTimed'
    BY <1>2, <2>1, <2>2 DEF W!WaitingIsTimed, W!Waiting, W!Settled
  <2>5. deadline' <= Budget(retries')
    BY <1>1, <1>2, <2>1, BudgetGrows DEF W!TimesAssumption
  <2>6. Budget(retries)' = Budget(retries')
    BY DEF Budget, W!IN_PROGRESS_CEILING
  <2>7. TimersAreBounded'
    BY <2>1, <2>2, <2>5, <2>6 DEF TimersAreBounded
  <2>8. BegunIsTrue'
    <3>1. ~heard'
      BY <1>1 DEF NothingBeforeStart
    <3> QED BY <1>1, <1>2, <2>1, <3>1 DEF BegunIsTrue
  <2>9. TransmissionsAreCounted' /\ ThereIsOneCommand'
    BY <1>1, <1>2, <1>3, <2>1 DEF TransmissionsAreCounted, ThereIsOneCommand
  <2> QED BY <1>4, <1>5, <2>3, <2>4, <2>7, <2>8, <2>9
<1>7. CASE W!Settle("send_failed") /\ up' = up
  <2>1. outcome' = "send_failed" /\ deadline' = W!Unarmed /\ retryAt' = W!Unarmed
    BY <1>7 DEF W!Settle
  <2>2. WaiterTyped'
    BY <1>1, <1>7, <2>1 DEF WaiterTyped
  <2>3. W!WaitingIsTimed'
    BY <2>1 DEF W!WaitingIsTimed, W!Waiting, W!Settled
  <2>4. TimersAreBounded'
    BY <2>1 DEF TimersAreBounded
  <2>5. BegunIsTrue'
    BY <1>1, <1>2, <2>1 DEF BegunIsTrue, W!Waiting, W!Settled
  <2>6. TransmissionsAreCounted' /\ ThereIsOneCommand'
    BY <1>1, <1>2, <1>3, <1>7, <2>1 DEF TransmissionsAreCounted, ThereIsOneCommand
  <2> QED BY <1>4, <1>5, <2>2, <2>3, <2>4, <2>5, <2>6
<1> QED BY <1>6, <1>7 DEF W!Start

\* A back-off that ends transmits, a window that closes transmits or gives up.
LEMMA TimersKeep ==
  ASSUME W!TimesAssumption, WaiterInv, W!RetryFires \/ W!TimeoutFires, UNCHANGED <<noAutoRetry, linkRepeats>>
  PROVE  WaiterInv'
<1> USE DEF WaiterInv
<1>1. CASE W!RetryFires
  <2>1. W!Waiting /\ retryAt # W!Unarmed /\ W!Resend(W!Unarmed)
        /\ UNCHANGED <<started, now, down, executed, busy, inWork>>
    BY <1>1 DEF W!RetryFires, W!vehicleVars
  <2>2. retries < MaxRetries
    BY <2>1 DEF TimersAreBounded
  <2> QED BY <2>1, <2>2, NowIsWithin, ResendKeeps
<1>2. CASE W!TimeoutFires
  <2>1. W!Waiting /\ deadline # W!Unarmed /\ UNCHANGED <<started, now, down, executed, busy, inWork>>
    BY <1>2 DEF W!TimeoutFires, W!vehicleVars
  <2>2. CASE W!MayResend /\ W!Resend(retryAt)
    <3>1. ~heard /\ ~noAutoRetry /\ retries < MaxRetries
      BY <2>2 DEF W!MayResend
    <3>2. retryAt = W!Unarmed
      BY <3>1 DEF TimersAreBounded
    <3>3. W!Resend(W!Unarmed)
      BY <2>2, <3>2
    <3> QED BY <2>1, <3>1, <3>2, <3>3, NowIsWithin, ResendKeeps
  <2>3. CASE ~W!MayResend /\ W!Settle("timeout") /\ UNCHANGED <<retries, heard, up>>
    <3>1. retries \in Nat /\ retries <= MaxRetries /\ MaxRetries \in Nat /\ retries' \in 0..MaxRetries
          /\ heard' \in BOOLEAN /\ inWork' \in BOOLEAN
      BY <2>1, <2>3 DEF WaiterTyped, W!TimesAssumption
    <3>2. noAutoRetry \/ retries' = MaxRetries \/ executed > 0
      BY <2>1, <2>3, <3>1 DEF W!MayResend, BegunIsTrue, WaiterTyped
    <3> QED BY <2>1, <2>3, <3>1, <3>2, SettlingKeeps
  <2> QED BY <1>2, <2>2, <2>3 DEF W!TimeoutFires
<1> QED BY <1>1, <1>2

\* A step that leaves the waiter alone and adds no claim keeps the invariant: what
\* is on its way may be lost or, but for its copies, answered.
LEMMA LinkKeeps ==
  ASSUME W!TimesAssumption, WaiterInv,
         UNCHANGED <<noAutoRetry, linkRepeats, started, outcome, retries, heard, deadline, retryAt, now, inWork>>,
         up' \subseteq up, down' \subseteq W!Acks, executed' \in Nat, executed <= executed', busy' \in BOOLEAN,
         \A ack \in down' : ack.addressed = W!Ours /\ ack.result \in {"accepted", "in_progress"} => executed' > 0,
         \A ack \in down' : ack.addressed # W!Ours => ack.result = "accepted",
         busy' => executed' > 0,
         Cardinality(up') \in Nat,
         executed' + Cardinality(up') <= executed + Cardinality(up),
         Cardinality(up') + (IF Rejection \in down' THEN 1 ELSE 0) + executed'
           <= Cardinality(up) + (IF Rejection \in down THEN 1 ELSE 0) + executed
  PROVE  WaiterInv'
<1> USE DEF WaiterInv
<1>1. WaiterTyped'
  BY DEF WaiterTyped
<1>2. executed \in Nat /\ retries \in Nat
  BY DEF WaiterTyped, W!TimesAssumption
<1>3. Cardinality(up) \in Nat
  BY UpIsCounted
<1>4. NothingBeforeStart'
  <2>1. SUFFICES ASSUME ~started PROVE up' = {} /\ executed' = 0
    BY DEF NothingBeforeStart
  <2>2. up = {} /\ executed = 0
    BY <2>1 DEF NothingBeforeStart
  <2>3. Cardinality(up) = 0
    BY <2>2, UpIsCounted
  <2> QED BY <1>2, <2>2, <2>3
<1>5. W!WaitingIsTimed'
  BY DEF W!WaitingIsTimed, W!Waiting, W!Settled
<1>6. TimersAreBounded'
  BY DEF TimersAreBounded, Budget, W!IN_PROGRESS_CEILING
<1>7. W!WaitIsBounded'
  BY DEF W!WaitIsBounded, W!LongestWait, W!IN_PROGRESS_CEILING
<1>8. BegunIsTrue'
  BY <1>2 DEF BegunIsTrue, W!Waiting, W!Settled
<1>9. TransmissionsAreCounted'
  BY <1>2, <1>3 DEF TransmissionsAreCounted
<1>10. ThereIsOneCommand'
  BY <1>2, <1>3 DEF ThereIsOneCommand
<1> QED BY <1>1, <1>4, <1>5, <1>6, <1>7, <1>8, <1>9, <1>10

\* An ack that is ours renews the window, starts a back-off, or settles.
LEMMA AckKeeps ==
  ASSUME W!TimesAssumption, WaiterInv, W!Waiting, NEW ack \in down, W!ForUs(ack), W!OnAck(ack),
         down' \subseteq down, linkRepeats \/ ack \notin down', UNCHANGED <<noAutoRetry, linkRepeats>>
  PROVE  WaiterInv'
<1> USE DEF WaiterInv
<1>1. /\ heard' = TRUE /\ inWork' \in BOOLEAN
      /\ UNCHANGED <<started, now, up, executed, busy>>
      /\ started /\ outcome = "none"
  BY DEF W!OnAck, W!vehicleVars, W!Waiting, W!Settled
<1>2. /\ ack.addressed = W!Ours /\ ack.result \in W!Results
      /\ ack.result = "temporarily_rejected" => ack = Rejection
  BY DEF W!ForUs, WaiterTyped, W!Acks, Rejection
<1>3. now \in Nat /\ retries \in Nat /\ MaxRetries \in Nat /\ RetryInterval \in Nat /\ executed \in Nat
      /\ retries \in 0..MaxRetries
  BY DEF WaiterTyped, W!TimesAssumption
<1>4. Cardinality(up) \in Nat
  BY UpIsCounted
<1>5. CASE ack.result = "in_progress" /\ W!OnInProgress
  <2>1. executed > 0
    BY <1>2, <1>5 DEF BegunIsTrue
  <2> DEFINE c == TimeoutMs * W!IN_PROGRESS_CEILING
  <2>2. c \in Nat /\ TimeoutMs \in Nat \ {0} /\ c <= Budget(retries) /\ Budget(retries) \in Nat /\ W!Remaining = c - now
    BY <1>3, BudgetGrows DEF W!TimesAssumption, W!Remaining
  <2>3. /\ UNCHANGED <<outcome, retries, retryAt>>
        /\ deadline' = IF W!Remaining <= 0 THEN deadline
                       ELSE IF W!Remaining < TimeoutMs THEN now + W!Remaining ELSE now + TimeoutMs
    BY <1>5 DEF W!OnInProgress
  <2> HIDE DEF c
  <2>4. deadline' # deadline => deadline' \in Nat /\ now <= deadline' /\ deadline' <= Budget(retries)
    BY <1>3, <2>2, <2>3
  <2>5. deadline' = deadline \/ deadline' # W!Unarmed
    BY <2>4 DEF W!Unarmed
  <2>6. WaiterTyped'
    BY <1>1, <2>3, <2>4 DEF WaiterTyped
  <2>7. NothingBeforeStart' /\ W!WaitIsBounded'
    BY <1>1 DEF NothingBeforeStart, W!WaitIsBounded, W!LongestWait
  <2>8. W!WaitingIsTimed'
    BY <1>1, <2>3, <2>5 DEF W!WaitingIsTimed, W!Waiting, W!Settled
  <2>9. Budget(retries)' = Budget(retries)
    BY <2>3 DEF Budget, W!IN_PROGRESS_CEILING
  <2>10. TimersAreBounded'
    BY <1>1, <2>3, <2>4, <2>9 DEF TimersAreBounded
  <2>11. BegunIsTrue'
    BY <1>1, <2>1, <2>3 DEF BegunIsTrue, W!Waiting, W!Settled
  <2>12. TransmissionsAreCounted'
    BY <1>1, <2>3 DEF TransmissionsAreCounted
  <2>13. ThereIsOneCommand'
    BY <1>1, <1>3, <1>4, <2>3 DEF ThereIsOneCommand
  <2> QED BY <2>6, <2>7, <2>8, <2>10, <2>11, <2>12, <2>13
<1>6. CASE ack.result = "temporarily_rejected" /\ retries < MaxRetries /\ W!OnRejected
  <2>1. UNCHANGED <<outcome, retries>>
    BY <1>6 DEF W!OnRejected
  <2>2. /\ NothingBeforeStart' /\ W!WaitIsBounded' /\ TransmissionsAreCounted'
    BY <1>1, <2>1 DEF NothingBeforeStart, W!WaitIsBounded, W!LongestWait, TransmissionsAreCounted
  <2>3. Budget(retries)' = Budget(retries)
    BY <2>1 DEF Budget, W!IN_PROGRESS_CEILING
  <2>4. linkRepeats \/ (Rejection \in down /\ Rejection \notin down')
    BY <1>2, <1>6
  <2>5. CASE retryAt # W!Unarmed /\ UNCHANGED <<deadline, retryAt>>
    <3>1. WaiterTyped'
      BY <1>1, <2>1, <2>5 DEF WaiterTyped
    <3>2. W!WaitingIsTimed'
      BY <1>1, <2>1, <2>5 DEF W!WaitingIsTimed, W!Waiting, W!Settled
    <3>3. TimersAreBounded'
      BY <1>1, <2>1, <2>3, <2>5 DEF TimersAreBounded
    <3>4. heard
      BY <2>5 DEF TimersAreBounded
    <3>5. BegunIsTrue'
      BY <1>1, <2>1, <2>5, <3>4 DEF BegunIsTrue, W!Waiting, W!Settled
    <3>6. ThereIsOneCommand'
      BY <1>1, <1>3, <1>4, <2>1, <2>4, <2>5 DEF ThereIsOneCommand
    <3> QED BY <2>2, <3>1, <3>2, <3>3, <3>5, <3>6
  <2>6. CASE retryAt = W!Unarmed /\ deadline' = W!Unarmed /\ retryAt' = now + RetryInterval
    <3>1. retryAt' \in Nat /\ retryAt' # W!Unarmed /\ now <= retryAt' /\ retryAt' <= Budget(retries) + RetryInterval
      BY <1>3, <2>6, NowIsWithin DEF W!Unarmed
    <3>2. WaiterTyped'
      BY <1>1, <2>1, <2>6, <3>1 DEF WaiterTyped
    <3>3. W!WaitingIsTimed'
      BY <1>1, <2>1, <2>6, <3>1 DEF W!WaitingIsTimed, W!Waiting, W!Settled
    <3>4. TimersAreBounded'
      BY <1>1, <1>6, <2>1, <2>3, <2>6, <3>1 DEF TimersAreBounded
    <3>5. BegunIsTrue'
      BY <1>1, <2>1, <2>6 DEF BegunIsTrue, W!Waiting, W!Settled
    <3>6. ThereIsOneCommand'
      BY <1>1, <1>3, <1>4, <2>1, <2>4, <2>6 DEF ThereIsOneCommand
    <3> QED BY <2>2, <3>2, <3>3, <3>4, <3>5, <3>6
  <2> QED BY <1>6, <2>5, <2>6 DEF W!OnRejected
<1>7. CASE W!Settle(ack.result) /\ UNCHANGED retries
  <2>1. ack.result = "accepted" => executed > 0
    BY <1>2 DEF BegunIsTrue
  <2>2. ack.result # "timeout"
    BY <1>2 DEF W!Results
  <2> QED BY <1>1, <1>2, <1>3, <1>7, <2>1, <2>2, SettlingKeeps
<1> QED BY <1>5, <1>6, <1>7 DEF W!OnAck

\* The vehicle answers to us, and says it began only what it did begin.
LEMMA AnswerIsAnAck ==
  ASSUME WaiterInv, NEW result \in W!Results, W!Answer(result),
         executed' \in Nat, executed <= executed',
         result \in {"accepted", "in_progress"} => executed' > 0
  PROVE  /\ down' \subseteq W!Acks
         /\ \A ack \in down' : ack.addressed = W!Ours /\ ack.result \in {"accepted", "in_progress"} => executed' > 0
         /\ \A ack \in down' : ack.addressed # W!Ours => ack.result = "accepted"
         /\ result # "temporarily_rejected" => (Rejection \in down' <=> Rejection \in down)
<1> USE DEF WaiterInv
<1> DEFINE a == [result |-> result, addressed |-> W!Ours]
<1>1. down' = down \cup {a} /\ a \in W!Acks /\ a.result = result /\ a.addressed = W!Ours
  BY DEF W!Answer, W!Acks
<1>2. down \subseteq W!Acks /\ executed \in Nat
  BY DEF WaiterTyped
<1>3. result # "temporarily_rejected" => a # Rejection
  <2>1. Rejection.result = "temporarily_rejected"
    BY DEF Rejection
  <2> QED BY <1>1, <2>1
<1> HIDE DEF a
<1> QED BY <1>1, <1>2, <1>3 DEF BegunIsTrue

\* What the link and the vehicle do keeps the invariant.
LEMMA VehicleKeeps ==
  ASSUME W!TimesAssumption, WaiterInv,
         W!CommandArrives \/ W!Progress \/ W!OthersAck \/ W!Lose, UNCHANGED <<noAutoRetry, linkRepeats>>
  PROVE  WaiterInv'
<1> USE DEF WaiterInv
<1>1. executed \in Nat /\ busy \in BOOLEAN /\ down \subseteq W!Acks
  BY DEF WaiterTyped
<1>2. Cardinality(up) \in Nat
  BY UpIsCounted
<1>3. CASE W!CommandArrives
  <2>1. PICK n \in up : up' = up \ {n}
    BY <1>3 DEF W!CommandArrives
  <2>2. Cardinality(up') = Cardinality(up) - 1 /\ Cardinality(up') \in Nat
    <3>1. Cardinality(up \ {n}) = Cardinality(up) - 1
      BY <2>1, UpIsCounted
    <3>2. up' \subseteq up /\ IsFiniteSet(up)
      BY <2>1, UpIsFinite
    <3>3. Cardinality(up') \in Nat
      BY <3>2, FS_Subset, FS_CardinalityType
    <3> QED BY <2>1, <3>1, <3>3
  <2>3. UNCHANGED <<started, outcome, retries, heard, deadline, retryAt, now, inWork>>
    BY <1>3 DEF W!CommandArrives, W!waiterVars
  <2>4. PICK result \in W!Results :
          /\ W!Answer(result)
          /\ executed' = IF result \in {"accepted", "in_progress"} THEN executed + 1 ELSE executed
          /\ executed' = executed + 1 \/ busy' = busy
    BY <1>3 DEF W!CommandArrives, W!vehicleVars, W!Results
  <2>5. executed' \in Nat /\ executed <= executed'
        /\ (result \in {"accepted", "in_progress"} => executed' > 0)
    BY <1>1, <2>4
  <2>6. busy' \in BOOLEAN /\ (busy' => executed' > 0)
    <3>1. busy' = busy \/ busy' = TRUE
      BY <1>3 DEF W!CommandArrives, W!vehicleVars
    <3>2. busy => executed > 0
      BY DEF BegunIsTrue
    <3>3. executed' = executed + 1 => executed' > 0
      BY <1>1
    <3>4. executed > 0 => executed' > 0
      BY <1>1, <2>5
    <3>5. executed' = executed + 1 \/ busy' = busy
      BY <2>4
    <3>6. busy' \in BOOLEAN
      BY <1>1, <3>1
    <3>7. busy' => executed' > 0
      BY <3>2, <3>3, <3>4, <3>5, Zenon
    <3> QED BY <3>6, <3>7
  <2>7. result = "temporarily_rejected" => executed' = executed
    BY <2>4
  <2>8. result # "temporarily_rejected" => (Rejection \in down' <=> Rejection \in down)
    BY <2>4, <2>5, AnswerIsAnAck
  <2>9. Cardinality(up') + (IF Rejection \in down' THEN 1 ELSE 0) + executed'
          <= Cardinality(up) + (IF Rejection \in down THEN 1 ELSE 0) + executed
    BY <1>1, <1>2, <2>2, <2>4, <2>7, <2>8
  <2>10. executed' + Cardinality(up') <= executed + Cardinality(up)
    BY <1>1, <1>2, <2>2, <2>4
  <2> QED BY <2>1, <2>2, <2>3, <2>4, <2>5, <2>6, <2>9, <2>10, AnswerIsAnAck, LinkKeeps
<1>4. CASE W!Progress
  <2>1. busy /\ UNCHANGED <<started, outcome, retries, heard, deadline, retryAt, now, up, executed, inWork>>
    BY <1>4 DEF W!Progress, W!waiterVars
  <2>2. PICK result \in {"accepted", "in_progress"} : W!Answer(result) /\ busy' \in BOOLEAN
    BY <1>1, <1>4 DEF W!Progress
  <2>3. executed > 0 /\ executed' = executed /\ result \in W!Results /\ result # "temporarily_rejected"
    BY <2>1, <2>2 DEF BegunIsTrue, W!Results
  <2>4. Rejection \in down' <=> Rejection \in down
    BY <1>1, <2>2, <2>3, AnswerIsAnAck
  <2>5. Cardinality(up') \in Nat /\ executed' + Cardinality(up') <= executed + Cardinality(up)
        /\ Cardinality(up') + (IF Rejection \in down' THEN 1 ELSE 0) + executed'
             <= Cardinality(up) + (IF Rejection \in down THEN 1 ELSE 0) + executed
    BY <1>1, <1>2, <2>1, <2>4
  <2> QED BY <1>1, <2>1, <2>2, <2>3, <2>5, AnswerIsAnAck, LinkKeeps
<1>5. CASE W!OthersAck
  <2> DEFINE a == [result |-> "accepted", addressed |-> "another_station"]
  <2>1. down' = down \cup {a} /\ a.result = "accepted" /\ a.addressed = "another_station" /\ a \in W!Acks
        /\ W!Ours # "another_station"
    BY <1>5 DEF W!OthersAck, W!Acks, W!Results, W!Ours
  <2>2. UNCHANGED <<started, outcome, retries, heard, deadline, retryAt, now, up, executed, busy, inWork>>
    BY <1>5 DEF W!OthersAck, W!waiterVars, W!vehicleVars
  <2>3. a # Rejection
    BY <2>1 DEF Rejection, W!Ours
  <2> HIDE DEF a
  <2>4. Rejection \in down' <=> Rejection \in down
    BY <2>1, <2>3
  <2>5. /\ \A ack \in down' : ack.addressed = W!Ours /\ ack.result \in {"accepted", "in_progress"} => executed' > 0
        /\ \A ack \in down' : ack.addressed # W!Ours => ack.result = "accepted"
        /\ busy' => executed' > 0
    BY <2>1, <2>2 DEF BegunIsTrue
  <2>6. Cardinality(up') \in Nat /\ executed' + Cardinality(up') <= executed + Cardinality(up)
        /\ Cardinality(up') + (IF Rejection \in down' THEN 1 ELSE 0) + executed'
             <= Cardinality(up) + (IF Rejection \in down THEN 1 ELSE 0) + executed
    BY <1>1, <1>2, <2>2, <2>4
  <2> QED BY <1>1, <2>1, <2>2, <2>5, <2>6, LinkKeeps
<1>6. CASE W!Lose
  <2>1. up' \subseteq up /\ down' \subseteq down
        /\ UNCHANGED <<started, outcome, retries, heard, deadline, retryAt, now, executed, busy, inWork>>
    BY <1>6 DEF W!Lose, W!waiterVars, W!vehicleVars
  <2>2. Cardinality(up') \in Nat /\ Cardinality(up') <= Cardinality(up)
    <3>1. IsFiniteSet(up)
      BY UpIsFinite
    <3> QED BY <2>1, <3>1, FS_Subset, FS_CardinalityType
  <2>3. /\ \A ack \in down' : ack.addressed = W!Ours /\ ack.result \in {"accepted", "in_progress"} => executed' > 0
        /\ \A ack \in down' : ack.addressed # W!Ours => ack.result = "accepted"
        /\ busy' => executed' > 0
    BY <2>1 DEF BegunIsTrue
  <2>4. executed' + Cardinality(up') <= executed + Cardinality(up)
        /\ Cardinality(up') + (IF Rejection \in down' THEN 1 ELSE 0) + executed'
             <= Cardinality(up) + (IF Rejection \in down THEN 1 ELSE 0) + executed
    BY <1>1, <1>2, <2>1, <2>2
  <2> QED BY <1>1, <2>1, <2>2, <2>3, <2>4, LinkKeeps
<1> QED BY <1>3, <1>4, <1>5, <1>6

\* Time passes only while no timer is due.
LEMMA TickKeeps ==
  ASSUME W!TimesAssumption, WaiterInv, W!Tick, UNCHANGED <<noAutoRetry, linkRepeats>>
  PROVE  WaiterInv'
<1> USE DEF WaiterInv
<1>1. /\ W!Waiting /\ ~W!Due /\ now' = now + 1
      /\ UNCHANGED <<started, outcome, retries, heard, deadline, retryAt, up, down, executed, busy, inWork>>
  BY DEF W!Tick, W!waiterVars, W!vehicleVars
<1>2. started /\ now \in Nat /\ deadline \in Nat \cup {W!Unarmed} /\ retryAt \in Nat \cup {W!Unarmed}
  BY <1>1 DEF W!Waiting, WaiterTyped
<1>3. WaiterTyped'
  BY <1>1 DEF WaiterTyped
<1>4. NothingBeforeStart'
  BY <1>1, <1>2 DEF NothingBeforeStart
<1>5. W!WaitingIsTimed'
  BY <1>1 DEF W!WaitingIsTimed, W!Waiting, W!Settled
<1>6. /\ deadline # W!Unarmed => now' <= deadline
      /\ retryAt # W!Unarmed => now' <= retryAt
  BY <1>1, <1>2 DEF W!Due, W!Unarmed
<1>7. Budget(retries)' = Budget(retries)
  BY <1>1 DEF Budget, W!IN_PROGRESS_CEILING
<1>8. TimersAreBounded'
  BY <1>1, <1>6, <1>7 DEF TimersAreBounded
<1>9. W!WaitIsBounded'
  <2>1. /\ retries \in Nat /\ MaxRetries \in Nat /\ retries <= MaxRetries /\ RetryInterval \in Nat /\ TimeoutMs \in Nat
    BY DEF WaiterTyped, W!TimesAssumption
  <2>2. Budget(retries) \in Nat /\ W!LongestWait \in Nat /\ Budget(retries) <= W!LongestWait
        /\ (retries < MaxRetries => Budget(retries) + RetryInterval <= W!LongestWait)
    <3>1. Budget(MaxRetries) = W!LongestWait /\ Budget(retries) \in Nat /\ Budget(MaxRetries) \in Nat
      BY <2>1, BudgetGrows
    <3>2. Budget(retries) <= Budget(MaxRetries)
      BY <2>1, BudgetGrows
    <3>3. retries + 1 \in Nat /\ Budget(retries + 1) = Budget(retries) + RetryInterval + TimeoutMs
      BY <2>1, BudgetGrows
    <3>4. retries < MaxRetries => Budget(retries + 1) <= Budget(MaxRetries)
      BY <2>1, <3>3, BudgetGrows
    <3> QED BY <2>1, <3>1, <3>2, <3>3, <3>4
  <2>3. deadline # W!Unarmed \/ retryAt # W!Unarmed
    BY <1>1 DEF W!WaitingIsTimed
  <2>4. now' <= W!LongestWait
    BY <1>1, <1>2, <1>6, <2>1, <2>2, <2>3 DEF TimersAreBounded, W!Unarmed
  <2>5. W!LongestWait' = W!LongestWait
    BY DEF W!LongestWait, W!IN_PROGRESS_CEILING
  <2> QED BY <2>4, <2>5 DEF W!WaitIsBounded
<1>10. BegunIsTrue'
  BY <1>1 DEF BegunIsTrue, W!Waiting, W!Settled
<1>11. TransmissionsAreCounted' /\ ThereIsOneCommand'
  BY <1>1 DEF TransmissionsAreCounted, ThereIsOneCommand
<1> QED BY <1>3, <1>4, <1>5, <1>8, <1>9, <1>10, <1>11

\* An ack arrives: it is ours, or the waiter does not take it.
LEMMA AckArrivesKeeps ==
  ASSUME W!TimesAssumption, WaiterInv, W!AckArrives, UNCHANGED <<noAutoRetry, linkRepeats>>
  PROVE  WaiterInv'
<1>1. PICK ack \in down :
        /\ down' = down \ {ack} \/ (linkRepeats /\ down' = down)
        /\ \/ W!Waiting /\ W!ForUs(ack) /\ W!OnAck(ack)
           \/ UNCHANGED <<W!waiterVars, now, up, W!vehicleVars, inWork>>
  BY DEF W!AckArrives
<1>2. down' \subseteq down /\ (linkRepeats \/ ack \notin down')
  BY <1>1
<1>3. CASE W!Waiting /\ W!ForUs(ack) /\ W!OnAck(ack)
  BY <1>2, <1>3, AckKeeps
<1>4. CASE UNCHANGED <<W!waiterVars, now, up, W!vehicleVars, inWork>>
  <2>1. UNCHANGED <<started, outcome, retries, heard, deadline, retryAt, now, up, executed, busy, inWork>>
    BY <1>4 DEF W!waiterVars, W!vehicleVars
  <2>2. executed \in Nat /\ busy \in BOOLEAN /\ down \subseteq W!Acks
    BY DEF WaiterInv, WaiterTyped
  <2>3. Cardinality(up) \in Nat
    BY UpIsCounted DEF WaiterInv
  <2>4. /\ \A a \in down' : a.addressed = W!Ours /\ a.result \in {"accepted", "in_progress"} => executed' > 0
        /\ \A a \in down' : a.addressed # W!Ours => a.result = "accepted"
        /\ busy' => executed' > 0
    BY <1>2, <2>1 DEF WaiterInv, BegunIsTrue
  <2>5. Cardinality(up') \in Nat /\ executed' + Cardinality(up') <= executed + Cardinality(up)
        /\ Cardinality(up') + (IF Rejection \in down' THEN 1 ELSE 0) + executed'
             <= Cardinality(up) + (IF Rejection \in down THEN 1 ELSE 0) + executed
    BY <1>2, <2>1, <2>2, <2>3
  <2> QED BY <1>2, <2>1, <2>2, <2>4, <2>5, LinkKeeps
<1> QED BY <1>1, <1>3, <1>4

\* Closing the node, or superseding its wait, settles it.
LEMMA CancelKeeps ==
  ASSUME W!TimesAssumption, WaiterInv, W!Cancel, UNCHANGED <<noAutoRetry, linkRepeats>>
  PROVE  WaiterInv'
<1>1. W!Waiting /\ W!Settle("cancelled")
      /\ UNCHANGED <<started, retries, heard, now, up, down, executed, busy, inWork>>
  BY DEF W!Cancel, W!vehicleVars
<1>2. retries \in 0..MaxRetries /\ retries \in Nat /\ heard \in BOOLEAN /\ inWork \in BOOLEAN
  BY DEF WaiterInv, WaiterTyped, W!TimesAssumption
<1> QED BY <1>1, <1>2, SettlingKeeps

\* Nothing of the waiter moves.
LEMMA WaiterIsLeftAlone ==
  ASSUME WaiterInv, UNCHANGED <<noAutoRetry, linkRepeats, waiterVars>>
  PROVE  WaiterInv'
<1>1. UNCHANGED <<started, outcome, retries, heard, deadline, retryAt, now, up, down, executed, busy, inWork>>
  BY DEF waiterVars
<1>2. WaiterTyped' /\ NothingBeforeStart' /\ W!WaitingIsTimed' /\ W!WaitIsBounded'
  BY <1>1 DEF WaiterInv, WaiterTyped, NothingBeforeStart, W!WaitingIsTimed, W!Waiting, W!Settled, W!WaitIsBounded, W!LongestWait
<1>3. TimersAreBounded' /\ BegunIsTrue' /\ TransmissionsAreCounted' /\ ThereIsOneCommand'
  BY <1>1 DEF WaiterInv, TimersAreBounded, Budget, W!IN_PROGRESS_CEILING, BegunIsTrue, W!Waiting, W!Settled,
     TransmissionsAreCounted, ThereIsOneCommand
<1> QED BY <1>2, <1>3 DEF WaiterInv

\* The waiter starts idle.
LEMMA WaiterStarts ==
  ASSUME W!TimesAssumption, W!Init
  PROVE  WaiterInv
<1>1. /\ noAutoRetry \in BOOLEAN /\ linkRepeats \in BOOLEAN
      /\ started = FALSE /\ outcome = "none" /\ retries = 0 /\ heard = FALSE
      /\ deadline = W!Unarmed /\ retryAt = W!Unarmed /\ now = 0 /\ up = {} /\ down = {}
      /\ executed = 0 /\ busy = FALSE /\ inWork = FALSE
  BY DEF W!Init
<1>2. WaiterTyped /\ NothingBeforeStart
  <2>1. 0 \in 0..MaxRetries /\ {} \subseteq 0..MaxRetries
    BY DEF W!TimesAssumption
  <2> QED BY <1>1, <2>1 DEF WaiterTyped, NothingBeforeStart
<1>3. W!WaitingIsTimed /\ TimersAreBounded /\ BegunIsTrue
  BY <1>1 DEF W!WaitingIsTimed, W!Waiting, W!Settled, TimersAreBounded, BegunIsTrue
<1>4. Cardinality(up) = 0
  BY <1>1, <1>2, UpIsCounted
<1>5. TransmissionsAreCounted /\ ThereIsOneCommand
  BY <1>1, <1>4 DEF TransmissionsAreCounted, ThereIsOneCommand
<1>6. W!WaitIsBounded
  <2>1. MaxRetries \in Nat
    BY DEF W!TimesAssumption
  <2>2. W!LongestWait \in Nat
    BY <2>1, BudgetGrows
  <2> QED BY <1>1, <2>2 DEF W!WaitIsBounded
<1> QED BY <1>2, <1>3, <1>5, <1>6 DEF WaiterInv

\* What the waiter's invariant is for.
LEMMA WaiterIsSound ==
  ASSUME W!TimesAssumption, WaiterInv
  PROVE  W!WaitIsSound /\ W!SilenceSpendsTheBudget /\ W!ExecutedAsReported
<1> USE DEF WaiterInv
<1>1. executed \in Nat /\ retries \in Nat /\ retries <= MaxRetries /\ MaxRetries \in Nat
  BY DEF WaiterTyped, W!TimesAssumption
<1>2. Cardinality(up) \in Nat
  BY UpIsCounted
<1>3. executed \in 0..MaxRetries + 1
  BY <1>1, <1>2 DEF TransmissionsAreCounted
<1>4. W!TypeOK
  BY <1>3 DEF W!TypeOK, WaiterTyped, W!fixed
<1>5. W!SilenceSpendsTheBudget /\ W!AcceptedWasExecuted
  BY DEF BegunIsTrue, W!SilenceSpendsTheBudget, W!AcceptedWasExecuted
<1>6. W!ExecutedAtMostOnce
  BY <1>1, <1>2 DEF ThereIsOneCommand, W!ExecutedAtMostOnce
<1> QED BY <1>4, <1>5, <1>6 DEF W!WaitIsSound, W!ExecutedAsReported

\* A transaction is under a timer for as long as it lasts, lasts no longer than its
\* budget and is given up only when that is spent; what is reported accepted was
\* done, and what may not be repeated is not (ack.js:16-25, 93-96, 204-230, 304-315).
THEOREM WaitIsAlwaysSound == Spec => []WaitIsSound
<1> DEFINE Inv == part = "waiter" => WaiterInv
<1>1. W!TimesAssumption
  BY WaiterAssumption
<1>2. Init => Inv
  BY <1>1, WaiterStarts DEF Init
<1>3. Inv /\ [Next]_vars => Inv'
  <2> SUFFICES ASSUME Inv, [Next]_vars, part' = "waiter" PROVE WaiterInv'
    OBVIOUS
  <2>1. part = "waiter" /\ UNCHANGED <<noAutoRetry, linkRepeats>> /\ WaiterInv
    BY DEF Next, vars, choices
  <2>2. CASE W!Step
    BY <1>1, <2>1, <2>2, StartKeeps, TimersKeep, AckArrivesKeeps, CancelKeeps, VehicleKeeps, TickKeeps DEF W!Step
  <2>3. CASE UNCHANGED waiterVars
    BY <2>1, <2>3, WaiterIsLeftAlone
  <2> QED BY <2>1, <2>2, <2>3 DEF Next, vars
<1>4. Inv => WaitIsSound
  BY <1>1, WaiterIsSound DEF WaitIsSound
<1> QED BY <1>2, <1>3, <1>4, PTL DEF Spec

-----------------------------------------------------------------------------
(* The slot: its invariant *)

Wheres == PayloadNodes \cup ParamNodes
Entry ==
  [node : Wheres, what : {"photo", "burst", "aim", "read", "set", "request-list"},
   camera : Cameras \cup {None}, number : Nat, phase : {"waiting", "resolved", "done"},
   outcome : {"none", "built", "nothing", "sent", "failed", "superseded", "closed", "accepted", "denied", "unconfirmed"},
   told : SUBSET {0, 1}, aired : BOOLEAN]

\* Every variable of the slot holds what its declaration says.
SlotTyped ==
  /\ slot \in [S!Nodes -> Nat \cup {None}]
  /\ inputs \in Seq(Entry)
  /\ \A i \in DOMAIN inputs : inputs[i].node \in S!Nodes /\ (inputs[i].node \in PayloadNodes => inputs[i].camera \in Cameras)
  /\ DOMAIN captureSequences \subseteq Cameras /\ captureSequences \in [DOMAIN captureSequences -> Nat]
  /\ exposures \in [Cameras -> SUBSET (Nat \X Nat)]

\* What waits is in the slot of its node, and a slot holds what waits or just ended.
SlotIsOwn ==
  /\ \A i \in DOMAIN inputs : inputs[i].phase = "waiting" => slot[inputs[i].node] = i
  /\ \A n \in S!Nodes : slot[n] # None =>
       /\ slot[n] \in DOMAIN inputs /\ inputs[slot[n]].node = n
       /\ inputs[slot[n]].phase \in {"waiting", "resolved"}

\* A later input came to the same node.
Followed(i) == \E j \in DOMAIN inputs : j > i /\ inputs[j].node = inputs[i].node

\* An outcome has its reason, and is what is told.
EndsAreTrue ==
  \A i \in DOMAIN inputs :
    /\ inputs[i].phase = "waiting" => inputs[i].aired /\ inputs[i].outcome = "none"
    /\ inputs[i].outcome = "closed" => inputs[i].node \in gone
    /\ inputs[i].outcome = "superseded" => inputs[i].aired /\ Followed(i)
    /\ inputs[i].phase = "done" =>
         /\ inputs[i].told = {} => inputs[i].outcome \in {"nothing", "closed"}
         /\ inputs[i].outcome = "superseded" => inputs[i].told = {1}

Photo(i) == inputs[i].node \in PayloadNodes /\ inputs[i].what = "photo"

\* A photo has a number of its camera, later photos have later ones, and what
\* reached a camera is what an input asked of it.
NumbersAreOwn ==
  /\ \A i \in DOMAIN inputs : inputs[i].node \in PayloadNodes =>
       (inputs[i].number = 0 <=> inputs[i].what # "photo")
  /\ \A i \in DOMAIN inputs : Photo(i) =>
       inputs[i].camera \in DOMAIN captureSequences /\ inputs[i].number <= captureSequences[inputs[i].camera]
  /\ \A i, j \in DOMAIN inputs : Photo(i) /\ Photo(j) /\ inputs[i].camera = inputs[j].camera /\ i < j =>
       inputs[i].number < inputs[j].number
  /\ \A c \in Cameras : \A x \in exposures[c] :
       /\ x[1] \in DOMAIN inputs
       /\ inputs[x[1]].node \in PayloadNodes /\ inputs[x[1]].camera = c /\ inputs[x[1]].number = x[2]

SlotInv == SlotTyped /\ SlotIsOwn /\ EndsAreTrue /\ NumbersAreOwn

\* An index never is the empty slot, and a node is of one kind.
SlotsApart == None \notin Nat /\ PayloadNodes \cap ParamNodes = {}

-----------------------------------------------------------------------------
(* The slot: its steps *)

\* The inputs are numbered from 1.
LEMMA InputsAreIndexed ==
  ASSUME SlotTyped
  PROVE  /\ Len(inputs) \in Nat /\ DOMAIN inputs = 1..Len(inputs)
         /\ \A i \in DOMAIN inputs : inputs[i] \in Entry /\ i \in Nat /\ i # 0
  BY DEF SlotTyped

\* A sequence rewritten element by element is a sequence.
LEMMA RewrittenIsSeq ==
  ASSUME NEW T, NEW s \in Seq(T), NEW t, t = [i \in DOMAIN s |-> t[i]], \A i \in DOMAIN s : t[i] \in T
  PROVE  t \in Seq(T) /\ DOMAIN t = DOMAIN s
<1>1. Len(s) \in Nat /\ DOMAIN s = 1..Len(s)
  OBVIOUS
<1>2. t \in [1..Len(s) -> T]
  BY <1>1
<1> QED BY <1>1, <1>2

\* Inputs change how far they got, not what they are: the numbers stay true.
LEMMA NumbersAreKept ==
  ASSUME NumbersAreOwn, DOMAIN inputs' = DOMAIN inputs, UNCHANGED <<captureSequences, exposures>>,
         \A i \in DOMAIN inputs : /\ inputs'[i].node = inputs[i].node /\ inputs'[i].what = inputs[i].what
                                  /\ inputs'[i].camera = inputs[i].camera /\ inputs'[i].number = inputs[i].number
  PROVE  NumbersAreOwn'
<1>1. \A i \in DOMAIN inputs : Photo(i)' <=> Photo(i)
  BY DEF Photo
<1>2. \A i \in DOMAIN inputs : inputs'[i].node \in PayloadNodes => (inputs'[i].number = 0 <=> inputs'[i].what # "photo")
  BY DEF NumbersAreOwn
<1>3. \A i \in DOMAIN inputs : Photo(i)' =>
        inputs'[i].camera \in DOMAIN captureSequences /\ inputs'[i].number <= captureSequences[inputs'[i].camera]
  BY <1>1 DEF NumbersAreOwn
<1>4. \A i, j \in DOMAIN inputs : Photo(i)' /\ Photo(j)' /\ inputs'[i].camera = inputs'[j].camera /\ i < j =>
        inputs'[i].number < inputs'[j].number
  BY <1>1 DEF NumbersAreOwn
<1>5. \A c \in Cameras : \A x \in exposures[c] :
        /\ x[1] \in DOMAIN inputs
        /\ inputs'[x[1]].node \in PayloadNodes /\ inputs'[x[1]].camera = c /\ inputs'[x[1]].number = x[2]
  BY DEF NumbersAreOwn
<1> QED BY <1>2, <1>3, <1>4, <1>5 DEF NumbersAreOwn

\* Some inputs that wait end, and their node goes on later.
LEMMA EndingWaitsKeeps ==
  ASSUME SlotInv, NEW ended \in SUBSET S!At("waiting"), NEW how \in {"accepted", "denied", "unconfirmed"},
         S!Ends(ended, how)
  PROVE  SlotInv'
<1> USE DEF SlotInv
<1>1. /\ inputs' = [i \in DOMAIN inputs |->
           IF i \in ended THEN [inputs[i] EXCEPT !.phase = "resolved", !.outcome = how] ELSE inputs[i]]
      /\ UNCHANGED <<tier, slot, gone, captureSequences, exposures>>
  BY DEF S!Ends
<1>2. \A i \in ended : i \in DOMAIN inputs /\ inputs[i].phase = "waiting"
  BY DEF S!At
<1>3. \A i \in DOMAIN inputs : i \notin ended => inputs'[i] = inputs[i]
  BY <1>1
<1>4. \A i \in ended : inputs'[i] = [inputs[i] EXCEPT !.phase = "resolved", !.outcome = how]
  BY <1>1, <1>2
<1>5. \A i \in ended :
        /\ inputs'[i] \in Entry /\ inputs'[i].phase = "resolved" /\ inputs'[i].outcome = how
        /\ inputs'[i].node = inputs[i].node /\ inputs'[i].what = inputs[i].what
        /\ inputs'[i].camera = inputs[i].camera /\ inputs'[i].number = inputs[i].number
        /\ inputs'[i].aired = inputs[i].aired
  <2> TAKE i \in ended
  <2>1. inputs[i] \in Entry
    BY <1>2, InputsAreIndexed
  <2> QED BY <1>4, <2>1 DEF Entry
<1>6. inputs' \in Seq(Entry) /\ DOMAIN inputs' = DOMAIN inputs
  <2>1. \A i \in DOMAIN inputs : inputs'[i] \in Entry
    BY <1>3, <1>5, InputsAreIndexed
  <2>2. inputs' = [i \in DOMAIN inputs |-> inputs'[i]]
    BY <1>1
  <2> QED BY <2>1, <2>2, RewrittenIsSeq DEF SlotTyped
<1>7. \A i \in DOMAIN inputs :
        /\ inputs'[i].node = inputs[i].node /\ inputs'[i].what = inputs[i].what
        /\ inputs'[i].camera = inputs[i].camera /\ inputs'[i].number = inputs[i].number
  BY <1>3, <1>5
<1>8. SlotTyped'
  BY <1>1, <1>6, <1>7 DEF SlotTyped, S!Nodes
<1>9. SlotIsOwn'
  <2>1. \A i \in DOMAIN inputs : inputs'[i].phase = "waiting" => slot[inputs'[i].node] = i
    BY <1>3, <1>5 DEF SlotIsOwn
  <2>2. \A n \in S!Nodes : slot[n] # None => inputs'[slot[n]].node = n /\ inputs'[slot[n]].phase \in {"waiting", "resolved"}
    BY <1>3, <1>5 DEF SlotIsOwn
  <2> QED BY <1>1, <1>6, <2>1, <2>2 DEF SlotIsOwn, S!Nodes
<1>12. \A i \in DOMAIN inputs : Followed(i)' <=> Followed(i)
  BY <1>6, <1>7 DEF Followed
<1>10. EndsAreTrue'
  <2> SUFFICES ASSUME NEW i \in DOMAIN inputs
               PROVE  /\ inputs'[i].phase = "waiting" => inputs'[i].aired /\ inputs'[i].outcome = "none"
                      /\ inputs'[i].outcome = "closed" => inputs'[i].node \in gone
                      /\ inputs'[i].outcome = "superseded" => inputs'[i].aired /\ Followed(i)'
                      /\ inputs'[i].phase = "done" =>
                           /\ inputs'[i].told = {} => inputs'[i].outcome \in {"nothing", "closed"}
                           /\ inputs'[i].outcome = "superseded" => inputs'[i].told = {1}
    BY <1>1, <1>6 DEF EndsAreTrue
  <2>1. CASE i \in ended
    BY <1>5, <2>1
  <2>2. CASE i \notin ended
    BY <1>3, <1>12, <2>2 DEF EndsAreTrue
  <2> QED BY <2>1, <2>2
<1>11. NumbersAreOwn'
  BY <1>1, <1>6, <1>7, NumbersAreKept
<1> QED BY <1>8, <1>9, <1>10, <1>11

\* The input goes on: its outcome is told, and it leaves the slot if it is there.
LEMMA ContinuingKeeps ==
  ASSUME SlotsApart, SlotInv, NEW i \in DOMAIN inputs, S!Continues(i)
  PROVE  SlotInv'
<1> USE DEF SlotInv
<1> DEFINE n == inputs[i].node
<1>1. /\ inputs[i].phase = "resolved"
      /\ inputs' = [inputs EXCEPT ![i].phase = "done", ![i].told = S!Told(inputs[i].outcome)]
      /\ slot' = [slot EXCEPT ![n] = S!Released(n, i)]
      /\ UNCHANGED <<tier, gone, captureSequences, exposures>>
  BY DEF S!Continues, S!At
<1>2. inputs[i] \in Entry /\ n \in S!Nodes /\ i \in Nat /\ i # None
  BY InputsAreIndexed DEF SlotTyped, SlotsApart
<1>3. S!Told(inputs[i].outcome) \in SUBSET {0, 1}
      /\ (S!Told(inputs[i].outcome) = {} => inputs[i].outcome = "closed")
      /\ (inputs[i].outcome = "superseded" => S!Told(inputs[i].outcome) = {1})
  BY DEF S!Told
<1>4. \A k \in DOMAIN inputs : k # i => inputs'[k] = inputs[k]
  BY <1>1
<1>5. /\ inputs'[i] \in Entry /\ inputs'[i].phase = "done" /\ inputs'[i].told = S!Told(inputs[i].outcome)
      /\ inputs'[i].outcome = inputs[i].outcome /\ inputs'[i].aired = inputs[i].aired
      /\ inputs'[i].node = inputs[i].node /\ inputs'[i].what = inputs[i].what
      /\ inputs'[i].camera = inputs[i].camera /\ inputs'[i].number = inputs[i].number
  <2>1. inputs'[i] = [inputs[i] EXCEPT !.phase = "done", !.told = S!Told(inputs[i].outcome)]
    BY <1>1
  <2> HIDE DEF n
  <2> QED BY <1>2, <1>3, <2>1 DEF Entry
<1>6. inputs' \in Seq(Entry) /\ DOMAIN inputs' = DOMAIN inputs
  <2>1. \A k \in DOMAIN inputs : inputs'[k] \in Entry
    BY <1>4, <1>5, InputsAreIndexed
  <2>2. inputs' = [k \in DOMAIN inputs |-> inputs'[k]]
    BY <1>1
  <2> QED BY <2>1, <2>2, RewrittenIsSeq DEF SlotTyped
<1>7. \A k \in DOMAIN inputs :
        /\ inputs'[k].node = inputs[k].node /\ inputs'[k].what = inputs[k].what
        /\ inputs'[k].camera = inputs[k].camera /\ inputs'[k].number = inputs[k].number
        /\ inputs'[k].aired = inputs[k].aired /\ inputs'[k].outcome = inputs[k].outcome
  BY <1>4, <1>5
<1>8. /\ slot' \in [S!Nodes -> Nat \cup {None}]
      /\ \A m \in S!Nodes : slot'[m] = IF m = n /\ slot[m] = i THEN None ELSE slot[m]
  BY <1>1, <1>2 DEF S!Released, SlotTyped
<1>9. SlotTyped'
  BY <1>1, <1>6, <1>7, <1>8 DEF SlotTyped, S!Nodes
<1>10. SlotIsOwn'
  <2>1. ASSUME NEW k \in DOMAIN inputs, inputs'[k].phase = "waiting" PROVE slot'[inputs'[k].node] = k
    <3>1. k # i /\ inputs[k].phase = "waiting" /\ inputs[k].node \in S!Nodes
      BY <1>4, <1>5, <2>1 DEF SlotTyped
    <3>2. slot[inputs[k].node] = k
      BY <3>1 DEF SlotIsOwn
    <3> QED BY <1>7, <1>8, <3>1, <3>2
  <2>2. ASSUME NEW m \in S!Nodes, slot'[m] # None
        PROVE  /\ slot'[m] \in DOMAIN inputs /\ inputs'[slot'[m]].node = m
               /\ inputs'[slot'[m]].phase \in {"waiting", "resolved"}
    <3>1. slot'[m] = slot[m] /\ slot[m] \in DOMAIN inputs /\ inputs[slot[m]].node = m
          /\ inputs[slot[m]].phase \in {"waiting", "resolved"}
      BY <1>8, <2>2 DEF SlotIsOwn
    <3>2. slot[m] # i
      BY <1>8, <2>2, <3>1
    <3> QED BY <1>4, <3>1, <3>2
  <2> QED BY <1>1, <1>6, <2>1, <2>2 DEF SlotIsOwn, S!Nodes
<1>13. \A k \in DOMAIN inputs : Followed(k)' <=> Followed(k)
  BY <1>6, <1>7 DEF Followed
<1>11. EndsAreTrue'
  <2> SUFFICES ASSUME NEW k \in DOMAIN inputs
               PROVE  /\ inputs'[k].phase = "waiting" => inputs'[k].aired /\ inputs'[k].outcome = "none"
                      /\ inputs'[k].outcome = "closed" => inputs'[k].node \in gone
                      /\ inputs'[k].outcome = "superseded" => inputs'[k].aired /\ Followed(k)'
                      /\ inputs'[k].phase = "done" =>
                           /\ inputs'[k].told = {} => inputs'[k].outcome \in {"nothing", "closed"}
                           /\ inputs'[k].outcome = "superseded" => inputs'[k].told = {1}
    BY <1>1, <1>6 DEF EndsAreTrue
  <2>1. CASE k = i
    BY <1>3, <1>5, <1>13, <2>1 DEF EndsAreTrue
  <2>2. CASE k # i
    BY <1>4, <1>13, <2>2 DEF EndsAreTrue
  <2> QED BY <2>1, <2>2
<1>12. NumbersAreOwn'
  BY <1>1, <1>6, <1>7, NumbersAreKept
<1> QED BY <1>9, <1>10, <1>11, <1>12

\* An exposure that repeats what an input asked for stays true.
LEMMA ExposureIsTrue ==
  ASSUME SlotTyped, NEW i \in Nat, NEW c \in Cameras, NEW number \in Nat, NEW what,
         exposures' = exposures \/ exposures' = S!Exposed(i, what, c, number)
  PROVE  /\ exposures' \in [Cameras -> SUBSET (Nat \X Nat)]
         /\ \A d \in Cameras : \A x \in exposures'[d] : x \in exposures[d] \/ (d = c /\ x = <<i, number>>)
<1>1. exposures \in [Cameras -> SUBSET (Nat \X Nat)]
  BY DEF SlotTyped
<1> QED BY <1>1 DEF S!Exposed

\* A transmission repeats the message it was given.
LEMMA ResendingKeeps ==
  ASSUME SlotsApart, SlotInv, NEW i \in DOMAIN inputs, S!Resend(i)
  PROVE  SlotInv'
<1> USE DEF SlotInv
<1>1. UNCHANGED <<tier, slot, gone, inputs, captureSequences>>
  BY DEF S!Resend
<1>2. /\ exposures' \in [Cameras -> SUBSET (Nat \X Nat)]
      /\ \A d \in Cameras : \A x \in exposures'[d] :
           \/ x \in exposures[d]
           \/ d = inputs[i].camera /\ x = <<i, inputs[i].number>> /\ inputs[i].node \in PayloadNodes
  <2>1. CASE inputs[i].node \in PayloadNodes
    <3>1. inputs[i].camera \in Cameras /\ inputs[i].number \in Nat /\ i \in Nat
      BY <2>1, InputsAreIndexed DEF SlotTyped, Entry
    <3>2. exposures' = S!Exposed(i, inputs[i].what, inputs[i].camera, inputs[i].number)
      BY <2>1 DEF S!Resend
    <3> QED BY <2>1, <3>1, <3>2, ExposureIsTrue
  <2>2. CASE inputs[i].node \notin PayloadNodes
    BY <2>2 DEF S!Resend, SlotTyped
  <2> QED BY <2>1, <2>2
<1>3. SlotTyped' /\ SlotIsOwn' /\ EndsAreTrue'
  BY <1>1, <1>2 DEF SlotTyped, S!Nodes, SlotIsOwn, EndsAreTrue, Followed
<1>4. NumbersAreOwn'
  <2>1. \A c \in Cameras : \A x \in exposures'[c] :
          /\ x[1] \in DOMAIN inputs
          /\ inputs[x[1]].node \in PayloadNodes /\ inputs[x[1]].camera = c /\ inputs[x[1]].number = x[2]
    BY <1>2 DEF NumbersAreOwn
  <2> QED BY <1>1, <2>1 DEF NumbersAreOwn, Photo
<1> QED BY <1>3, <1>4

\* What the slot holds is cancelled; nothing else is.
LEMMA CancellingIsTyped ==
  ASSUME SlotsApart, SlotInv, S!Quiet, NEW n \in S!Nodes, NEW how \in {"superseded", "closed"},
         NEW cut, cut = S!Cancelled(n, how)
  PROVE  /\ cut \in Seq(Entry) /\ DOMAIN cut = DOMAIN inputs
         /\ \A k \in DOMAIN inputs : k # slot[n] => cut[k] = inputs[k]
         /\ \A k \in DOMAIN inputs : k = slot[n] =>
              /\ inputs[k].phase = "waiting" /\ inputs[k].node = n /\ inputs[k].aired
              /\ cut[k].phase = "resolved" /\ cut[k].outcome = how
         /\ \A k \in DOMAIN inputs :
              /\ cut[k].node = inputs[k].node /\ cut[k].what = inputs[k].what
              /\ cut[k].camera = inputs[k].camera /\ cut[k].number = inputs[k].number
              /\ cut[k].aired = inputs[k].aired
<1> USE DEF SlotInv
<1>1. cut = [k \in DOMAIN inputs |->
               IF k = slot[n] THEN [inputs[k] EXCEPT !.phase = "resolved", !.outcome = how] ELSE inputs[k]]
  BY DEF S!Cancelled
<1>2. \A k \in DOMAIN inputs : k # slot[n] => cut[k] = inputs[k]
  BY <1>1
<1>3. \A k \in DOMAIN inputs : k = slot[n] =>
        /\ inputs[k].phase = "waiting" /\ inputs[k].node = n /\ inputs[k].aired
  <2> SUFFICES ASSUME NEW k \in DOMAIN inputs, k = slot[n]
               PROVE  inputs[k].phase = "waiting" /\ inputs[k].node = n /\ inputs[k].aired
    OBVIOUS
  <2>1. slot[n] # None
    BY InputsAreIndexed DEF SlotsApart
  <2>2. inputs[k].node = n /\ inputs[k].phase \in {"waiting", "resolved"}
    BY <2>1 DEF SlotIsOwn
  <2>3. inputs[k].phase = "waiting"
    BY <2>2 DEF S!Quiet, S!At
  <2> QED BY <2>2, <2>3 DEF EndsAreTrue
<1>4. \A k \in DOMAIN inputs : k = slot[n] =>
        /\ cut[k] \in Entry /\ cut[k].phase = "resolved" /\ cut[k].outcome = how
        /\ cut[k].node = inputs[k].node /\ cut[k].what = inputs[k].what
        /\ cut[k].camera = inputs[k].camera /\ cut[k].number = inputs[k].number /\ cut[k].aired = inputs[k].aired
  <2> SUFFICES ASSUME NEW k \in DOMAIN inputs, k = slot[n]
               PROVE  /\ cut[k] \in Entry /\ cut[k].phase = "resolved" /\ cut[k].outcome = how
                      /\ cut[k].node = inputs[k].node /\ cut[k].what = inputs[k].what
                      /\ cut[k].camera = inputs[k].camera /\ cut[k].number = inputs[k].number
                      /\ cut[k].aired = inputs[k].aired
    OBVIOUS
  <2>1. inputs[k] \in Entry
    BY InputsAreIndexed
  <2>2. cut[k] = [inputs[k] EXCEPT !.phase = "resolved", !.outcome = how]
    BY <1>1
  <2> QED BY <2>1, <2>2 DEF Entry
<1>5. cut \in Seq(Entry) /\ DOMAIN cut = DOMAIN inputs
  <2>1. \A k \in DOMAIN inputs : cut[k] \in Entry
    BY <1>2, <1>4, InputsAreIndexed
  <2>2. cut = [k \in DOMAIN inputs |-> cut[k]]
    BY <1>1
  <2> QED BY <2>1, <2>2, RewrittenIsSeq DEF SlotTyped
<1> QED BY <1>2, <1>3, <1>4, <1>5

\* A node closes: what it waited on ends quietly.
LEMMA ClosingKeeps ==
  ASSUME SlotsApart, SlotInv, NEW n \in S!Nodes, S!Closes(n)
  PROVE  SlotInv'
<1> USE DEF SlotInv
<1>1. /\ S!Quiet /\ gone' = gone \cup {n} /\ inputs' = S!Cancelled(n, "closed")
      /\ slot' = [slot EXCEPT ![n] = None]
      /\ UNCHANGED <<tier, captureSequences, exposures>>
  BY DEF S!Closes
<1>2. /\ inputs' \in Seq(Entry) /\ DOMAIN inputs' = DOMAIN inputs
      /\ \A k \in DOMAIN inputs : k # slot[n] => inputs'[k] = inputs[k]
      /\ \A k \in DOMAIN inputs : k = slot[n] =>
           /\ inputs[k].node = n /\ inputs'[k].phase = "resolved" /\ inputs'[k].outcome = "closed"
      /\ \A k \in DOMAIN inputs :
           /\ inputs'[k].node = inputs[k].node /\ inputs'[k].what = inputs[k].what
           /\ inputs'[k].camera = inputs[k].camera /\ inputs'[k].number = inputs[k].number
           /\ inputs'[k].aired = inputs[k].aired
  BY <1>1, CancellingIsTyped
<1>3. slot' \in [S!Nodes -> Nat \cup {None}] /\ \A m \in S!Nodes : slot'[m] = IF m = n THEN None ELSE slot[m]
  BY <1>1 DEF SlotTyped
<1>4. SlotTyped'
  BY <1>1, <1>2, <1>3 DEF SlotTyped, S!Nodes
<1>5. SlotIsOwn'
  <2>1. ASSUME NEW k \in DOMAIN inputs, inputs'[k].phase = "waiting" PROVE slot'[inputs'[k].node] = k
    <3>1. k # slot[n] /\ inputs[k].phase = "waiting" /\ inputs[k].node \in S!Nodes
      BY <1>2, <2>1 DEF SlotTyped
    <3>2. slot[inputs[k].node] = k
      BY <3>1 DEF SlotIsOwn
    <3> QED BY <1>2, <1>3, <3>1, <3>2
  <2>2. ASSUME NEW m \in S!Nodes, slot'[m] # None
        PROVE  /\ slot'[m] \in DOMAIN inputs /\ inputs'[slot'[m]].node = m
               /\ inputs'[slot'[m]].phase \in {"waiting", "resolved"}
    <3>1. slot'[m] = slot[m] /\ m # n /\ slot[m] \in DOMAIN inputs /\ inputs[slot[m]].node = m
          /\ inputs[slot[m]].phase \in {"waiting", "resolved"}
      BY <1>3, <2>2 DEF SlotIsOwn
    <3> QED BY <1>2, <3>1
  <2> QED BY <1>1, <1>2, <2>1, <2>2 DEF SlotIsOwn, S!Nodes
<1>6. \A k \in DOMAIN inputs : Followed(k)' <=> Followed(k)
  BY <1>2 DEF Followed
<1>7. EndsAreTrue'
  <2> SUFFICES ASSUME NEW k \in DOMAIN inputs
               PROVE  /\ inputs'[k].phase = "waiting" => inputs'[k].aired /\ inputs'[k].outcome = "none"
                      /\ inputs'[k].outcome = "closed" => inputs'[k].node \in gone'
                      /\ inputs'[k].outcome = "superseded" => inputs'[k].aired /\ Followed(k)'
                      /\ inputs'[k].phase = "done" =>
                           /\ inputs'[k].told = {} => inputs'[k].outcome \in {"nothing", "closed"}
                           /\ inputs'[k].outcome = "superseded" => inputs'[k].told = {1}
    BY <1>1, <1>2 DEF EndsAreTrue
  <2>1. CASE k = slot[n]
    BY <1>1, <1>2, <2>1
  <2>2. CASE k # slot[n]
    BY <1>1, <1>2, <1>6, <2>2 DEF EndsAreTrue
  <2> QED BY <2>1, <2>2
<1>8. NumbersAreOwn'
  BY <1>1, <1>2, NumbersAreKept
<1> QED BY <1>4, <1>5, <1>7, <1>8

\* One more input.
LEMMA AppendedIsSeq ==
  ASSUME NEW T, NEW s \in Seq(T), NEW e \in T
  PROVE  /\ Append(s, e) \in Seq(T) /\ DOMAIN Append(s, e) = DOMAIN s \cup {Len(s) + 1}
         /\ Append(s, e)[Len(s) + 1] = e /\ \A k \in DOMAIN s : Append(s, e)[k] = s[k] /\ k < Len(s) + 1
         /\ Len(s) + 1 \notin DOMAIN s /\ Len(s) + 1 \in Nat
  OBVIOUS

\* The input takes the next number of its camera if it is a photo, and what it
\* asks for reaches the camera or does not.
LEMMA NumberingKeeps ==
  ASSUME SlotTyped, NumbersAreOwn, NEW i \in Nat, NEW n \in Wheres, NEW what, NEW c, NEW number \in Nat,
         n \in PayloadNodes => c \in Cameras,
         number = IF n \in PayloadNodes THEN S!Number(what, c) ELSE 0,
         i \notin DOMAIN inputs, \A k \in DOMAIN inputs : k < i,
         DOMAIN inputs' = DOMAIN inputs \cup {i},
         \A k \in DOMAIN inputs : /\ inputs'[k].node = inputs[k].node /\ inputs'[k].what = inputs[k].what
                                  /\ inputs'[k].camera = inputs[k].camera /\ inputs'[k].number = inputs[k].number,
         inputs'[i].node = n, inputs'[i].what = what, inputs'[i].camera = c, inputs'[i].number = number,
         captureSequences' = (IF number = 0 THEN captureSequences ELSE S!Counted(c, number)),
         \/ exposures' = exposures
         \/ exposures' = (IF n \in PayloadNodes THEN S!Exposed(i, what, c, number) ELSE exposures)
  PROVE  /\ NumbersAreOwn'
         /\ DOMAIN captureSequences' \subseteq Cameras /\ captureSequences' \in [DOMAIN captureSequences' -> Nat]
         /\ exposures' \in [Cameras -> SUBSET (Nat \X Nat)]
<1>1. DOMAIN captureSequences \subseteq Cameras /\ captureSequences \in [DOMAIN captureSequences -> Nat]
  BY DEF SlotTyped
<1>2. n \in PayloadNodes => (number = 0 <=> what # "photo")
  <2> HAVE n \in PayloadNodes
  <2>1. c \in DOMAIN captureSequences => captureSequences[c] \in Nat
    BY <1>1
  <2> QED BY <2>1 DEF S!Number
<1>3. number # 0 => n \in PayloadNodes /\ c \in Cameras /\ what = "photo"
  BY <1>2
<1>4. /\ DOMAIN captureSequences' = IF number = 0 THEN DOMAIN captureSequences ELSE DOMAIN captureSequences \cup {c}
      /\ number # 0 => captureSequences'[c] = number
      /\ \A d \in DOMAIN captureSequences : d # c \/ number = 0 => captureSequences'[d] = captureSequences[d]
  BY DEF S!Counted
<1>5. DOMAIN captureSequences' \subseteq Cameras
  BY <1>1, <1>3, <1>4
<1>6. captureSequences' \in [DOMAIN captureSequences' -> Nat]
  <2>1. CASE number = 0
    BY <1>1, <2>1
  <2>2. CASE number # 0
    BY <1>1, <2>2 DEF S!Counted
  <2> QED BY <2>1, <2>2
<1>7. number # 0 /\ c \in DOMAIN captureSequences => captureSequences[c] < number
  <2> HAVE number # 0 /\ c \in DOMAIN captureSequences
  <2>1. number = captureSequences[c] + 1 /\ captureSequences[c] \in Nat
    BY <1>1, <1>3 DEF S!Number
  <2> QED BY <2>1
<1>8. \A d \in DOMAIN captureSequences : captureSequences[d] <= captureSequences'[d]
                                         /\ captureSequences[d] \in Nat /\ captureSequences'[d] \in Nat
  <2> TAKE d \in DOMAIN captureSequences
  <2>1. captureSequences[d] \in Nat
    BY <1>1
  <2>2. CASE d # c \/ number = 0
    BY <1>4, <2>1, <2>2
  <2>3. CASE d = c /\ number # 0
    BY <1>4, <1>7, <2>1, <2>3
  <2> QED BY <2>2, <2>3
<1>9. \A k \in DOMAIN inputs : k # i /\ (Photo(k)' <=> Photo(k)) /\ inputs[k].number \in Nat
  BY InputsAreIndexed DEF Photo, Entry
<1>10. Photo(i)' => number # 0 /\ n \in PayloadNodes /\ what = "photo"
  BY <1>2 DEF Photo
<1>11. \A k \in DOMAIN inputs : Photo(k)' =>
         /\ inputs'[k].camera \in DOMAIN captureSequences
         /\ inputs'[k].number <= captureSequences[inputs'[k].camera]
  BY <1>9 DEF NumbersAreOwn
<1>12. \A k \in DOMAIN inputs' : inputs'[k].node \in PayloadNodes => (inputs'[k].number = 0 <=> inputs'[k].what # "photo")
  BY <1>2, <1>9 DEF NumbersAreOwn
<1>13. \A k \in DOMAIN inputs' : Photo(k)' =>
         inputs'[k].camera \in DOMAIN captureSequences' /\ inputs'[k].number <= captureSequences'[inputs'[k].camera]
  <2> TAKE k \in DOMAIN inputs'
  <2> HAVE Photo(k)'
  <2>1. CASE k = i
    BY <1>4, <1>10, <2>1
  <2>2. CASE k # i
    <3>1. k \in DOMAIN inputs
      BY <2>2
    <3>2. /\ inputs'[k].camera \in DOMAIN captureSequences
          /\ inputs'[k].number <= captureSequences[inputs'[k].camera]
      BY <1>11, <3>1
    <3>3. inputs'[k].number \in Nat
      BY <1>9, <3>1
    <3>4. /\ captureSequences[inputs'[k].camera] <= captureSequences'[inputs'[k].camera]
          /\ captureSequences[inputs'[k].camera] \in Nat /\ captureSequences'[inputs'[k].camera] \in Nat
      BY <1>8, <3>2
    <3> QED BY <1>4, <3>2, <3>3, <3>4
  <2> QED BY <2>1, <2>2
<1>14. \A j, k \in DOMAIN inputs' : Photo(j)' /\ Photo(k)' /\ inputs'[j].camera = inputs'[k].camera /\ j < k =>
         inputs'[j].number < inputs'[k].number
  <2> TAKE j, k \in DOMAIN inputs'
  <2> HAVE Photo(j)' /\ Photo(k)' /\ inputs'[j].camera = inputs'[k].camera /\ j < k
  <2>1. j # i
    BY InputsAreIndexed
  <2>2. j \in DOMAIN inputs
    BY <2>1
  <2>3. CASE k \in DOMAIN inputs
    BY <1>9, <2>2, <2>3 DEF NumbersAreOwn
  <2>4. CASE k = i
    <3>1. c \in DOMAIN captureSequences /\ inputs'[j].number <= captureSequences[c]
      BY <1>11, <2>2, <2>4
    <3>2. captureSequences[c] < number /\ captureSequences[c] \in Nat
      BY <1>7, <1>8, <1>10, <2>4, <3>1
    <3>3. inputs'[j].number \in Nat
      BY <1>9, <2>2
    <3> QED BY <2>4, <3>1, <3>2, <3>3
  <2> QED BY <2>3, <2>4
<1>15. /\ exposures' \in [Cameras -> SUBSET (Nat \X Nat)]
       /\ \A d \in Cameras : \A x \in exposures'[d] :
            x \in exposures[d] \/ (n \in PayloadNodes /\ d = c /\ x = <<i, number>>)
  <2>1. CASE exposures' = exposures
    BY <2>1 DEF SlotTyped
  <2>2. CASE n \in PayloadNodes /\ exposures' = S!Exposed(i, what, c, number)
    BY <2>2, ExposureIsTrue
  <2> QED BY <2>1, <2>2
<1>16. \A d \in Cameras : \A x \in exposures'[d] :
         /\ x[1] \in DOMAIN inputs'
         /\ inputs'[x[1]].node \in PayloadNodes /\ inputs'[x[1]].camera = d /\ inputs'[x[1]].number = x[2]
  <2> TAKE d \in Cameras
  <2> TAKE x \in exposures'[d]
  <2>1. CASE x \in exposures[d]
    BY <2>1 DEF NumbersAreOwn
  <2>2. CASE n \in PayloadNodes /\ d = c /\ x = <<i, number>>
    BY <2>2
  <2> QED BY <1>15, <2>1, <2>2
<1> QED BY <1>5, <1>6, <1>12, <1>13, <1>14, <1>15, <1>16 DEF NumbersAreOwn

\* An input ends at once, or supersedes what its node waits on and waits.
LEMMA ArrivalKeeps ==
  ASSUME SlotsApart, SlotInv, S!Quiet, NEW n \in S!Nodes, NEW e \in Entry, e.node = n,
         n \in PayloadNodes => e.camera \in Cameras, e.outcome # "superseded", e.outcome # "closed",
         UNCHANGED <<tier, gone>>,
         \/ /\ inputs' = Append(inputs, e) /\ slot' = slot
            /\ e.phase = "done" /\ (e.told = {} => e.outcome = "nothing")
         \/ /\ inputs' = Append(S!Cancelled(n, "superseded"), e) /\ slot' = [slot EXCEPT ![n] = Len(inputs) + 1]
            /\ \/ e.phase = "waiting" /\ e.aired /\ e.outcome = "none"
               \/ e.phase = "resolved"
  PROVE  /\ inputs' \in Seq(Entry) /\ DOMAIN inputs' = DOMAIN inputs \cup {Len(inputs) + 1}
         /\ Len(inputs) + 1 \in Nat /\ Len(inputs) + 1 \notin DOMAIN inputs
         /\ inputs'[Len(inputs) + 1] = e
         /\ \A k \in DOMAIN inputs :
              /\ inputs'[k].node = inputs[k].node /\ inputs'[k].what = inputs[k].what
              /\ inputs'[k].camera = inputs[k].camera /\ inputs'[k].number = inputs[k].number
              /\ k < Len(inputs) + 1
         /\ slot' \in [S!Nodes -> Nat \cup {None}] /\ SlotIsOwn' /\ EndsAreTrue'
         /\ \A k \in DOMAIN inputs' : inputs'[k].node \in S!Nodes /\ (inputs'[k].node \in PayloadNodes => inputs'[k].camera \in Cameras)
<1> USE DEF SlotInv
<1> DEFINE i == Len(inputs) + 1
<1>1. /\ inputs \in Seq(Entry) /\ i \in Nat /\ i # None
      /\ \A k \in DOMAIN inputs : inputs[k].node \in S!Nodes /\ (inputs[k].node \in PayloadNodes => inputs[k].camera \in Cameras)
      /\ slot \in [S!Nodes -> Nat \cup {None}]
  BY InputsAreIndexed DEF SlotTyped, SlotsApart
<1>2. \A m \in S!Nodes : slot[m] # i
  BY <1>1, AppendedIsSeq DEF SlotIsOwn
<1>3. CASE /\ inputs' = Append(inputs, e) /\ slot' = slot
           /\ e.phase = "done" /\ (e.told = {} => e.outcome = "nothing")
  <2>1. /\ inputs' \in Seq(Entry) /\ DOMAIN inputs' = DOMAIN inputs \cup {i} /\ i \notin DOMAIN inputs
        /\ inputs'[i] = e /\ \A k \in DOMAIN inputs : inputs'[k] = inputs[k] /\ k < i
    BY <1>1, <1>3, AppendedIsSeq
  <2> HIDE DEF i
  <2>2. SlotIsOwn'
    <3>1. \A k \in DOMAIN inputs' : inputs'[k].phase = "waiting" => slot[inputs'[k].node] = k
      BY <1>3, <2>1 DEF SlotIsOwn
    <3>2. \A m \in S!Nodes : slot[m] # None =>
            /\ slot[m] \in DOMAIN inputs' /\ inputs'[slot[m]].node = m /\ inputs'[slot[m]].phase \in {"waiting", "resolved"}
      BY <2>1 DEF SlotIsOwn
    <3> QED BY <1>3, <3>1, <3>2 DEF SlotIsOwn, S!Nodes
  <2>3. \A k \in DOMAIN inputs : Followed(k) => Followed(k)'
    BY <2>1 DEF Followed
  <2>4. EndsAreTrue'
    <3> SUFFICES ASSUME NEW k \in DOMAIN inputs'
                 PROVE  /\ inputs'[k].phase = "waiting" => inputs'[k].aired /\ inputs'[k].outcome = "none"
                        /\ inputs'[k].outcome = "closed" => inputs'[k].node \in gone
                        /\ inputs'[k].outcome = "superseded" => inputs'[k].aired /\ Followed(k)'
                        /\ inputs'[k].phase = "done" =>
                             /\ inputs'[k].told = {} => inputs'[k].outcome \in {"nothing", "closed"}
                             /\ inputs'[k].outcome = "superseded" => inputs'[k].told = {1}
      BY DEF EndsAreTrue
    <3>1. CASE k = i
      BY <1>3, <2>1, <3>1
    <3>2. CASE k # i
      BY <2>1, <2>3, <3>2 DEF EndsAreTrue
    <3> QED BY <3>1, <3>2
  <2>5. \A k \in DOMAIN inputs' :
          inputs'[k].node \in S!Nodes /\ (inputs'[k].node \in PayloadNodes => inputs'[k].camera \in Cameras)
    BY <1>1, <2>1
  <2>6. slot' \in [S!Nodes -> Nat \cup {None}]
    BY <1>1, <1>3
  <2> QED BY <1>1, <2>1, <2>2, <2>4, <2>5, <2>6 DEF i
<1>4. CASE /\ inputs' = Append(S!Cancelled(n, "superseded"), e) /\ slot' = [slot EXCEPT ![n] = i]
           /\ \/ e.phase = "waiting" /\ e.aired /\ e.outcome = "none"
              \/ e.phase = "resolved"
  <2> DEFINE cut == S!Cancelled(n, "superseded")
  <2>1. /\ cut \in Seq(Entry) /\ DOMAIN cut = DOMAIN inputs
        /\ \A k \in DOMAIN inputs : k # slot[n] => cut[k] = inputs[k]
        /\ \A k \in DOMAIN inputs : k = slot[n] =>
             /\ inputs[k].node = n /\ inputs[k].aired
             /\ cut[k].phase = "resolved" /\ cut[k].outcome = "superseded"
        /\ \A k \in DOMAIN inputs :
             /\ cut[k].node = inputs[k].node /\ cut[k].what = inputs[k].what
             /\ cut[k].camera = inputs[k].camera /\ cut[k].number = inputs[k].number
             /\ cut[k].aired = inputs[k].aired
    BY CancellingIsTyped
  <2>2. inputs' = Append(cut, e)
    BY <1>4
  <2> HIDE DEF cut
  <2>3. Len(cut) = Len(inputs)
    BY <1>1, <2>1
  <2>4. /\ inputs' \in Seq(Entry) /\ DOMAIN inputs' = DOMAIN inputs \cup {i} /\ i \notin DOMAIN inputs
        /\ inputs'[i] = e /\ \A k \in DOMAIN inputs : inputs'[k] = cut[k] /\ k < i
    BY <2>1, <2>2, <2>3, AppendedIsSeq
  <2>5. slot' \in [S!Nodes -> Nat \cup {None}] /\ \A m \in S!Nodes : slot'[m] = IF m = n THEN i ELSE slot[m]
    BY <1>1, <1>4
  <2> HIDE DEF i
  <2>6. SlotIsOwn'
    <3>1. ASSUME NEW k \in DOMAIN inputs', inputs'[k].phase = "waiting" PROVE slot'[inputs'[k].node] = k
      <4>1. CASE k = i
        BY <2>4, <2>5, <4>1
      <4>2. CASE k \in DOMAIN inputs
        <5>1. k # slot[n] /\ inputs'[k] = inputs[k]
          BY <2>1, <2>4, <3>1, <4>2
        <5>2. slot[inputs[k].node] = k /\ inputs[k].node \in S!Nodes
          BY <1>1, <3>1, <4>2, <5>1 DEF SlotIsOwn
        <5> QED BY <2>5, <5>1, <5>2
      <4> QED BY <2>4, <4>1, <4>2
    <3>2. ASSUME NEW m \in S!Nodes, slot'[m] # None
          PROVE  /\ slot'[m] \in DOMAIN inputs' /\ inputs'[slot'[m]].node = m
                 /\ inputs'[slot'[m]].phase \in {"waiting", "resolved"}
      <4>1. CASE m = n
        BY <1>4, <2>4, <2>5, <4>1
      <4>2. CASE m # n
        <5>1. /\ slot'[m] = slot[m] /\ slot[m] \in DOMAIN inputs /\ inputs[slot[m]].node = m
              /\ inputs[slot[m]].phase \in {"waiting", "resolved"}
          BY <2>5, <3>2, <4>2 DEF SlotIsOwn
        <5>2. slot[m] # slot[n]
          BY <2>1, <4>2, <5>1
        <5> QED BY <2>1, <2>4, <5>1, <5>2
      <4> QED BY <4>1, <4>2
    <3> QED BY <3>1, <3>2 DEF SlotIsOwn, S!Nodes
  <2>7. \A k \in DOMAIN inputs : Followed(k) \/ k = slot[n] => Followed(k)'
    BY <2>1, <2>4 DEF Followed
  <2>8. EndsAreTrue'
    <3> SUFFICES ASSUME NEW k \in DOMAIN inputs'
                 PROVE  /\ inputs'[k].phase = "waiting" => inputs'[k].aired /\ inputs'[k].outcome = "none"
                        /\ inputs'[k].outcome = "closed" => inputs'[k].node \in gone
                        /\ inputs'[k].outcome = "superseded" => inputs'[k].aired /\ Followed(k)'
                        /\ inputs'[k].phase = "done" =>
                             /\ inputs'[k].told = {} => inputs'[k].outcome \in {"nothing", "closed"}
                             /\ inputs'[k].outcome = "superseded" => inputs'[k].told = {1}
      BY DEF EndsAreTrue
    <3>1. CASE k = i
      BY <1>4, <2>4, <3>1
    <3>2. CASE k \in DOMAIN inputs /\ k = slot[n]
      BY <2>1, <2>4, <2>7, <3>2
    <3>3. CASE k \in DOMAIN inputs /\ k # slot[n]
      BY <2>1, <2>4, <2>7, <3>3 DEF EndsAreTrue
    <3> QED BY <2>4, <3>1, <3>2, <3>3
  <2>9. \A k \in DOMAIN inputs' :
          inputs'[k].node \in S!Nodes /\ (inputs'[k].node \in PayloadNodes => inputs'[k].camera \in Cameras)
    BY <1>1, <2>1, <2>4
  <2> QED BY <1>1, <2>1, <2>4, <2>5, <2>6, <2>8, <2>9 DEF i
<1> QED BY <1>3, <1>4

\* What arrives is one of the entries Input can make of it.
LEMMA InputIsAnArrival ==
  ASSUME SlotTyped, NEW n \in S!Nodes \cap Wheres, NEW what \in {"photo", "burst", "aim", "read", "set", "request-list"},
         NEW c \in Cameras \cup {None}, n \in PayloadNodes => c \in Cameras, S!Input(n, what, c)
  PROVE  \E e \in Entry :
           /\ e.node = n /\ e.what = what /\ e.camera = c /\ e.number = (IF n \in PayloadNodes THEN S!Number(what, c) ELSE 0)
           /\ e.outcome # "superseded" /\ e.outcome # "closed"
           /\ \/ /\ inputs' = Append(inputs, e) /\ slot' = slot
                 /\ e.phase = "done" /\ (e.told = {} => e.outcome = "nothing")
              \/ /\ inputs' = Append(S!Cancelled(n, "superseded"), e) /\ slot' = [slot EXCEPT ![n] = Len(inputs) + 1]
                 /\ \/ e.phase = "waiting" /\ e.aired /\ e.outcome = "none"
                    \/ e.phase = "resolved"
           /\ captureSequences' = (IF e.number = 0 THEN captureSequences ELSE S!Counted(c, e.number))
           /\ \/ exposures' = exposures
              \/ exposures' = (IF n \in PayloadNodes THEN S!Exposed(Len(inputs) + 1, what, c, e.number) ELSE exposures)
<1> DEFINE i == Len(inputs) + 1
           number == IF n \in PayloadNodes THEN S!Number(what, c) ELSE 0
           sees == IF n \in PayloadNodes THEN S!Exposed(i, what, c, number) ELSE exposures
           cut == S!Cancelled(n, "superseded")
           new(phase, end, told, aired) ==
             [node |-> n, what |-> what, camera |-> c, number |-> number,
              phase |-> phase, outcome |-> end, told |-> told, aired |-> aired]
<1>1. number \in Nat
  BY DEF SlotTyped, S!Number
<1>2. captureSequences' = (IF number = 0 THEN captureSequences ELSE S!Counted(c, number))
  BY DEF S!Input
<1>3. \/ inputs' = Append(inputs, new("done", "built", {0, 1}, FALSE)) /\ slot' = slot /\ exposures' = exposures
      \/ inputs' = Append(inputs, new("done", "nothing", {}, FALSE)) /\ slot' = slot /\ exposures' = exposures
      \/ inputs' = Append(inputs, new("done", "sent", {0, 1}, TRUE)) /\ slot' = slot /\ exposures' = sees
      \/ inputs' = Append(inputs, new("done", "failed", {1}, FALSE)) /\ slot' = slot /\ exposures' = exposures
      \/ /\ inputs' = Append(cut, new("waiting", "none", {}, TRUE)) /\ slot' = [slot EXCEPT ![n] = i]
         /\ exposures' = sees
      \/ /\ inputs' = Append(cut, new("resolved", "failed", {}, FALSE)) /\ slot' = [slot EXCEPT ![n] = i]
         /\ exposures' = exposures
  BY DEF S!Input
<1>4. /\ number = (IF n \in PayloadNodes THEN S!Number(what, c) ELSE 0)
      /\ sees = (IF n \in PayloadNodes THEN S!Exposed(Len(inputs) + 1, what, c, number) ELSE exposures)
      /\ cut = S!Cancelled(n, "superseded") /\ i = Len(inputs) + 1
  OBVIOUS
<1> HIDE DEF number, sees, cut, i
<1>5. CASE inputs' = Append(inputs, new("done", "built", {0, 1}, FALSE)) /\ slot' = slot /\ exposures' = exposures
  <2> DEFINE e == new("done", "built", {0, 1}, FALSE)
  <2>1. e \in Entry
    BY <1>1 DEF Entry
  <2> QED BY <1>2, <1>4, <1>5, <2>1
<1>6. CASE inputs' = Append(inputs, new("done", "nothing", {}, FALSE)) /\ slot' = slot /\ exposures' = exposures
  <2> DEFINE e == new("done", "nothing", {}, FALSE)
  <2>1. e \in Entry
    BY <1>1 DEF Entry
  <2> QED BY <1>2, <1>4, <1>6, <2>1
<1>7. CASE inputs' = Append(inputs, new("done", "sent", {0, 1}, TRUE)) /\ slot' = slot /\ exposures' = sees
  <2> DEFINE e == new("done", "sent", {0, 1}, TRUE)
  <2>1. e \in Entry
    BY <1>1 DEF Entry
  <2> QED BY <1>2, <1>4, <1>7, <2>1
<1>8. CASE inputs' = Append(inputs, new("done", "failed", {1}, FALSE)) /\ slot' = slot /\ exposures' = exposures
  <2> DEFINE e == new("done", "failed", {1}, FALSE)
  <2>1. e \in Entry
    BY <1>1 DEF Entry
  <2> QED BY <1>2, <1>4, <1>8, <2>1
<1>9. CASE /\ inputs' = Append(cut, new("waiting", "none", {}, TRUE)) /\ slot' = [slot EXCEPT ![n] = i]
           /\ exposures' = sees
  <2> DEFINE e == new("waiting", "none", {}, TRUE)
  <2>1. e \in Entry
    BY <1>1 DEF Entry
  <2> QED BY <1>2, <1>4, <1>9, <2>1
<1>10. CASE /\ inputs' = Append(cut, new("resolved", "failed", {}, FALSE)) /\ slot' = [slot EXCEPT ![n] = i]
            /\ exposures' = exposures
  <2> DEFINE e == new("resolved", "failed", {}, FALSE)
  <2>1. e \in Entry
    BY <1>1 DEF Entry
  <2> QED BY <1>2, <1>4, <1>10, <2>1
<1> QED BY <1>3, <1>5, <1>6, <1>7, <1>8, <1>9, <1>10

\* An input arrives, at any tier.
LEMMA InputKeeps ==
  ASSUME SlotsApart, SlotInv, NEW n \in S!Nodes \cap Wheres,
         NEW what \in {"photo", "burst", "aim", "read", "set", "request-list"},
         NEW c \in Cameras \cup {None}, n \in PayloadNodes => c \in Cameras, S!Input(n, what, c)
  PROVE  SlotInv'
<1> USE DEF SlotInv
<1> DEFINE number == IF n \in PayloadNodes THEN S!Number(what, c) ELSE 0
<1>1. S!Quiet /\ UNCHANGED <<tier, gone>>
  BY DEF S!Input
<1>2. PICK e \in Entry :
        /\ e.node = n /\ e.what = what /\ e.camera = c /\ e.number = number
        /\ e.outcome # "superseded" /\ e.outcome # "closed"
        /\ \/ /\ inputs' = Append(inputs, e) /\ slot' = slot
              /\ e.phase = "done" /\ (e.told = {} => e.outcome = "nothing")
           \/ /\ inputs' = Append(S!Cancelled(n, "superseded"), e) /\ slot' = [slot EXCEPT ![n] = Len(inputs) + 1]
              /\ \/ e.phase = "waiting" /\ e.aired /\ e.outcome = "none"
                 \/ e.phase = "resolved"
        /\ captureSequences' = (IF e.number = 0 THEN captureSequences ELSE S!Counted(c, e.number))
        /\ \/ exposures' = exposures
           \/ exposures' = (IF n \in PayloadNodes THEN S!Exposed(Len(inputs) + 1, what, c, e.number) ELSE exposures)
  BY InputIsAnArrival
<1>3. e.number \in Nat
  BY DEF Entry
<1>4. /\ inputs' \in Seq(Entry) /\ DOMAIN inputs' = DOMAIN inputs \cup {Len(inputs) + 1}
      /\ Len(inputs) + 1 \in Nat /\ Len(inputs) + 1 \notin DOMAIN inputs
      /\ inputs'[Len(inputs) + 1] = e
      /\ \A k \in DOMAIN inputs :
           /\ inputs'[k].node = inputs[k].node /\ inputs'[k].what = inputs[k].what
           /\ inputs'[k].camera = inputs[k].camera /\ inputs'[k].number = inputs[k].number
           /\ k < Len(inputs) + 1
      /\ slot' \in [S!Nodes -> Nat \cup {None}] /\ SlotIsOwn' /\ EndsAreTrue'
      /\ \A k \in DOMAIN inputs' : inputs'[k].node \in S!Nodes /\ (inputs'[k].node \in PayloadNodes => inputs'[k].camera \in Cameras)
  <2> HIDE DEF number
  <2> QED BY <1>1, <1>2, ArrivalKeeps
<1>5. /\ NumbersAreOwn'
      /\ DOMAIN captureSequences' \subseteq Cameras /\ captureSequences' \in [DOMAIN captureSequences' -> Nat]
      /\ exposures' \in [Cameras -> SUBSET (Nat \X Nat)]
  BY <1>2, <1>3, <1>4, NumberingKeeps
<1>6. SlotTyped'
  BY <1>1, <1>4, <1>5 DEF SlotTyped, S!Nodes
<1> QED BY <1>4, <1>5, <1>6

\* Whatever arrives, answers, ends, goes on or closes.
LEMMA SlotStepKeeps ==
  ASSUME SlotsApart, SlotInv, S!SlotNext
  PROVE  SlotInv'
<1>1. ASSUME NEW n \in PayloadNodes \cap S!Nodes, NEW what \in S!Whats(n), NEW c \in Cameras, S!Input(n, what, c)
      PROVE  SlotInv'
  <2>1. what \in {"photo", "burst", "aim", "read", "set", "request-list"}
    BY <1>1 DEF S!Whats
  <2> QED BY <1>1, <2>1, InputKeeps DEF Wheres
<1>2. ASSUME NEW n \in ParamNodes \cap S!Nodes, NEW what \in S!Whats(n), S!Input(n, what, None) PROVE SlotInv'
  <2>1. what \in {"photo", "burst", "aim", "read", "set", "request-list"} /\ n \notin PayloadNodes
    BY <1>2 DEF S!Whats, SlotsApart
  <2> QED BY <1>2, <2>1, InputKeeps DEF Wheres
<1>3. ASSUME NEW i \in DOMAIN inputs, S!Resend(i) \/ S!Answered(i) \/ S!TimesOut(i) \/ S!Continues(i) PROVE SlotInv'
  <2>1. CASE S!Answered(i)
    <3>1. {i} \in SUBSET S!At("waiting") /\ S!Ends({i}, "accepted")
      BY <2>1 DEF S!Answered
    <3> QED BY <3>1, EndingWaitsKeeps
  <2>2. CASE S!TimesOut(i)
    <3>1. {i} \in SUBSET S!At("waiting") /\ S!Ends({i}, "unconfirmed")
      BY <2>2 DEF S!TimesOut
    <3> QED BY <3>1, EndingWaitsKeeps
  <2> QED BY <1>3, <2>1, <2>2, ResendingKeeps, ContinuingKeeps
<1>4. ASSUME NEW c \in Cameras, S!Acknowledged(c) PROVE SlotInv'
  <2>1. PICK how \in {"accepted", "denied"} :
          S!Ends({i \in S!At("waiting") : inputs[i].node \in PayloadNodes /\ inputs[i].camera = c}, how)
    BY <1>4 DEF S!Acknowledged
  <2> QED BY <2>1, EndingWaitsKeeps
<1> QED BY <1>1, <1>2, <1>3, <1>4, ClosingKeeps DEF S!SlotNext

\* Nothing of the slot moves.
LEMMA SlotIsLeftAlone ==
  ASSUME SlotInv, UNCHANGED slotVars
  PROVE  SlotInv'
<1>1. UNCHANGED <<tier, slot, gone, inputs, captureSequences, exposures>>
  BY DEF slotVars
<1>2. SlotTyped' /\ SlotIsOwn' /\ EndsAreTrue' /\ NumbersAreOwn'
  BY <1>1 DEF SlotInv, SlotTyped, S!Nodes, SlotIsOwn, EndsAreTrue, Followed, NumbersAreOwn, Photo
<1> QED BY <1>2 DEF SlotInv

\* Nodes start with empty slots, and no photo taken.
LEMMA SlotStarts ==
  ASSUME SlotsApart, S!SlotInit
  PROVE  SlotInv
<1>1. /\ slot = [n \in S!Nodes |-> None] /\ gone = {} /\ inputs = << >>
      /\ captureSequences = << >> /\ exposures = [c \in Cameras |-> {}]
  BY DEF S!SlotInit
<1>2. inputs \in Seq(Entry) /\ DOMAIN inputs = {} /\ DOMAIN captureSequences = {}
  BY <1>1
<1>3. SlotTyped
  BY <1>1, <1>2 DEF SlotTyped
<1>4. SlotIsOwn /\ EndsAreTrue /\ NumbersAreOwn
  BY <1>1, <1>2 DEF SlotIsOwn, EndsAreTrue, NumbersAreOwn
<1> QED BY <1>3, <1>4 DEF SlotInv

\* What the invariant of the slot is for.
LEMMA SlotIsSound ==
  ASSUME SlotInv
  PROVE  S!SlotsAreSound /\ S!CapturesAreCounted
<1> USE DEF SlotInv
<1>1. S!SlotsAreSound
  BY DEF SlotIsOwn, EndsAreTrue, Followed, S!SlotsAreSound, S!At
<1>2. ASSUME NEW c \in Cameras, NEW x \in exposures[c], NEW y \in exposures[c]
      PROVE  /\ x[2] > 0 /\ x[2] = y[2] => x[1] = y[1]
             /\ x[1] = y[1] => x = y
             /\ x[2] > 0 /\ y[2] > 0 /\ x[1] < y[1] => x[2] < y[2]
             /\ x[2] = 0 <=> inputs[x[1]].what # "photo"
  <2>1. x \in Nat \X Nat /\ y \in Nat \X Nat
    BY DEF SlotTyped
  <2>2. /\ x[1] \in DOMAIN inputs /\ inputs[x[1]].node \in PayloadNodes
        /\ inputs[x[1]].camera = c /\ inputs[x[1]].number = x[2]
        /\ y[1] \in DOMAIN inputs /\ inputs[y[1]].node \in PayloadNodes
        /\ inputs[y[1]].camera = c /\ inputs[y[1]].number = y[2]
    BY DEF NumbersAreOwn
  <2>3. (x[2] = 0 <=> inputs[x[1]].what # "photo") /\ (y[2] = 0 <=> inputs[y[1]].what # "photo")
    BY <2>2 DEF NumbersAreOwn
  <2>4. x[2] > 0 /\ y[2] > 0 => Photo(x[1]) /\ Photo(y[1])
    BY <2>1, <2>2, <2>3 DEF Photo
  <2>5. x[2] > 0 /\ y[2] > 0 /\ x[1] < y[1] => x[2] < y[2]
    BY <2>2, <2>4 DEF NumbersAreOwn
  <2>6. x[2] > 0 /\ y[2] > 0 /\ y[1] < x[1] => y[2] < x[2]
    BY <2>2, <2>4 DEF NumbersAreOwn
  <2>7. x[1] = y[1] => x = y
    BY <2>1, <2>2
  <2> QED BY <2>1, <2>3, <2>5, <2>6, <2>7
<1> QED BY <1>1, <1>2 DEF S!CapturesAreCounted

-----------------------------------------------------------------------------
(* The Command node: its invariant *)

Stages == {"new", "acking", "acked", "completing", "completed", "done"}

\* Inputs that reached the node.
Begun == {i \in Inputs : stage[i] # "new"}

\* What TypeOK says, but for the bound of the generation.
NodeTyped ==
  /\ N!config \in BOOLEAN \X BOOLEAN
  /\ generation \in Nat
  /\ active \in Inputs \cup {None} /\ closed \in BOOLEAN
  /\ stage \in [Inputs -> Stages]
  /\ verdict \in [Inputs -> {"none", "reached", "late"} \cup N!Results \cup N!Cancels]
  /\ mine \in [Inputs -> Nat] /\ \A i \in Inputs : mine[i] <= generation
  /\ record \in [Inputs -> {"none", "unconfirmed", "superseded"} \cup N!Results]
  /\ continued \subseteq Inputs /\ sent \subseteq Inputs
  /\ shows \in BOOLEAN /\ air \subseteq sent \X N!Results

\* An input and a close move the generation once each.
NodeCounted == generation = Cardinality(Begun) + IF closed THEN 1 ELSE 0

\* A generation is of one input, and what waits is of the latest that sent.
GenerationsAreOwn ==
  /\ \A i, j \in Inputs : i # j /\ mine[i] = mine[j] => mine[i] = 0
  /\ \A i \in Inputs : stage[i] \notin {"new", "done"} => mine[i] > 0
  /\ \A i, j \in Inputs : N!Waits(j) /\ i # j => mine[i] < mine[j]

\* A close leaves nobody in the slot and everybody stale.
CloseIsFinal == closed => active = None /\ \A i \in Inputs : mine[i] < generation

\* What is on its way through the handler was not told yet, and was cancelled
\* for a reason.
OnItsWay ==
  \A i \in Inputs :
    /\ i \in continued => stage[i] = "done"
    /\ stage[i] \in {"completing", "completed"} => complete
    /\ stage[i] = "acked" => verdict[i] \in N!Results \cup N!Cancels
    /\ stage[i] = "acked" /\ verdict[i] = "cancelled" => closed
    /\ stage[i] = "completed" /\ verdict[i] = "cancelled" => mine[i] < generation

NodeInv ==
  /\ NodeTyped /\ NodeCounted /\ GenerationsAreOwn /\ CloseIsFinal /\ OnItsWay
  /\ N!EveryWaitIsInTheSlot /\ N!OutcomesAreTold

-----------------------------------------------------------------------------
(* The Command node: its steps *)

\* The inputs are finitely many, and none of them is nobody.
LEMMA InputsAreFinite == IsFiniteSet(Inputs) /\ None \notin Inputs
<1>1. N!IsFiniteSet(Inputs) => IsFiniteSet(Inputs)
  BY DEF N!IsFiniteSet, IsFiniteSet
<1> QED BY <1>1, NodeAssumption DEF N!NodeAssumption

\* The inputs that began are finitely many, and no more than there are.
LEMMA BegunIsFinite ==
  /\ IsFiniteSet(Begun) /\ Cardinality(Begun) \in Nat
  /\ Cardinality(Begun) <= Cardinality(Inputs) /\ Cardinality(Inputs) \in Nat
<1>1. IsFiniteSet(Inputs) /\ Begun \subseteq Inputs
  BY InputsAreFinite DEF Begun
<1> QED BY <1>1, FS_Subset, FS_CardinalityType

\* An input that begins is one more.
LEMMA OneBegins ==
  ASSUME NodeInv, NEW i \in Inputs, stage[i] = "new", stage'[i] # "new",
         \A j \in Inputs \ {i} : stage'[j] = "new" <=> stage[j] = "new",
         generation' = generation + 1, UNCHANGED closed
  PROVE  NodeCounted'
<1>1. Begun' = Begun \cup {i} /\ i \notin Begun
  BY DEF Begun
<1>2. Cardinality(Begun \cup {i}) = Cardinality(Begun) + 1
  BY <1>1, BegunIsFinite, FS_AddElement
<1> QED BY <1>1, <1>2, BegunIsFinite DEF NodeCounted, NodeInv, NodeTyped

\* A handler that goes on begins nothing.
LEMMA NothingBegins ==
  ASSUME NodeInv, \A j \in Inputs : stage'[j] = "new" <=> stage[j] = "new", UNCHANGED <<generation, closed>>
  PROVE  NodeCounted'
<1>1. Begun' = Begun
  BY DEF Begun
<1> QED BY <1>1 DEF NodeInv, NodeCounted

\* cancel(reason) settles what waits, whoever it is, and touches nothing else.
LEMMA CancelReachesTheWait ==
  ASSUME NodeInv, NEW why \in N!Cancels, NEW i \in Inputs \cup {None}, NEW next \in Stages,
         i \in Inputs => stage[i] = "new", N!CancelActive(why, i, next)
  PROVE  /\ stage' \in [Inputs -> Stages]
         /\ verdict' \in [Inputs -> {"none", "reached", "late"} \cup N!Results \cup N!Cancels]
         /\ i \in Inputs => stage'[i] = next /\ verdict'[i] = verdict[i]
         /\ \A j \in Inputs \ {i} :
              /\ N!Waits(j) => stage'[j] = N!Settled(j) /\ verdict'[j] = why
              /\ ~N!Waits(j) => stage'[j] = stage[j] /\ verdict'[j] = verdict[j]
<1> DEFINE cut == active # None /\ N!Waits(active)
<1>1. \A j \in Inputs : N!Waits(j) => j = active
  BY DEF NodeInv, N!EveryWaitIsInTheSlot
<1>2. cut => active \in Inputs /\ active # i
  BY DEF NodeInv, NodeTyped, N!Waits
<1>3. \A j \in Inputs : N!Settled(j) \in Stages
  BY DEF N!Settled, Stages
<1>4. /\ stage \in [Inputs -> Stages]
      /\ verdict \in [Inputs -> {"none", "reached", "late"} \cup N!Results \cup N!Cancels]
      /\ None \notin Inputs
  BY InputsAreFinite DEF NodeInv, NodeTyped
<1>5. \A j \in Inputs : N!Waits(j) <=> cut /\ j = active
  BY <1>1, <1>2, <1>4
<1>6. /\ stage' = [j \in Inputs |-> IF j = i THEN next ELSE IF cut /\ j = active THEN N!Settled(j) ELSE stage[j]]
      /\ verdict' = IF cut THEN [verdict EXCEPT ![active] = why] ELSE verdict
  BY DEF N!CancelActive
<1> HIDE DEF cut
<1>7. stage' \in [Inputs -> Stages]
  BY <1>3, <1>4, <1>6
<1>8. verdict' \in [Inputs -> {"none", "reached", "late"} \cup N!Results \cup N!Cancels]
  BY <1>2, <1>4, <1>6
<1>9. i \in Inputs => stage'[i] = next /\ verdict'[i] = verdict[i]
  BY <1>2, <1>4, <1>6
<1>10. ASSUME NEW j \in Inputs \ {i}
       PROVE  /\ N!Waits(j) => stage'[j] = N!Settled(j) /\ verdict'[j] = why
              /\ ~N!Waits(j) => stage'[j] = stage[j] /\ verdict'[j] = verdict[j]
  BY <1>4, <1>5, <1>6
<1> QED BY <1>7, <1>8, <1>9, <1>10

-----------------------------------------------------------------------------
(* The Command node: inputs and the close *)

\* An input whose identity does not resolve moves the generation and nobody.
LEMMA UnresolvedKeeps ==
  ASSUME NodeInv, UNCHANGED N!config, NEW i \in Inputs, N!InputUnresolved(i)
  PROVE  NodeInv'
<1> USE DEF NodeInv, N!InputUnresolved, N!envVars, N!config
<1>1. stage' = [stage EXCEPT ![i] = "done"] /\ stage[i] = "new" /\ stage \in [Inputs -> Stages]
      /\ generation' = generation + 1 /\ UNCHANGED <<active, verdict, mine, continued, closed>>
  BY DEF NodeTyped
<1>2. \A j \in Inputs : N!Waits(j)' <=> N!Waits(j)
  BY <1>1 DEF N!Waits
<1>3. NodeTyped'
  BY <1>1 DEF NodeTyped, Stages, N!Results
<1>4. NodeCounted'
  <2>1. stage'[i] # "new" /\ \A j \in Inputs \ {i} : stage'[j] = "new" <=> stage[j] = "new"
    BY <1>1
  <2> QED BY <1>1, <2>1, OneBegins
<1>5. GenerationsAreOwn'
  BY <1>1, <1>2 DEF GenerationsAreOwn
<1>6. CloseIsFinal' /\ N!EveryWaitIsInTheSlot'
  BY <1>1, <1>2 DEF CloseIsFinal, N!EveryWaitIsInTheSlot
<1>7. OnItsWay'
  BY <1>1 DEF OnItsWay, NodeTyped
<1>8. N!OutcomesAreTold'
  BY <1>1 DEF N!OutcomesAreTold, N!OutputZeroIsEarned, N!QuietMeansStale, OnItsWay, NodeTyped
<1> QED BY <1>3, <1>4, <1>5, <1>6, <1>7, <1>8

\* A newer input leaves everybody else behind, whether its send throws or not.
LEMMA NewestLeads ==
  ASSUME NodeInv, UNCHANGED N!config, NEW i \in Inputs, NEW next \in {"acking", "done"},
         stage[i] = "new", ~closed, N!CancelActive("superseded", i, next),
         generation' = generation + 1, mine' = [mine EXCEPT ![i] = generation + 1],
         active' = IF next = "acking" THEN i ELSE None,
         record' = IF next = "acking" THEN record ELSE [record EXCEPT ![i] = "failed"],
         sent \subseteq sent', sent' \subseteq Inputs, UNCHANGED <<continued, closed, shows, air>>
  PROVE  NodeInv'
<1> USE DEF NodeInv, N!config
<1>1. /\ stage' \in [Inputs -> Stages] /\ stage'[i] = next /\ verdict'[i] = verdict[i]
      /\ verdict' \in [Inputs -> {"none", "reached", "late"} \cup N!Results \cup N!Cancels]
      /\ \A j \in Inputs \ {i} :
           /\ N!Waits(j) => stage'[j] = N!Settled(j) /\ verdict'[j] = "superseded"
           /\ ~N!Waits(j) => stage'[j] = stage[j] /\ verdict'[j] = verdict[j]
  BY CancelReachesTheWait DEF N!Cancels, Stages
<1>2. \A j \in Inputs : N!Waits(j)' => j = i
  BY <1>1 DEF N!Waits, N!Settled
<1>3. /\ mine' \in [Inputs -> Nat] /\ mine'[i] = generation + 1 /\ generation \in Nat
      /\ \A j \in Inputs \ {i} : mine'[j] = mine[j] /\ mine[j] <= generation
      /\ \A j \in Inputs : mine'[j] \in Nat /\ mine[j] \in Nat
  BY DEF NodeTyped
<1>4. NodeTyped'
  BY <1>1, <1>3 DEF NodeTyped, N!Results
<1>5. NodeCounted'
  <2>1. stage'[i] # "new" /\ \A j \in Inputs \ {i} : stage'[j] = "new" <=> stage[j] = "new"
    BY <1>1 DEF N!Waits, N!Settled
  <2> QED BY <2>1, OneBegins
<1>6. GenerationsAreOwn'
  <2>1. \A j, k \in Inputs : j # k /\ mine'[j] = mine'[k] => mine'[j] = 0
    BY <1>3 DEF GenerationsAreOwn
  <2>2. \A j \in Inputs : stage'[j] \notin {"new", "done"} => mine'[j] > 0
    BY <1>1, <1>3 DEF GenerationsAreOwn, N!Waits
  <2>3. \A j, k \in Inputs : N!Waits(k)' /\ j # k => mine'[j] < mine'[k]
    BY <1>2, <1>3
  <2> QED BY <2>1, <2>2, <2>3 DEF GenerationsAreOwn
<1>7. CloseIsFinal' /\ N!EveryWaitIsInTheSlot'
  BY <1>1, <1>2 DEF CloseIsFinal, N!EveryWaitIsInTheSlot, N!Waits
<1>8. OnItsWay'
  <2>1. ASSUME NEW j \in Inputs, j # i
        PROVE  /\ j \in continued => stage'[j] = "done"
               /\ stage'[j] \in {"completing", "completed"} => complete
               /\ stage'[j] = "acked" => verdict'[j] \in N!Results \cup N!Cancels
               /\ stage'[j] = "acked" /\ verdict'[j] = "cancelled" => closed
               /\ stage'[j] = "completed" /\ verdict'[j] = "cancelled" => mine'[j] < generation'
    BY <1>1, <1>3, <2>1 DEF OnItsWay, N!Waits, N!Settled, N!Cancels
  <2>2. i \notin continued
    BY DEF OnItsWay
  <2> QED BY <1>1, <2>1, <2>2 DEF OnItsWay
<1>9. N!OutcomesAreTold'
  <2>1. i \notin continued /\ record \in [Inputs -> {"none", "unconfirmed", "superseded"} \cup N!Results]
    BY DEF OnItsWay, NodeTyped
  <2>2. \A j \in Inputs : j # i => record'[j] = record[j]
    BY <2>1
  <2>3. N!OutputZeroIsEarned'
    BY <2>1, <2>2 DEF N!OutcomesAreTold, N!OutputZeroIsEarned, NodeTyped
  <2>4. ASSUME NEW j \in Inputs, j # i, stage'[j] = "done", record'[j] = "none"
        PROVE  closed' \/ (complete' /\ mine'[j] < generation')
    <3>1. stage[j] = "done"
      BY <1>1, <2>4 DEF N!Waits, N!Settled
    <3> QED BY <1>3, <2>2, <2>4, <3>1 DEF N!OutcomesAreTold, N!QuietMeansStale
  <2>5. ~(stage'[i] = "done" /\ record'[i] = "none")
    BY <1>1, <2>1
  <2> QED BY <2>3, <2>4, <2>5 DEF N!OutcomesAreTold, N!QuietMeansStale
<1> QED BY <1>4, <1>5, <1>6, <1>7, <1>8, <1>9

\* An input takes the slot.
LEMMA SendsKeeps ==
  ASSUME NodeInv, UNCHANGED N!config, NEW i \in Inputs, N!InputSends(i)
  PROVE  NodeInv'
<1>1. sent \cup {i} \subseteq Inputs
  BY DEF NodeInv, NodeTyped
<1> QED BY <1>1, NewestLeads DEF N!InputSends

\* An input that cannot send frees it.
LEMMA ThrowsKeeps ==
  ASSUME NodeInv, UNCHANGED N!config, NEW i \in Inputs, N!InputThrows(i)
  PROVE  NodeInv'
<1>1. sent' = sent /\ sent \subseteq Inputs
  BY DEF N!InputThrows, N!envVars, NodeInv, NodeTyped
<1> QED BY <1>1, NewestLeads DEF N!InputThrows, N!envVars

\* A close cuts off what waits and makes everybody stale.
LEMMA CloseKeeps ==
  ASSUME NodeInv, UNCHANGED N!config, N!Close
  PROVE  NodeInv'
<1> USE DEF NodeInv, N!config
<1>1. /\ stage' \in [Inputs -> Stages]
      /\ verdict' \in [Inputs -> {"none", "reached", "late"} \cup N!Results \cup N!Cancels]
      /\ \A j \in Inputs :
           /\ N!Waits(j) => stage'[j] = N!Settled(j) /\ verdict'[j] = "cancelled"
           /\ ~N!Waits(j) => stage'[j] = stage[j] /\ verdict'[j] = verdict[j]
  <2>1. None \notin Inputs /\ N!CancelActive("cancelled", None, "new")
    BY InputsAreFinite DEF N!Close
  <2> QED BY <2>1, CancelReachesTheWait DEF N!Cancels, Stages
<1>2. /\ ~closed /\ closed' = TRUE /\ generation' = generation + 1 /\ generation \in Nat /\ active' = None
      /\ UNCHANGED <<mine, record, continued, shows, sent, air>>
  BY DEF N!Close, N!envVars, NodeTyped
<1>3. \A j \in Inputs : ~N!Waits(j)' /\ mine'[j] = mine[j] /\ mine[j] \in Nat /\ mine[j] <= generation
  BY <1>1, <1>2 DEF N!Waits, N!Settled, NodeTyped
<1>4. NodeTyped'
  BY <1>1, <1>2 DEF NodeTyped
<1>5. NodeCounted'
  <2>1. Begun' = Begun
    BY <1>1 DEF Begun, N!Waits, N!Settled
  <2> QED BY <1>2, <2>1, BegunIsFinite DEF NodeCounted
<1>6. GenerationsAreOwn'
  <2>1. \A j \in Inputs : stage'[j] \notin {"new", "done"} => stage[j] \notin {"new", "done"}
    BY <1>1 DEF N!Waits, N!Settled
  <2> QED BY <1>2, <1>3, <2>1 DEF GenerationsAreOwn
<1>7. CloseIsFinal' /\ N!EveryWaitIsInTheSlot'
  BY <1>2, <1>3 DEF CloseIsFinal, N!EveryWaitIsInTheSlot
<1>8. OnItsWay'
  BY <1>1, <1>2, <1>3 DEF OnItsWay, N!Waits, N!Settled, N!Cancels
<1>9. N!OutcomesAreTold'
  BY <1>2 DEF N!OutcomesAreTold, N!OutputZeroIsEarned, N!QuietMeansStale
<1> QED BY <1>4, <1>5, <1>6, <1>7, <1>8, <1>9

-----------------------------------------------------------------------------
(* The Command node: its two waits *)

\* A wait on the ack settles, in whatever way.
LEMMA SettlesKeeps ==
  ASSUME NodeInv, UNCHANGED <<N!config, N!envVars>>, NEW i \in Inputs, NEW result \in N!Results, N!AckSettles(i, result)
  PROVE  NodeInv'
<1> USE DEF NodeInv, N!AckSettles, N!envVars, N!config
<1>1. /\ stage[i] = "acking" /\ stage' \in [Inputs -> Stages] /\ stage'[i] = "acked"
      /\ verdict' \in [Inputs -> {"none", "reached", "late"} \cup N!Results \cup N!Cancels] /\ verdict'[i] = result
      /\ \A j \in Inputs \ {i} : stage'[j] = stage[j] /\ verdict'[j] = verdict[j]
  BY DEF NodeTyped, Stages
<1>2. \A j \in Inputs : N!Waits(j)' => N!Waits(j)
  BY <1>1 DEF N!Waits
<1>3. NodeTyped'
  BY <1>1 DEF NodeTyped
<1>4. NodeCounted'
  BY <1>1, NothingBegins
<1>5. GenerationsAreOwn' /\ CloseIsFinal' /\ N!EveryWaitIsInTheSlot'
  BY <1>1, <1>2 DEF GenerationsAreOwn, CloseIsFinal, N!EveryWaitIsInTheSlot
<1>6. OnItsWay'
  BY <1>1 DEF OnItsWay, N!Results
<1>7. N!OutcomesAreTold'
  BY <1>1 DEF N!OutcomesAreTold, N!OutputZeroIsEarned, N!QuietMeansStale
<1> QED BY <1>3, <1>4, <1>5, <1>6, <1>7

\* An input ends: it leaves the slot if it is there and tells what it may.
LEMMA EndingKeeps ==
  ASSUME NodeInv, UNCHANGED <<N!config, N!envVars, generation, verdict, mine, closed>>, NEW i \in Inputs,
         stage[i] \in {"acked", "completed"}, active' = N!Released(i),
         NEW result \in {"none", "unconfirmed", "superseded"} \cup N!Results, NEW fires \in BOOLEAN,
         N!Ends(i, result, fires),
         fires => result = "accepted" \/ (result = "unconfirmed" /\ continueUnconfirmed),
         result = "none" => closed \/ (complete /\ mine[i] < generation)
  PROVE  NodeInv'
<1> USE DEF NodeInv, N!envVars, N!config, N!Ends
<1>1. /\ stage' \in [Inputs -> Stages] /\ stage'[i] = "done"
      /\ record' \in [Inputs -> {"none", "unconfirmed", "superseded"} \cup N!Results] /\ record'[i] = result
      /\ \A j \in Inputs \ {i} : stage'[j] = stage[j] /\ record'[j] = record[j]
  BY DEF NodeTyped, Stages
<1>2. continued \subseteq continued' /\ continued' \subseteq continued \cup {i} /\ (i \in continued' \ continued => fires)
  OBVIOUS
<1>3. i \notin continued
  BY DEF OnItsWay
<1>4. \A j \in Inputs : N!Waits(j)' => N!Waits(j) /\ j # i
  BY <1>1 DEF N!Waits
<1>5. NodeTyped'
  BY <1>1, <1>2 DEF NodeTyped, N!Released
<1>6. NodeCounted'
  BY <1>1, NothingBegins
<1>7. GenerationsAreOwn'
  BY <1>1, <1>4 DEF GenerationsAreOwn
<1>8. CloseIsFinal' /\ N!EveryWaitIsInTheSlot'
  BY <1>4 DEF CloseIsFinal, N!EveryWaitIsInTheSlot, N!Released
<1>9. OnItsWay'
  BY <1>1, <1>2 DEF OnItsWay
<1>10. N!OutputZeroIsEarned'
  BY <1>1, <1>2, <1>3 DEF N!OutcomesAreTold, N!OutputZeroIsEarned, NodeTyped
<1>11. N!QuietMeansStale'
  BY <1>1 DEF N!OutcomesAreTold, N!QuietMeansStale
<1> QED BY <1>5, <1>6, <1>7, <1>8, <1>9, <1>10, <1>11 DEF N!OutcomesAreTold

\* An ack wait that is over, and is not followed.
LEMMA AckContinuesKeeps ==
  ASSUME NodeInv, UNCHANGED N!config, NEW i \in Inputs, N!AckContinues(i)
  PROVE  NodeInv'
<1>1. /\ stage[i] = "acked" /\ active' = N!Released(i) /\ N!SettlesAck(i, N!AckOutcome(i))
      /\ UNCHANGED <<N!config, N!envVars, generation, verdict, mine, closed>>
  BY DEF N!AckContinues
<1>2. continueUnconfirmed \in BOOLEAN
  BY DEF NodeInv, NodeTyped, N!config
<1>3. CASE N!AckOutcome(i) \in {"rejected", "failed", "superseded"} /\ N!Ends(i, N!AckOutcome(i), FALSE)
  BY <1>1, <1>3, EndingKeeps DEF N!Results
<1>4. CASE N!AckOutcome(i) = "cancelled" /\ N!Ends(i, "none", FALSE)
  <2>1. closed
    BY <1>1, <1>4 DEF N!AckOutcome, NodeInv, OnItsWay
  <2> QED BY <1>1, <1>4, <2>1, EndingKeeps
<1>5. CASE N!AckOutcome(i) = "timeout" /\ N!Ends(i, "unconfirmed", continueUnconfirmed)
  BY <1>1, <1>2, <1>5, EndingKeeps
<1>6. CASE N!AckOutcome(i) = "accepted" /\ N!Ends(i, "accepted", TRUE)
  BY <1>1, <1>6, EndingKeeps DEF N!Results
<1> QED BY <1>1, <1>3, <1>4, <1>5, <1>6 DEF N!SettlesAck

\* A completion wait that is over.
LEMMA CompletionContinuesKeeps ==
  ASSUME NodeInv, UNCHANGED N!config, NEW i \in Inputs, N!CompletionContinues(i)
  PROVE  NodeInv'
<1>1. /\ stage[i] = "completed" /\ active' = N!Released(i) /\ N!CompletionEnds(i)
      /\ UNCHANGED <<N!config, N!envVars, generation, verdict, mine, closed>>
  BY DEF N!CompletionContinues
<1>2. /\ complete /\ (verdict[i] = "cancelled" => mine[i] < generation)
      /\ mine[i] <= generation /\ mine[i] \in Nat /\ generation \in Nat
  BY <1>1 DEF NodeInv, OnItsWay, NodeTyped
<1>3. CASE verdict[i] = "superseded" /\ N!Ends(i, "superseded", FALSE)
  BY <1>1, <1>3, EndingKeeps
<1>4. CASE (verdict[i] = "cancelled" \/ mine[i] # generation) /\ N!Ends(i, "none", FALSE)
  <2>1. mine[i] < generation
    BY <1>2, <1>4
  <2> QED BY <1>1, <1>2, <1>4, <2>1, EndingKeeps
<1>5. CASE N!Ends(i, "accepted", TRUE)
  BY <1>1, <1>5, EndingKeeps DEF N!Results
<1>6. CASE N!Ends(i, "timeout", FALSE)
  BY <1>1, <1>6, EndingKeeps DEF N!Results
<1> QED BY <1>1, <1>3, <1>4, <1>5, <1>6 DEF N!CompletionEnds

\* A stale input is not followed, and one that is current meets no other wait.
LEMMA FollowedKeeps ==
  ASSUME NodeInv, UNCHANGED N!config, NEW i \in Inputs, N!AckIsFollowed(i)
  PROVE  NodeInv'
<1> USE DEF NodeInv, N!envVars, N!config, N!AckIsFollowed
<1> DEFINE current == mine[i] = generation
<1>1. /\ stage[i] = "acked" /\ complete /\ UNCHANGED <<generation, mine, record, continued, closed, shows, sent, air>>
      /\ stage' \in [Inputs -> Stages] /\ stage'[i] \in {"completed", "completing"}
      /\ \A j \in Inputs \ {i} : stage'[j] = stage[j] /\ verdict'[j] = verdict[j]
      /\ verdict' \in [Inputs -> {"none", "reached", "late"} \cup N!Results \cup N!Cancels]
  BY DEF N!Polls, NodeTyped, Stages, N!Cancels
<1>2. /\ active' = IF current THEN i ELSE N!Released(i)
      /\ stage'[i] = "completing" => current
      /\ stage'[i] = "completed" /\ verdict'[i] = "cancelled" => ~current
  BY DEF N!Polls, NodeTyped, Stages
<1>3. /\ mine[i] \in Nat /\ generation \in Nat /\ \A j \in Inputs : mine[j] \in Nat /\ mine[j] <= generation
      /\ mine[i] > 0
  BY <1>1 DEF NodeTyped, GenerationsAreOwn
<1>4. current => \A j \in Inputs \ {i} : ~N!Waits(j) /\ mine[j] < mine[i]
  BY <1>3 DEF GenerationsAreOwn
<1>5. \A j \in Inputs \ {i} : N!Waits(j)' <=> N!Waits(j)
  BY <1>1 DEF N!Waits
<1>6. N!Waits(i)' => current
  BY <1>1, <1>2 DEF N!Waits
<1>7. NodeTyped'
  BY <1>1, <1>2 DEF NodeTyped, N!Released
<1>8. NodeCounted'
  BY <1>1, NothingBegins
<1>9. GenerationsAreOwn'
  BY <1>1, <1>3, <1>4, <1>5, <1>6 DEF GenerationsAreOwn
<1>10. CloseIsFinal'
  BY <1>1, <1>2, <1>3 DEF CloseIsFinal, N!Released
<1>11. N!EveryWaitIsInTheSlot'
  <2>1. ASSUME NEW j \in Inputs, N!Waits(j)', j # i PROVE active' = j
    BY <1>1, <1>2, <1>4, <1>5, <2>1 DEF N!EveryWaitIsInTheSlot, N!Released
  <2>2. N!Waits(i)' => active' = i
    BY <1>2, <1>6
  <2> QED BY <2>1, <2>2 DEF N!EveryWaitIsInTheSlot
<1>12. OnItsWay'
  BY <1>1, <1>2, <1>3 DEF OnItsWay
<1>13. N!OutcomesAreTold'
  BY <1>1 DEF N!OutcomesAreTold, N!OutputZeroIsEarned, N!QuietMeansStale
<1> QED BY <1>7, <1>8, <1>9, <1>10, <1>11, <1>12, <1>13

\* The peer table shows the condition, or the deadline is over.
LEMMA CompletionSettlesKeeps ==
  ASSUME NodeInv, UNCHANGED N!config, NEW i \in Inputs, N!CompletionSettles(i)
  PROVE  NodeInv'
<1> USE DEF NodeInv, N!CompletionSettles, N!envVars, N!config
<1>1. /\ stage[i] = "completing" /\ stage' \in [Inputs -> Stages] /\ stage'[i] = "completed"
      /\ verdict' \in [Inputs -> {"none", "reached", "late"} \cup N!Results \cup N!Cancels]
      /\ verdict'[i] \in {"reached", "late"}
      /\ \A j \in Inputs \ {i} : stage'[j] = stage[j] /\ verdict'[j] = verdict[j]
  BY DEF NodeTyped, Stages
<1>2. \A j \in Inputs : N!Waits(j)' => N!Waits(j)
  BY <1>1 DEF N!Waits
<1>3. NodeTyped'
  BY <1>1 DEF NodeTyped
<1>4. NodeCounted'
  BY <1>1, NothingBegins
<1>5. GenerationsAreOwn' /\ CloseIsFinal' /\ N!EveryWaitIsInTheSlot'
  BY <1>1, <1>2 DEF GenerationsAreOwn, CloseIsFinal, N!EveryWaitIsInTheSlot
<1>6. OnItsWay'
  BY <1>1 DEF OnItsWay
<1>7. N!OutcomesAreTold'
  BY <1>1 DEF N!OutcomesAreTold, N!OutputZeroIsEarned, N!QuietMeansStale
<1> QED BY <1>3, <1>4, <1>5, <1>6, <1>7

\* Vehicle, peer table and stuttering leave the node alone.
LEMMA OutsideKeeps ==
  ASSUME NodeInv, UNCHANGED <<N!config, N!nodeVars>>, sent' = sent, shows' \in BOOLEAN, air' \subseteq sent \X N!Results
  PROVE  NodeInv'
<1> USE DEF NodeInv, N!nodeVars, N!config
<1>1. NodeTyped'
  BY DEF NodeTyped
<1>2. NodeCounted' /\ GenerationsAreOwn' /\ CloseIsFinal' /\ OnItsWay' /\ N!EveryWaitIsInTheSlot' /\ N!OutcomesAreTold'
  BY DEF NodeCounted, Begun, GenerationsAreOwn, N!Waits, CloseIsFinal, OnItsWay, N!EveryWaitIsInTheSlot, N!OutcomesAreTold,
         N!OutputZeroIsEarned, N!QuietMeansStale
<1> QED BY <1>1, <1>2

-----------------------------------------------------------------------------
(* The Command node: its behaviours *)

\* A node that was deployed waits for nothing.
LEMMA NodeStarts == ASSUME N!Init PROVE NodeInv
<1>1. NodeTyped
  <2>1. N!config \in BOOLEAN \X BOOLEAN
    BY DEF N!Init, N!config
  <2>2. 0 \in Nat /\ \A i \in Inputs : mine[i] <= generation
    BY DEF N!Init
  <2> QED BY <2>1, <2>2 DEF N!Init, NodeTyped, Stages
<1>2. NodeCounted
  <2>1. Begun = {}
    BY DEF N!Init, Begun
  <2> QED BY <2>1, FS_EmptySet DEF N!Init, NodeCounted
<1>3. GenerationsAreOwn /\ CloseIsFinal /\ OnItsWay /\ N!EveryWaitIsInTheSlot
  BY DEF N!Init, GenerationsAreOwn, CloseIsFinal, OnItsWay, N!EveryWaitIsInTheSlot, N!Waits
<1>4. N!OutcomesAreTold
  BY DEF N!Init, N!OutcomesAreTold, N!OutputZeroIsEarned, N!QuietMeansStale
<1> QED BY <1>1, <1>2, <1>3, <1>4 DEF NodeInv

\* Whatever comes next.
LEMMA NodeSteps == ASSUME NodeInv, [N!Next]_<<N!config, N!vars>> PROVE NodeInv'
<1>1. ASSUME NEW i \in Inputs, UNCHANGED N!config, N!AckArrives(i) PROVE NodeInv'
  <2>1. PICK a \in air : N!AckSettles(i, a[2]) /\ UNCHANGED N!envVars
    BY <1>1 DEF N!AckArrives
  <2>2. a[2] \in N!Results
    BY DEF NodeInv, NodeTyped
  <2> QED BY <1>1, <2>1, <2>2, SettlesKeeps
<1>2. ASSUME NEW i \in Inputs, UNCHANGED N!config, N!AckTimesOut(i) PROVE NodeInv'
  BY <1>2, SettlesKeeps DEF N!AckTimesOut, N!Results
<1>3. ASSUME NEW i \in Inputs, UNCHANGED N!config, N!VehicleAnswers(i) PROVE NodeInv'
  <2>1. shows \in BOOLEAN /\ air' \subseteq sent \X N!Results
    BY <1>3 DEF N!VehicleAnswers, NodeInv, NodeTyped, N!Results
  <2> QED BY <1>3, <2>1, OutsideKeeps DEF N!VehicleAnswers
<1>4. CASE UNCHANGED N!config /\ N!ConditionChanges
  <2>1. shows' \in BOOLEAN /\ air \subseteq sent \X N!Results
    BY <1>4 DEF N!ConditionChanges, NodeInv, NodeTyped
  <2> QED BY <1>4, <2>1, OutsideKeeps DEF N!ConditionChanges
<1>5. CASE UNCHANGED <<N!config, N!vars>>
  <2>1. shows \in BOOLEAN /\ air \subseteq sent \X N!Results
    BY DEF NodeInv, NodeTyped
  <2> QED BY <1>5, <2>1, OutsideKeeps DEF N!vars, N!envVars
<1>6. CASE UNCHANGED N!config /\ N!Close
  BY <1>6, CloseKeeps
<1>7. ASSUME NEW i \in Inputs, UNCHANGED N!config, N!Handler(i) PROVE NodeInv'
  BY <1>1, <1>2, <1>7, AckContinuesKeeps, FollowedKeeps, CompletionSettlesKeeps, CompletionContinuesKeeps DEF N!Handler
<1> QED BY <1>3, <1>4, <1>5, <1>6, <1>7, UnresolvedKeeps, SendsKeeps, ThrowsKeeps DEF N!Next, N!Step

\* The invariant says who waits and what is told.
LEMMA NodeIsSound ==
  ASSUME NodeInv
  PROVE  N!WaitsAreOwned /\ N!OutcomesAreTold
<1>1. generation \in 0..(N!Cardinality(Inputs) + 1)
  <2>1. N!Cardinality(Inputs) = Cardinality(Inputs)
    BY DEF N!Cardinality, Cardinality
  <2> QED BY <2>1, BegunIsFinite DEF NodeInv, NodeTyped, NodeCounted
<1>2. mine \in [Inputs -> 0..generation]
  BY DEF NodeInv, NodeTyped
<1>3. N!TypeOK
  BY <1>1, <1>2 DEF N!TypeOK, NodeInv, NodeTyped, Stages
<1>4. N!NothingWaitsAfterClose
  BY InputsAreFinite DEF N!NothingWaitsAfterClose, NodeInv, CloseIsFinal, N!EveryWaitIsInTheSlot
<1> QED BY <1>3, <1>4 DEF N!WaitsAreOwned, NodeInv

\* Whatever supersedes, settles, throws or closes: what waits is in the slot, where
\* the next input and the close find it, nothing waits once the node is closed,
\* and the generation counts the inputs (ack.js:399-460, mavlink-command.js:350, 428-470).
THEOREM WaitsHaveOneOwner == N!Spec => []N!WaitsAreOwned
<1>1. N!Init => NodeInv
  BY NodeStarts
<1>2. NodeInv /\ [N!Next]_<<N!config, N!vars>> => NodeInv'
  BY NodeSteps
<1>3. NodeInv => N!WaitsAreOwned
  BY NodeIsSound
<1> QED BY <1>1, <1>2, <1>3, PTL DEF N!Spec

\* No outcome is invented and none is swallowed: output 0 fires for what was accepted,
\* reached or chosen to be ignored, and an input that ends without a record was closed
\* on or is stale (DESIGN.md 14.47, 14.159).
THEOREM EveryOutcomeIsTold == N!Spec => []N!OutcomesAreTold
<1>1. N!Init => NodeInv
  BY NodeStarts
<1>2. NodeInv /\ [N!Next]_<<N!config, N!vars>> => NodeInv'
  BY NodeSteps
<1>3. NodeInv => N!OutcomesAreTold
  BY NodeIsSound
<1> QED BY <1>1, <1>2, <1>3, PTL DEF N!Spec

\* A step lets the flow go on for the newest input only.
LEMMA NewestGoesOnNext ==
  ASSUME NodeInv, [N!Next]_<<N!config, N!vars>>
  PROVE  N!NewestGoesOn \/ UNCHANGED <<N!config, N!vars>>
<1>1. ASSUME NEW i \in Inputs, N!AckContinues(i) PROVE N!NewestGoesOn
  BY <1>1 DEF N!AckContinues, N!SettlesAck, N!Ends, N!NewestGoesOn, NodeInv, NodeTyped
<1>2. ASSUME NEW i \in Inputs, N!CompletionContinues(i) PROVE N!NewestGoesOn
  BY <1>2 DEF N!CompletionContinues, N!CompletionEnds, N!Ends, N!NewestGoesOn, NodeInv, NodeTyped
<1>3. ASSUME continued' = continued PROVE N!NewestGoesOn
  BY <1>3 DEF N!NewestGoesOn
<1>4. \A i \in Inputs : N!Handler(i) => continued' = continued \/ N!AckContinues(i) \/ N!CompletionContinues(i)
  BY DEF N!Handler, N!AckArrives, N!AckTimesOut, N!AckSettles, N!AckIsFollowed, N!CompletionSettles
<1>5. N!Step => continued' = continued \/ \E i \in Inputs : N!Handler(i)
  BY DEF N!Step, N!InputUnresolved, N!InputSends, N!InputThrows, N!VehicleAnswers, N!Close, N!ConditionChanges, N!nodeVars
<1> QED BY <1>1, <1>2, <1>3, <1>4, <1>5 DEF N!Next

\* While a behaviour is of the node, its invariant holds.
LEMMA NodeKeeps ==
  /\ Init => (part = "node" => NodeInv)
  /\ (part = "node" => NodeInv) /\ [Next]_vars => (part = "node" => NodeInv)'
<1>1. Init => (part = "node" => NodeInv)
  BY NodeStarts DEF Init
<1>2. ASSUME part = "node" => NodeInv, [Next]_vars, part' = "node" PROVE NodeInv'
  <2>1. part = "node" /\ NodeInv /\ [N!Next]_<<N!config, N!vars>>
    BY <1>2 DEF Next, vars, choices, nodeVars, N!Next, N!vars, N!config, N!nodeVars, N!envVars
  <2> QED BY <2>1, NodeSteps
<1> QED BY <1>1, <1>2

\* A node waits for one thing and can end it, every outcome is told, whatever arrives,
\* settles, supersedes, throws or closes, and a photo has a number of its own
\* (ack.js:399-460, 541-612, mavlink-param.js:251-268, payload/index.js:685-712).
THEOREM OutcomesAreAlwaysTold == Spec => []OutcomesAreTold
<1> DEFINE Inv == (part = "node" => NodeInv) /\ (part = "slot" => SlotInv)
<1>1. SlotsApart
  BY SlotAssumption DEF SlotsApart
<1>2. Init => Inv
  <2> SUFFICES ASSUME Init PROVE Inv
    OBVIOUS
  <2>1. part = "slot" => SlotInv
    BY <1>1, SlotStarts DEF Init
  <2> QED BY <2>1, NodeKeeps
<1>3. Inv /\ [Next]_vars => Inv'
  <2> SUFFICES ASSUME Inv, [Next]_vars PROVE Inv'
    OBVIOUS
  <2>1. ASSUME part' = "slot" PROVE SlotInv'
    <3>1. part = "slot" /\ SlotInv /\ (S!SlotNext \/ UNCHANGED slotVars)
      BY <2>1 DEF Next, vars, choices
    <3> QED BY <1>1, <3>1, SlotStepKeeps, SlotIsLeftAlone
  <2> QED BY <2>1, NodeKeeps
<1>4. Inv => OutcomesAreTold
  <2> SUFFICES ASSUME Inv PROVE OutcomesAreTold
    OBVIOUS
  <2>1. part = "node" => N!WaitsAreOwned /\ N!OutcomesAreTold
    BY NodeIsSound
  <2>2. part = "slot" => S!SlotsAreSound /\ S!CapturesAreCounted
    BY SlotIsSound
  <2> QED BY <2>1, <2>2 DEF OutcomesAreTold
<1> QED BY <1>2, <1>3, <1>4, PTL DEF Spec

\* An older input that is completed by what a newer one did does not make the flow go
\* on (mavlink-command.js:440-470).
THEOREM OnlyTheNewestGoesOn == Spec => OnlyNewestGoesOn
<1> DEFINE Inv == part = "node" => NodeInv
<1>1. Init => Inv
  BY NodeKeeps
<1>2. Inv /\ [Next]_vars => Inv'
  BY NodeKeeps
<1>3. Inv /\ [Next]_vars => [part = "node" => N!NewestGoesOn]_vars
  <2> SUFFICES ASSUME Inv, [Next]_vars, part = "node" PROVE N!NewestGoesOn
    OBVIOUS
  <2>1. NodeInv /\ [N!Next]_<<N!config, N!vars>>
    BY DEF Next, vars, choices, nodeVars, N!Next, N!vars, N!config, N!nodeVars, N!envVars
  <2>2. N!NewestGoesOn \/ continued' = continued
    BY <2>1, NewestGoesOnNext DEF N!vars, N!nodeVars
  <2> QED BY <2>2 DEF N!NewestGoesOn
<1> QED BY <1>1, <1>2, <1>3, PTL DEF Spec, OnlyNewestGoesOn

-----------------------------------------------------------------------------
(* Completion: its tables *)

\* What is assumed of the values and of each table.
LEMMA ValuesAre ==
  /\ None \notin Int /\ NaN \notin Int /\ None # NaN /\ None # "ardupilot" /\ None # "px4"
  /\ Altitudes \subseteq Int /\ Homes \subseteq Int /\ Heights \subseteq Int
  /\ Configs \subseteq [1..3 -> Int \cup {None}] /\ Payloads \subseteq [1..3 -> Int \cup {None}]
  /\ None \notin ModeNames
BY CompletionAssumption DEF C!CompletionBounds

\* And of each firmware's tables (modes.js:36-87).
LEMMA TablesAre ==
  ASSUME NEW f \in {"ardupilot", "px4"}
  PROVE  /\ DOMAIN PublishedModes[f] \subseteq Nat /\ C!TablesAgree(f)
         /\ \A i \in DOMAIN PublishedModes[f] :
              IF f = "px4" THEN C!IsPacked(PublishedModes[f][i].custom) ELSE PublishedModes[f][i].custom \in Nat
BY CompletionAssumption DEF C!CompletionBounds

\* Packing two bytes can be undone.
LEMMA PackedIs ==
  ASSUME NEW main \in 0..255, NEW sub \in 0..255
  PROVE  C!IsPacked(C!px4CustomMode(main, sub))
<1>1. main \notin {None, NaN} /\ sub \notin {None, NaN}
  BY ValuesAre
<1> DEFINE n == main * 65536 + sub * 16777216
<1>2. C!px4CustomMode(main, sub) = n
  BY <1>1 DEF C!px4CustomMode, C!PX4_MAIN_SCALE, C!PX4_SUB_SCALE
<1>3. n \in Nat
  OBVIOUS
<1>4. (n \div 65536) % 256 = main /\ (n \div 16777216) % 256 = sub
  OBVIOUS
<1> HIDE DEF n
<1>5. n # NaN
  BY <1>3, ValuesAre
<1>6. C!px4MainMode(n) = main /\ C!px4SubMode(n) = sub
  BY <1>4, <1>5 DEF C!px4MainMode, C!px4SubMode, C!PX4_MAIN_SCALE, C!PX4_SUB_SCALE
<1> QED BY <1>2, <1>3, <1>6 DEF C!IsPacked

\* A number of a firmware: of PX4, a packed one.
IsNumber(f, n) == n \in Nat /\ (f = "px4" => C!IsPacked(n))

\* So are all that ship and all that are published.
LEMMA NumbersAre ==
  ASSUME NEW f \in {"ardupilot", "px4"}
  PROVE  /\ \A m \in C!ShippedModes[f] : m = <<m[1], m[2]>> /\ IsNumber(f, m[2])
         /\ \A i \in DOMAIN PublishedModes[f] : IsNumber(f, PublishedModes[f][i].custom)
<1>1. ASSUME NEW m \in C!ShippedModes[f]
      PROVE  m = <<m[1], m[2]>> /\ IsNumber(f, m[2])
  <2>1. CASE f = "ardupilot"
    <3>1. m \in ArduPilotModes
      BY <2>1 DEF C!ShippedModes
    <3>2. m = <<m[1], m[2]>> /\ m[2] \in Nat
      BY <3>1, CompletionAssumption DEF C!CompletionBounds
    <3> QED BY <2>1, <3>2 DEF IsNumber
  <2>2. CASE f = "px4"
    <3>1. PICK row \in PX4_MODES : m = <<row.name, C!px4CustomMode(row.main, row.sub)>>
      BY <2>2 DEF C!ShippedModes
    <3>2. row.main \in 0..255 /\ row.sub \in 0..255
      BY CompletionAssumption DEF C!CompletionBounds
    <3> DEFINE number == C!px4CustomMode(row.main, row.sub)
    <3>3. C!IsPacked(number)
      BY <3>2, PackedIs
    <3> HIDE DEF number
    <3>4. m[1] = row.name /\ m[2] = number /\ m = <<row.name, number>>
      BY <3>1 DEF number
    <3> QED BY <3>3, <3>4 DEF IsNumber, C!IsPacked
  <2> QED BY <2>1, <2>2
<1>2. \A i \in DOMAIN PublishedModes[f] : IsNumber(f, PublishedModes[f][i].custom)
  BY TablesAre DEF IsNumber, C!IsPacked
<1> QED BY <1>1, <1>2

-----------------------------------------------------------------------------
(* Completion: a request *)

\* What is asked.
IsOrder(o) ==
  /\ o.firmware \in {"ardupilot", "px4"} \/ (o.firmware = None /\ o.verb = "set mode")
  /\ o.altitude \in Int /\ o.home \in Int /\ o.modes \subseteq Int
  /\ o.config \in [1..3 -> Int \cup {None}] /\ o.payload \in [1..3 -> Int \cup {None}]
  /\ o.firmware # None => o.held \subseteq DOMAIN PublishedModes[o.firmware]

\* Every request is one, whichever verb it is.
LEMMA OrdersStart ==
  ASSUME C!CompletionInit
  PROVE  IsOrder(order)
<1> DEFINE plain == C!Plain
<1>0. C!Nothing \in [1..3 -> Int \cup {None}]
  BY DEF C!Nothing
<1>1. ASSUME NEW v \in {"arm", "disarm"}, order = [plain EXCEPT !.verb = v]
      PROVE  IsOrder(order)
  BY <1>0, <1>1 DEF C!Plain, IsOrder
<1>2. ASSUME NEW d \in BOOLEAN, order = [plain EXCEPT !.verb = "land", !.detector = d]
      PROVE  IsOrder(order)
  BY <1>0, <1>2 DEF C!Plain, IsOrder
<1>3. ASSUME NEW f \in {"ardupilot", "px4"}, NEW c \in {"long", "int"}, NEW r \in {"relative", "global"},
             NEW a \in Altitudes, NEW h \in Homes,
             order = [plain EXCEPT !.verb = "takeoff", !.firmware = f, !.carrier = c, !.frame = r, !.altitude = a, !.home = h]
      PROVE  IsOrder(order)
  BY <1>0, <1>3, ValuesAre DEF C!Plain, IsOrder
<1>4. ASSUME NEW f \in {"ardupilot", "px4"}, NEW k \in Caches, NEW n \in ModeNames \cup {None},
             NEW c \in Configs, NEW p \in Payloads,
             order = [plain EXCEPT !.verb = "set mode", !.firmware = f, !.held = k \cap DOMAIN PublishedModes[f], !.name = n,
                                   !.config = c, !.payload = p, !.modes = C!Numbers(f)]
      PROVE  IsOrder(order)
  <2>1. C!Numbers(f) \subseteq Int
    BY NumbersAre DEF C!Numbers, IsNumber
  <2> QED BY <1>4, <2>1, ValuesAre DEF C!Plain, IsOrder
<1>5. ASSUME NEW n \in ModeNames \cup {None}, order = [plain EXCEPT !.verb = "set mode", !.firmware = None, !.name = n]
      PROVE  IsOrder(order)
  BY <1>0, <1>5, ValuesAre DEF C!Plain, IsOrder
<1> QED BY <1>1, <1>2, <1>3, <1>4, <1>5 DEF C!CompletionInit, C!AsksTakeoff, C!AsksMode, C!BuildsMode

-----------------------------------------------------------------------------
(* Completion: a mode by name *)

\* A set of numbers has a least one.
LEMMA LeastExists ==
  ASSUME NEW Places, Places \subseteq Nat, Places # {}
  PROVE  \E x \in Places : \A y \in Places : x <= y
<1>1. PICK x \in Places : \A y \in Places : ~(<<y, x>> \in OpToRel(<, Nat))
  BY WFMin, NatLessThanWellFounded
<1>2. \A y \in Places : y < x => <<y, x>> \in OpToRel(<, Nat)
  BY <1>1 DEF OpToRel
<1>3. x \in Places /\ \A y \in Places : ~(y < x)
  BY <1>1, <1>2, Zenon
<1>4. \A y \in Places : x <= y
  BY <1>3
<1> QED BY <1>3, <1>4, Zenon

\* The first of some places is one of them.
LEMMA FirstIs ==
  ASSUME NEW Places, Places \subseteq Nat, Places # {}
  PROVE  C!First(Places) \in Places
BY LeastExists DEF C!First

\* Places of the record where a name is, and whether it ships.
Own(name) == {i \in order.held : C!publishedName(C!Entry(i)) = name}

\* The number of a name is one that it has where it is known, else none.
NumberOf(name, number) ==
  \/ \E i \in Own(name) : C!Entry(i).custom = number
  \/ Own(name) = {} /\ \E m \in C!Shipped : m[1] = name /\ m[2] = number
  \/ Own(name) = {} /\ (~\E m \in C!Shipped : m[1] = name) /\ number = NaN

\* The ladder gives the number of a name (modeNumberFor).
LEMMA NumberIs ==
  ASSUME IsOrder(order), order.firmware # None, NEW name
  PROVE  NumberOf(name, C!modeNumberFor(name))
<1> DEFINE own == Own(name)
           shipped == {m \in C!Shipped : m[1] = name}
           number == C!modeNumberFor(name)
<1>1. own \subseteq Nat
  BY TablesAre DEF IsOrder, Own
<1>2. number = IF own # {} THEN C!Entry(C!First(own)).custom
               ELSE IF shipped # {} THEN (CHOOSE m \in shipped : TRUE)[2] ELSE NaN
  BY DEF C!modeNumberFor, Own
<1>3. own # {} => C!First(own) \in own
  BY <1>1, FirstIs
<1>4. shipped # {} => (CHOOSE m \in shipped : TRUE) \in shipped
  OBVIOUS
<1> HIDE DEF number
<1>5. ASSUME own # {} PROVE NumberOf(name, number)
  <2>1. C!First(own) \in own /\ number = C!Entry(C!First(own)).custom
    BY <1>2, <1>3, <1>5
  <2> QED BY <2>1 DEF NumberOf
<1>6. ASSUME own = {} /\ shipped # {} PROVE NumberOf(name, number)
  <2>1. PICK m \in shipped : number = m[2]
    BY <1>2, <1>4, <1>6
  <2> QED BY <1>6, <2>1 DEF NumberOf
<1>7. ASSUME own = {} /\ shipped = {} PROVE NumberOf(name, number)
  <2>1. number = NaN
    BY <1>2, <1>7
  <2> QED BY <1>7, <2>1 DEF NumberOf
<1>8. NumberOf(name, number)
  BY <1>5, <1>6, <1>7
<1> QED BY <1>8 DEF number

\* It is a number of the firmware, or none.
LEMMA NumberIsOne ==
  ASSUME IsOrder(order), order.firmware # None, NEW name, NEW number, NumberOf(name, number)
  PROVE  number = NaN \/ IsNumber(order.firmware, number)
<1> DEFINE f == order.firmware
<1>1. f \in {"ardupilot", "px4"} /\ order.held \subseteq DOMAIN PublishedModes[f]
  BY DEF IsOrder
<1>2. C!Shipped = C!ShippedModes[f] /\ \A i : C!Entry(i) = PublishedModes[f][i]
  BY DEF C!Shipped, C!Entry
<1> HIDE DEF f
<1>3. /\ \A m \in C!ShippedModes[f] : IsNumber(f, m[2])
      /\ \A i \in DOMAIN PublishedModes[f] : IsNumber(f, PublishedModes[f][i].custom)
  BY <1>1, NumbersAre
<1>4. number = NaN \/ IsNumber(f, number)
  BY <1>1, <1>2, <1>3 DEF NumberOf, Own
<1> QED BY <1>4 DEF f

\* A mode that is entered by name is shown by it, or by what the vehicle calls it.
LEMMA NameComesBack ==
  ASSUME IsOrder(order), order.firmware # None, NEW name, name # None, NEW number, NumberOf(name, number),
         number # NaN
  PROVE  C!IsShown(number, name)
<1> DEFINE f == order.firmware
           nameOf(i) == C!publishedName(PublishedModes[f][i])
           numberOf(i) == PublishedModes[f][i].custom
           published == {i \in order.held : numberOf(i) = number /\ nameOf(i) # None}
           shipped == {m \in C!Shipped : m[2] = number}
<1>1. f \in {"ardupilot", "px4"} /\ order.held \subseteq DOMAIN PublishedModes[f]
  BY DEF IsOrder
<1>2. C!Shipped = C!ShippedModes[f] /\ \A i : C!Entry(i) = PublishedModes[f][i]
  BY DEF C!Shipped, C!Entry
<1>3. DOMAIN PublishedModes[f] \subseteq Nat /\ C!TablesAgree(f)
  BY <1>1, TablesAre
<1>4. C!modeNameFor(number) = IF published # {} THEN nameOf(C!First(published))
                              ELSE IF shipped # {} THEN (CHOOSE m \in shipped : TRUE)[1] ELSE None
  BY DEF C!modeNameFor, C!Entry
<1>5. Own(name) = {i \in order.held : nameOf(i) = name}
  BY <1>2 DEF Own
<1> HIDE DEF f
<1>6. /\ \A m, n \in C!ShippedModes[f] : m[2] = n[2] => m = n
      /\ \A i, j \in DOMAIN PublishedModes[f] : nameOf(i) # None /\ nameOf(j) # None /\ numberOf(i) = numberOf(j) => nameOf(i) = nameOf(j)
  BY <1>3 DEF C!TablesAgree
<1>7. \A i : C!Entry(i).custom = numberOf(i) /\ C!publishedName(C!Entry(i)) = nameOf(i)
  BY <1>2
<1>8. published # {} => C!First(published) \in published
  BY <1>1, <1>3, FirstIs
<1>9. shipped # {} => (CHOOSE m \in shipped : TRUE) \in shipped
  OBVIOUS
<1> HIDE DEF nameOf, numberOf
<1>10. CASE \E i \in Own(name) : C!Entry(i).custom = number
  <2>1. PICK i \in order.held : nameOf(i) = name /\ numberOf(i) = number
    BY <1>5, <1>7, <1>10
  <2>2. i \in published
    BY <2>1
  <2>3. C!First(published) \in order.held /\ numberOf(C!First(published)) = number /\ nameOf(C!First(published)) # None
    BY <1>8, <2>2
  <2>4. order.held \subseteq DOMAIN PublishedModes[f]
    BY <1>1
  <2>5. nameOf(C!First(published)) = name
    BY <1>6, <2>1, <2>3, <2>4
  <2> QED BY <1>4, <2>2, <2>5 DEF C!IsShown
<1>11. CASE Own(name) = {} /\ \E m \in C!Shipped : m[1] = name /\ m[2] = number
  <2>1. PICK m \in C!ShippedModes[f] : m[1] = name /\ m[2] = number
    BY <1>2, <1>11
  <2>2. CASE published # {}
    <3>1. ~\E i \in order.held : C!publishedName(C!Entry(i)) = name
      BY <1>5, <1>7, <1>11
    <3>2. C!First(published) \in order.held /\ numberOf(C!First(published)) = number
      BY <1>8, <2>2
    <3>3. C!modeNameFor(number) = nameOf(C!First(published))
      BY <1>4, <2>2
    <3> QED BY <1>7, <3>1, <3>2, <3>3 DEF C!IsShown
  <2>3. m \in shipped
    BY <1>2, <2>1
  <2>4. (CHOOSE x \in shipped : TRUE) = m
    BY <1>2, <1>6, <1>9, <2>1, <2>3
  <2>5. published = {} => C!modeNameFor(number) = name
    BY <1>4, <2>1, <2>3, <2>4
  <2> QED BY <2>2, <2>5 DEF C!IsShown
<1> QED BY <1>10, <1>11 DEF NumberOf

\* What a name means is its number.
LEMMA NumberIsMeant ==
  ASSUME IsOrder(order), order.firmware # None, NEW name, NEW number, NumberOf(name, number)
  PROVE  C!Means(number, name)
<1> DEFINE own == {i \in order.held : C!publishedName(C!Entry(i)) = name}
<1>1. Own(name) = own
  BY DEF Own
<1>2. order.firmware \in {"ardupilot", "px4"}
  BY DEF IsOrder
<1>3. \A m \in C!Shipped : m = <<m[1], m[2]>>
  BY <1>2, NumbersAre DEF C!Shipped
<1>4. CASE \E i \in own : C!Entry(i).custom = number
  BY <1>4 DEF C!Means
<1>5. CASE own = {} /\ \E m \in C!Shipped : m[1] = name /\ m[2] = number
  <2>1. PICK m \in C!Shipped : m[1] = name /\ m[2] = number
    BY <1>5
  <2>2. <<name, number>> \in C!Shipped
    BY <1>3, <2>1
  <2> QED BY <1>5, <2>1, <2>2 DEF C!Means
<1>6. CASE own = {} /\ (~\E m \in C!Shipped : m[1] = name) /\ number = NaN
  BY <1>6 DEF C!Means
<1> QED BY <1>1, <1>4, <1>5, <1>6 DEF NumberOf

\* What the node is given and what the message adds, put together.
LEMMA MergedIs ==
  ASSUME IsOrder(order)
  PROVE  C!Merged \in [1..3 -> Int \cup {None}]
BY DEF C!Merged, IsOrder

\* The first parameter is marked, and is one that was sent.
LEMMA MarkIsOdd ==
  ASSUME NEW base \in Int \cup {None}
  PROVE  C!CustomModeEnabled(base) \in Int /\ C!CustomModeEnabled(base) % 2 = 1
<1>1. CASE base = None
  BY <1>1 DEF C!CustomModeEnabled
<1>2. CASE base # None
  <2>1. base \in Int /\ C!CustomModeEnabled(base) = base + (1 - (base % 2))
    BY <1>2 DEF C!CustomModeEnabled
  <2>2. base + (1 - (base % 2)) \in Int /\ (base + (1 - (base % 2))) % 2 = 1
    BY <2>1
  <2> QED BY <2>1, <2>2
<1> QED BY <1>1, <1>2

\* A name that is not overruled is sent as its number: both halves, or all of it.
LEMMA NumberIsSent ==
  ASSUME IsOrder(order), order.name # None, order.firmware # None, NEW number,
         number = C!modeNumberFor(order.name),
         ~\E i \in DOMAIN C!setModeParams(order.name) : order.payload[i] # None
  PROVE  C!Wire[1] % 2 = 1 /\ C!Entered = number
<1> DEFINE named == C!setModeParams(order.name)
           merged == C!Merged
           asked == C!Requested
<1>1. asked = C!Filled(merged, named, DOMAIN named)
  BY DEF C!Requested, C!applyModeName
<1>2. /\ asked[1] = C!CustomModeEnabled(merged[1])
      /\ \A i \in 2..3 : asked[i] = IF i \in DOMAIN named THEN named[i] ELSE merged[i]
  BY <1>1 DEF C!Filled
<1>3. \A i \in 1..3 : C!Wire[i] = IF asked[i] = None THEN 0 ELSE asked[i]
  BY DEF C!Wire
<1>4. merged[1] \in Int \cup {None}
  BY MergedIs
<1>5. NumberOf(order.name, number)
  BY NumberIs
<1>6. number = NaN \/ IsNumber(order.firmware, number)
  BY <1>5, NumberIsOne
<1>7. named = IF order.firmware = "px4" THEN [i \in {2, 3} |-> IF i = 2 THEN C!px4MainMode(number) ELSE C!px4SubMode(number)]
              ELSE IF order.firmware = "ardupilot" THEN [i \in {2} |-> number] ELSE << >>
  BY DEF C!setModeParams
<1>8. order.firmware \in {"ardupilot", "px4"}
  BY DEF IsOrder
<1> HIDE DEF named, merged, asked
<1>9. C!Wire[1] % 2 = 1
  <2>1. asked[1] \in Int /\ asked[1] % 2 = 1
    BY <1>2, <1>4, MarkIsOdd
  <2> QED BY <1>3, <2>1, ValuesAre
<1>10. CASE order.firmware = "ardupilot"
  <2>1. asked[2] = number
    BY <1>2, <1>7, <1>10
  <2>2. number # None
    BY <1>6, ValuesAre DEF IsNumber
  <2>3. C!Wire[2] = number
    BY <1>3, <2>1, <2>2
  <2> QED BY <1>9, <1>10, <2>3 DEF C!Entered
<1>11. CASE order.firmware = "px4"
  <2> DEFINE main == C!px4MainMode(number)
             sub == C!px4SubMode(number)
  <2>1. asked[2] = main /\ asked[3] = sub
    BY <1>2, <1>7, <1>11
  <2>2. C!Entered = C!px4CustomMode(C!Wire[2], C!Wire[3])
    BY <1>11 DEF C!Entered
  <2>3. CASE number = NaN
    <3>1. main = NaN /\ sub = NaN
      BY <2>3 DEF C!px4MainMode, C!px4SubMode
    <3>2. C!Wire[2] = NaN
      BY <1>3, <2>1, <3>1, ValuesAre
    <3>3. C!px4CustomMode(C!Wire[2], C!Wire[3]) = NaN
      BY <3>2 DEF C!px4CustomMode
    <3> QED BY <1>9, <2>2, <2>3, <3>3
  <2>4. CASE IsNumber("px4", number)
    <3>1. number \in Nat /\ number = C!px4CustomMode(main, sub)
      BY <2>4 DEF IsNumber, C!IsPacked
    <3>2. main \in Int /\ sub \in Int
      BY <3>1, ValuesAre DEF C!px4MainMode, C!px4SubMode, C!PX4_MAIN_SCALE, C!PX4_SUB_SCALE
    <3> HIDE DEF main, sub
    <3>3. C!Wire[2] = main /\ C!Wire[3] = sub
      BY <1>3, <2>1, <3>2, ValuesAre
    <3> QED BY <1>9, <2>2, <3>1, <3>3
  <2> QED BY <1>6, <1>11, <2>3, <2>4
<1> QED BY <1>8, <1>10, <1>11

\* A mode given by name is the one that is entered, for any tables and records.
LEMMA NamesAreKept ==
  ASSUME IsOrder(order)
  PROVE  C!ModesAreAsNamed
<1> SUFFICES ASSUME order.verb = "set mode", order.name # None, order.firmware # None
             PROVE  IF \E i \in DOMAIN C!setModeParams(order.name) : order.payload[i] # None
                    THEN \A i \in 2..3 : C!Requested[i] = C!Merged[i]
                    ELSE /\ C!Wire[1] % 2 = 1 /\ C!Means(C!Entered, order.name)
                         /\ C!Entered # NaN => C!IsShown(C!Entered, order.name)
  BY DEF C!ModesAreAsNamed
<1>1. CASE \E i \in DOMAIN C!setModeParams(order.name) : order.payload[i] # None
  <2>1. C!Requested = C!Merged
    BY <1>1 DEF C!Requested, C!applyModeName
  <2> QED BY <1>1, <2>1
<1>2. CASE ~\E i \in DOMAIN C!setModeParams(order.name) : order.payload[i] # None
  <2>1. PICK number : number = C!modeNumberFor(order.name)
    OBVIOUS
  <2>2. C!Wire[1] % 2 = 1 /\ C!Entered = number
    BY <1>2, <2>1, NumberIsSent
  <2>3. NumberOf(order.name, number)
    BY <2>1, NumberIs
  <2>4. C!Means(number, order.name)
    BY <2>3, NumberIsMeant
  <2>5. ASSUME number # NaN
        PROVE  C!IsShown(number, order.name)
    BY <2>3, <2>5, NameComesBack
  <2> QED BY <1>2, <2>2, <2>4, <2>5
<1> QED BY <1>1, <1>2

-----------------------------------------------------------------------------
(* Completion: what the record shows *)

\* What the vehicle's record says of it is what it was.
ReportsAreTrue ==
  component # None =>
    /\ component.heartbeat # None =>
         /\ component.heartbeat.armed \in BOOLEAN /\ component.heartbeat.ground \in BOOLEAN
         /\ ~component.heartbeat.armed => component.heartbeat.ground
         /\ component.heartbeat.mode \in order.modes
    /\ component.landed # None =>
         /\ component.landed.ground \in BOOLEAN
         /\ component.landed.says = IF ~order.detector THEN "undefined"
                                    ELSE IF component.landed.ground THEN "on ground" ELSE "in air"
    /\ component.position # None =>
         component.position.height \in Int /\ component.position.alt = component.position.height + order.home

\* What the state has to show of a request, and what it must not have shown.
Shown ==
  /\ order.verb = "arm" => component.heartbeat.armed
  /\ order.verb = "disarm" => ~component.heartbeat.armed
  /\ order.verb = "takeoff" => 10 * component.position.height >= 9 * C!Climb
  /\ order.verb = "land" =>
       \/ C!Known("landed") /\ component.landed.ground
       \/ C!Known("heartbeat") => component.heartbeat.ground
  /\ order.verb = "set mode" => component.heartbeat.mode = C!Entered
Unseen ==
  /\ order.verb \in {"arm", "disarm"} /\ C!Known("heartbeat") =>
       component.heartbeat.armed # (order.verb = "arm")
  /\ order.verb = "takeoff" /\ C!Known("position") => 10 * component.position.height < 9 * C!Climb
  /\ order.verb = "land" /\ C!Known("landed") => ~(order.detector /\ component.landed.ground)
  /\ order.verb = "set mode" /\ C!Known("heartbeat") =>
       \/ component.heartbeat.mode # C!Entered
       \/ order.firmware = "px4" /\ C!Requested[3] = None

\* A mode that was asked for by number is sent so, but for a sub mode left open.
LEMMA ModeIsSent ==
  ASSUME ~C!Unverifiable, order.verb = "set mode"
  PROVE  /\ C!Requested[2] \notin {None, NaN}
         /\ order.firmware # "px4" => C!Entered = C!Requested[2]
         /\ order.firmware = "px4" /\ C!Requested[3] # None =>
              C!Entered = C!px4CustomMode(C!Requested[2], C!Requested[3])
         /\ order.firmware = "px4" /\ C!Requested[3] = None =>
              C!px4CustomMode(C!Requested[2], C!Requested[3]) = NaN
<1> DEFINE asked == C!Requested
<1>1. asked[2] \notin {None, NaN}
  BY DEF C!Unverifiable
<1>2. \A i \in 1..3 : C!Wire[i] = IF asked[i] = None THEN 0 ELSE asked[i]
  BY DEF C!Wire
<1> HIDE DEF asked
<1>3. C!Wire[2] = asked[2] /\ (asked[3] # None => C!Wire[3] = asked[3])
  <2>1. 2 \in 1..3 /\ 3 \in 1..3
    BY ONLY SMT
  <2>2. C!Wire[2] = IF asked[2] = None THEN 0 ELSE asked[2]
    BY <1>2, <2>1, Zenon
  <2>3. C!Wire[3] = IF asked[3] = None THEN 0 ELSE asked[3]
    BY <1>2, <2>1, Zenon
  <2> QED BY <1>1, <2>2, <2>3, Zenon
<1>4. /\ order.firmware # "px4" => C!Entered = asked[2]
      /\ order.firmware = "px4" /\ asked[3] # None => C!Entered = C!px4CustomMode(asked[2], asked[3])
  BY <1>3 DEF C!Entered
<1>5. asked[3] = None => C!px4CustomMode(asked[2], asked[3]) = NaN
  BY DEF C!px4CustomMode
<1> QED BY <1>1, <1>4, <1>5 DEF asked

\* The climb the check waits for is the one the vehicle makes.
LEMMA ClimbIsJudged ==
  ASSUME IsOrder(order), ReportsAreTrue, order.verb = "takeoff", C!Known("position")
  PROVE  C!ClimbIsDone <=> 10 * component.position.height >= 9 * C!Climb
<1> DEFINE at == component.position
<1>1. at.height \in Int /\ at.alt = at.height + order.home
  BY DEF ReportsAreTrue, C!Known
<1>2. order.firmware \in {"ardupilot", "px4"} /\ order.home \in Int /\ order.altitude \in Int
  BY DEF IsOrder
<1>3. at.alt - at.height = order.home
  <2>1. \A a, h, k \in Int : a = h + k => a - h = k
    OBVIOUS
  <2> HIDE DEF at
  <2>2. at.alt \in Int
    BY <1>1, <1>2
  <2> QED BY <1>1, <1>2, <2>1, <2>2
<1>4. C!AboveSeaLevel <=> order.firmware = "px4" \/ <<order.carrier, order.frame>> = <<"int", "global">>
  BY <1>2 DEF C!AboveSeaLevel
<1>5. C!Climb = IF C!AboveSeaLevel THEN order.altitude - (at.alt - at.height) ELSE order.altitude
  BY <1>3, <1>4 DEF C!Climb
<1> QED BY <1>5 DEF C!ClimbIsDone

\* A report that confirms a request shows that it was fulfilled.
LEMMA DoneIsShown ==
  ASSUME IsOrder(order), ReportsAreTrue, C!IsDone
  PROVE  Shown
<1>1. CASE order.verb = "arm"
  <2>1. component.heartbeat.armed = TRUE
    BY <1>1 DEF C!IsDone, C!Armed
  <2> QED BY <1>1, <2>1 DEF Shown
<1>2. CASE order.verb = "disarm"
  <2>1. component.heartbeat.armed = FALSE
    BY <1>2 DEF C!IsDone, C!Armed
  <2> QED BY <1>2, <2>1 DEF Shown
<1>3. CASE order.verb = "takeoff"
  <2>1. C!ClimbIsDone
    BY <1>3 DEF C!IsDone
  <2>2. C!Known("position")
    BY <2>1 DEF C!ClimbIsDone
  <2>3. 10 * component.position.height >= 9 * C!Climb
    BY <1>3, <2>1, <2>2, ClimbIsJudged
  <2> QED BY <1>3, <2>3 DEF Shown
<1>4. CASE order.verb = "land"
  <2>1. C!LandingIsDone
    BY <1>4 DEF C!IsDone
  <2>2. C!Known("heartbeat") => /\ component.heartbeat.armed \in BOOLEAN
                                /\ ~component.heartbeat.armed => component.heartbeat.ground
    BY DEF ReportsAreTrue, C!Known
  <2>3. C!Known("landed") /\ component.landed.says = "on ground" => component.landed.ground
    BY DEF ReportsAreTrue, C!Known
  <2>4. \/ C!Known("landed") /\ component.landed.says = "on ground"
        \/ ~C!Armed(TRUE) \/ C!Armed(FALSE)
    BY <2>1 DEF C!LandingIsDone
  <2>5. C!Armed(FALSE) => C!Known("heartbeat") /\ component.heartbeat.armed = FALSE
    BY DEF C!Armed
  <2>6. ~C!Armed(TRUE) /\ C!Known("heartbeat") => component.heartbeat.armed # TRUE
    BY DEF C!Armed
  <2>7. ~C!Armed(TRUE) \/ C!Armed(FALSE) => (C!Known("heartbeat") => component.heartbeat.ground)
    BY <2>2, <2>5, <2>6
  <2> QED BY <1>4, <2>3, <2>4, <2>7 DEF Shown
<1>5. CASE order.verb = "set mode"
  <2>1. ~C!Unverifiable /\ C!ModeIsReported
    BY <1>5 DEF C!IsDone
  <2>2. component.heartbeat.mode \in Int
    BY <2>1 DEF C!ModeIsReported, ReportsAreTrue, C!Known, IsOrder
  <2>3. component.heartbeat.mode =
          IF order.firmware = "px4" THEN C!px4CustomMode(C!Requested[2], C!Requested[3]) ELSE C!Requested[2]
    BY <2>1 DEF C!ModeIsReported
  <2>4. component.heartbeat.mode = C!Entered
    BY <1>5, <2>1, <2>2, <2>3, ModeIsSent, ValuesAre
  <2> QED BY <1>5, <2>4 DEF Shown
<1> QED BY <1>1, <1>2, <1>3, <1>4, <1>5 DEF C!IsDone

\* A request that nothing confirms was not fulfilled by what was reported.
LEMMA NotDoneIsUnseen ==
  ASSUME IsOrder(order), ReportsAreTrue, ~C!IsDone, ~C!Unverifiable
  PROVE  Unseen
<1>1. CASE order.verb = "arm"
  <2>1. C!Known("heartbeat") => component.heartbeat.armed # TRUE
    BY <1>1 DEF C!IsDone, C!Armed
  <2> QED BY <1>1, <2>1 DEF Unseen
<1>2. CASE order.verb = "disarm"
  <2>1. C!Known("heartbeat") => component.heartbeat.armed # FALSE
    BY <1>2 DEF C!IsDone, C!Armed
  <2>2. (order.verb = "arm") = FALSE
    BY <1>2
  <2> QED BY <1>2, <2>1, <2>2 DEF Unseen
<1>3. CASE order.verb = "takeoff"
  <2> SUFFICES ASSUME C!Known("position")
               PROVE  10 * component.position.height < 9 * C!Climb
    BY <1>3 DEF Unseen
  <2>1. ~C!ClimbIsDone
    BY <1>3 DEF C!IsDone
  <2>2. ~(10 * component.position.height >= 9 * C!Climb)
    BY <1>3, <2>1, ClimbIsJudged
  <2>3. component.position.height \in Int /\ C!Climb \in Int
    <3>1. component.position.height \in Int
      BY DEF ReportsAreTrue, C!Known
    <3>2. order.altitude \in Int /\ order.home \in Int
      BY DEF IsOrder
    <3>3. C!Climb \in Int
      BY <3>2 DEF C!Climb
    <3> QED BY <3>1, <3>3
  <2> QED BY <2>2, <2>3
<1>4. CASE order.verb = "land"
  <2> SUFFICES ASSUME C!Known("landed"), order.detector, component.landed.ground
               PROVE  FALSE
    BY <1>4 DEF Unseen
  <2>1. component.landed.says = "on ground"
    BY DEF ReportsAreTrue, C!Known
  <2>2. C!LandingIsDone
    BY <2>1 DEF C!LandingIsDone
  <2> QED BY <1>4, <2>2 DEF C!IsDone
<1>5. CASE order.verb = "set mode"
  <2> SUFFICES ASSUME C!Known("heartbeat"), ~(order.firmware = "px4" /\ C!Requested[3] = None)
               PROVE  component.heartbeat.mode # C!Entered
    BY <1>5 DEF Unseen
  <2>1. ~C!ModeIsReported
    BY <1>5 DEF C!IsDone
  <2>2. component.heartbeat.mode #
          IF order.firmware = "px4" THEN C!px4CustomMode(C!Requested[2], C!Requested[3]) ELSE C!Requested[2]
    BY <2>1 DEF C!ModeIsReported
  <2> QED BY <1>5, <2>2, ModeIsSent
<1> QED BY <1>1, <1>2, <1>3, <1>4, <1>5 DEF Unseen

\* A request stays the one it is.
LEMMA OrderKeeps ==
  ASSUME UNCHANGED order
  PROVE  /\ C!Requested' = C!Requested /\ C!Entered' = C!Entered /\ C!Climb' = C!Climb
         /\ C!Unverifiable' <=> C!Unverifiable
<1>1. \A name : C!modeNumberFor(name)' = C!modeNumberFor(name)
  BY SMT DEF C!modeNumberFor, C!Shipped, C!ShippedModes, C!Entry, C!First, C!publishedName
<1>2. C!setModeParams(order.name)' = C!setModeParams(order.name)
  BY <1>1 DEF C!setModeParams, C!px4MainMode, C!px4SubMode
<1>3. C!Merged' = C!Merged
  BY DEF C!Merged
<1>4. C!Requested' = C!Requested
  BY <1>2, <1>3 DEF C!Requested, C!applyModeName, C!Filled, C!CustomModeEnabled
<1>5. C!Wire' = C!Wire
  BY <1>4 DEF C!Wire
<1>6. C!Entered' = C!Entered
  BY <1>5 DEF C!Entered, C!px4CustomMode
<1>7. C!Climb' = C!Climb
  BY DEF C!Climb
<1>8. C!Unverifiable' <=> C!Unverifiable
  BY <1>4 DEF C!Unverifiable
<1> QED BY <1>4, <1>6, <1>7, <1>8

\* So does what is shown of it while the record stays.
LEMMA RecordKeeps ==
  ASSUME UNCHANGED <<order, component>>
  PROVE  (Shown' <=> Shown) /\ (Unseen' <=> Unseen) /\ (ReportsAreTrue' <=> ReportsAreTrue)
<1>1. /\ C!Requested' = C!Requested /\ C!Entered' = C!Entered /\ C!Climb' = C!Climb
  BY OrderKeeps
<1>2. Shown' <=> Shown
  BY <1>1 DEF Shown, C!Known
<1>3. Unseen' <=> Unseen
  BY <1>1 DEF Unseen, C!Known
<1>4. ReportsAreTrue' <=> ReportsAreTrue
  BY DEF ReportsAreTrue
<1> QED BY <1>2, <1>3, <1>4

-----------------------------------------------------------------------------
(* Completion: its invariant *)

\* What holds throughout: what is asked is, the record is true, and an end is
\* what the record says it is.
CompletionInv ==
  /\ IsOrder(order) /\ ReportsAreTrue
  /\ component # None =>
       component = [heartbeat |-> component.heartbeat, landed |-> component.landed, position |-> component.position]
  /\ progress = "state" => Shown
  /\ progress = "timeout" => Unseen
  /\ C!AckIsEvidence

\* It is what was promised.
LEMMA CompletionIsSound ==
  ASSUME CompletionInv
  PROVE  C!CompletionIsTrue
<1>1. C!ModesAreAsNamed
  BY NamesAreKept DEF CompletionInv
<1>2. C!StateIsEvidence
  BY DEF CompletionInv, C!StateIsEvidence, Shown
<1>3. C!NothingIsOverlooked
  BY DEF CompletionInv, C!NothingIsOverlooked, Unseen
<1> QED BY <1>1, <1>2, <1>3 DEF CompletionInv, C!CompletionIsTrue

\* It holds when the command is sent.
LEMMA CompletionStarts ==
  ASSUME C!CompletionInit
  PROVE  CompletionInv
<1>1. IsOrder(order)
  BY OrdersStart
<1>2. component = None /\ progress \in {"built", "asked"}
  BY DEF C!CompletionInit
<1> QED BY <1>1, <1>2 DEF CompletionInv, ReportsAreTrue, C!AckIsEvidence

\* A step of the wait judges the record as it stands.
LEMMA JudgingKeeps ==
  ASSUME CompletionInv, UNCHANGED <<order, component>>,
         \/ progress' = "state" /\ C!IsDone
         \/ progress' = "timeout" /\ ~C!IsDone /\ ~C!Unverifiable
         \/ progress' = "waiting" /\ ~C!Unverifiable
         \/ progress' = "ack" /\ C!Unverifiable
         \/ progress' \in {"cancelled", "unconfirmed"}
  PROVE  CompletionInv'
<1>1. IsOrder(order)' /\ ReportsAreTrue'
  BY RecordKeeps DEF CompletionInv, IsOrder
<1>2. C!Requested' = C!Requested
  BY OrderKeeps
<1>3. (progress = "state" => Shown)'
  BY RecordKeeps, DoneIsShown DEF CompletionInv
<1>4. (progress = "timeout" => Unseen)'
  BY RecordKeeps, NotDoneIsUnseen DEF CompletionInv
<1>5. C!AckIsEvidence'
  BY <1>2 DEF C!AckIsEvidence, C!Unverifiable
<1>6. (component # None =>
         component = [heartbeat |-> component.heartbeat, landed |-> component.landed, position |-> component.position])'
  BY DEF CompletionInv
<1> QED BY <1>1, <1>3, <1>4, <1>5, <1>6 DEF CompletionInv

\* An acknowledgement, its loss, a poll, the deadline and a cancel keep it.
LEMMA WaitKeeps ==
  ASSUME CompletionInv,
         C!AckAccepted \/ C!AckLost \/ C!Polls \/ C!TimesOut \/ C!Cancels
  PROVE  CompletionInv'
<1>1. progress = "waiting" => ~C!Unverifiable
  BY DEF CompletionInv, C!AckIsEvidence, C!Unverifiable
<1>2. CASE C!AckAccepted
  BY <1>2, JudgingKeeps DEF C!AckAccepted
<1>3. CASE C!AckLost
  BY <1>3, JudgingKeeps DEF C!AckLost
<1>4. CASE C!Polls
  BY <1>4, JudgingKeeps DEF C!Polls
<1>5. CASE C!TimesOut
  BY <1>1, <1>5, JudgingKeeps DEF C!TimesOut
<1>6. CASE C!Cancels
  BY <1>6, JudgingKeeps DEF C!Cancels
<1> QED BY <1>2, <1>3, <1>4, <1>5, <1>6

\* A report changes one section of the record, while the request is waited for.
LEMMA ReportingKeeps ==
  ASSUME CompletionInv, C!Attended, ReportsAreTrue',
         (component # None =>
            component = [heartbeat |-> component.heartbeat, landed |-> component.landed, position |-> component.position])'
  PROVE  CompletionInv'
<1>1. UNCHANGED order /\ progress' = progress /\ progress \in {"asked", "waiting"}
  BY DEF C!Attended
<1>2. C!Requested' = C!Requested
  BY <1>1, OrderKeeps
<1>3. IsOrder(order)'
  BY <1>1 DEF CompletionInv, IsOrder
<1>4. C!AckIsEvidence'
  BY <1>1, <1>2 DEF CompletionInv, C!AckIsEvidence
<1> QED BY <1>1, <1>3, <1>4 DEF CompletionInv

\* A report is folded into its own section.
LEMMA FoldIs ==
  ASSUME CompletionInv, NEW section \in {"heartbeat", "landed", "position"}, NEW report, C!Fold(section, report)
  PROVE  /\ component' = [heartbeat |-> component'.heartbeat, landed |-> component'.landed,
                          position |-> component'.position]
         /\ \A other \in {"heartbeat", "landed", "position"} :
              component'[other] = IF other = section THEN report
                                  ELSE IF component = None THEN None ELSE component[other]
BY DEF C!Fold, C!Fresh, CompletionInv

\* A heartbeat tells whether the vehicle is armed, and its mode.
LEMMA HeartbeatKeeps ==
  ASSUME CompletionInv, C!ingestHeartbeat
  PROVE  CompletionInv'
<1>1. PICK s \in C!VehicleStates :
        C!Fold("heartbeat", [armed |-> s.armed, standby |-> s.standby, mode |-> s.mode, ground |-> s.ground])
  BY DEF C!ingestHeartbeat
<1> DEFINE report == [armed |-> s.armed, standby |-> s.standby, mode |-> s.mode, ground |-> s.ground]
<1>2. /\ report.armed \in BOOLEAN /\ report.ground \in BOOLEAN /\ (~report.armed => report.ground)
      /\ report.mode \in order.modes
  BY <1>1 DEF C!VehicleStates
<1>3. C!Attended /\ order' = order
  BY DEF C!ingestHeartbeat, C!Attended
<1> HIDE DEF report
<1>4. C!Fold("heartbeat", report)
  BY <1>1 DEF report
<1>5. /\ component' = [heartbeat |-> component'.heartbeat, landed |-> component'.landed, position |-> component'.position]
      /\ component'.heartbeat = report
      /\ component'.landed = IF component = None THEN None ELSE component.landed
      /\ component'.position = IF component = None THEN None ELSE component.position
  BY <1>4, FoldIs
<1>6. ReportsAreTrue'
  BY <1>2, <1>3, <1>5 DEF ReportsAreTrue, CompletionInv
<1> QED BY <1>3, <1>5, <1>6, ReportingKeeps

\* The detector, where there is one, tells whether it stands.
LEMMA SysStateKeeps ==
  ASSUME CompletionInv, C!ingestExtendedSysState
  PROVE  CompletionInv'
<1> DEFINE Report(s) == [says |-> IF ~order.detector THEN "undefined"
                                  ELSE IF s.ground THEN "on ground" ELSE "in air",
                         ground |-> s.ground]
<1>1. PICK s \in C!VehicleStates : C!Fold("landed", Report(s))
  BY DEF C!ingestExtendedSysState
<1> DEFINE report == Report(s)
<1>2. /\ report.ground \in BOOLEAN
      /\ report.says = IF ~order.detector THEN "undefined" ELSE IF report.ground THEN "on ground" ELSE "in air"
  BY <1>1 DEF C!VehicleStates
<1>3. C!Attended /\ order' = order
  BY DEF C!ingestExtendedSysState, C!Attended
<1>4. C!Fold("landed", report)
  BY <1>1
<1> HIDE DEF report
<1>5. /\ component' = [heartbeat |-> component'.heartbeat, landed |-> component'.landed, position |-> component'.position]
      /\ component'.landed = report
      /\ component'.heartbeat = IF component = None THEN None ELSE component.heartbeat
      /\ component'.position = IF component = None THEN None ELSE component.position
  BY <1>4, FoldIs
<1>6. ReportsAreTrue'
  BY <1>2, <1>3, <1>5 DEF ReportsAreTrue, CompletionInv
<1> QED BY <1>3, <1>5, <1>6, ReportingKeeps

\* A position tells its height, above home and above the sea.
LEMMA PositionKeeps ==
  ASSUME CompletionInv, C!ingestGlobalPositionInt
  PROVE  CompletionInv'
<1>1. PICK s \in C!VehicleStates : C!Fold("position", [height |-> s.height, alt |-> s.height + order.home])
  BY DEF C!ingestGlobalPositionInt
<1> DEFINE report == [height |-> s.height, alt |-> s.height + order.home]
<1>2. report.height \in Int /\ report.alt = report.height + order.home
  BY <1>1, ValuesAre DEF C!VehicleStates
<1>3. C!Attended /\ order' = order
  BY DEF C!ingestGlobalPositionInt, C!Attended
<1>4. C!Fold("position", report)
  BY <1>1
<1> HIDE DEF report
<1>5. /\ component' = [heartbeat |-> component'.heartbeat, landed |-> component'.landed, position |-> component'.position]
      /\ component'.position = report
      /\ component'.heartbeat = IF component = None THEN None ELSE component.heartbeat
      /\ component'.landed = IF component = None THEN None ELSE component.landed
  BY <1>4, FoldIs
<1>6. ReportsAreTrue'
  BY <1>2, <1>3, <1>5 DEF ReportsAreTrue, CompletionInv
<1> QED BY <1>3, <1>5, <1>6, ReportingKeeps

\* A vehicle that is forgotten has no record.
LEMMA ExpiryKeeps ==
  ASSUME CompletionInv, C!Expires
  PROVE  CompletionInv'
<1>1. C!Attended /\ component' = None
  BY DEF C!Expires
<1> QED BY <1>1, ReportingKeeps DEF ReportsAreTrue

\* Every step keeps the invariant.
LEMMA CompletionKeeps ==
  ASSUME CompletionInv, C!CompletionNext \/ UNCHANGED completionVars
  PROVE  CompletionInv'
<1>1. CASE UNCHANGED completionVars
  <2>1. UNCHANGED <<order, component>> /\ progress' = progress
    BY <1>1 DEF completionVars
  <2>2. C!Requested' = C!Requested
    BY <2>1, OrderKeeps
  <2>3. (IsOrder(order) /\ C!AckIsEvidence)'
    BY <2>1, <2>2 DEF CompletionInv, IsOrder, C!AckIsEvidence
  <2> QED BY <2>1, <2>3, RecordKeeps DEF CompletionInv
<1> QED BY <1>1, WaitKeeps, HeartbeatKeeps, SysStateKeeps, PositionKeeps, ExpiryKeeps DEF C!CompletionNext

\* A command that is confirmed was done, and a mode by name is the mode that is
\* entered, and shown by that name or the vehicle's own: for any heights, tables of modes, records of them, names
\* and numbers, and whatever the vehicle reports when.
THEOREM CompletionStaysTrue == Spec => []CompletionIsTrue
<1> DEFINE Inv == part = "completion" => CompletionInv
<1>1. Init => Inv
  BY CompletionStarts DEF Init
<1>2. Inv /\ [Next]_vars => Inv'
  <2> SUFFICES ASSUME Inv, [Next]_vars, part' = "completion"
               PROVE  CompletionInv'
    OBVIOUS
  <2>1. part = "completion"
    BY DEF Next, vars, choices
  <2>2. C!CompletionNext \/ UNCHANGED completionVars
    BY <2>1 DEF Next, vars
  <2> QED BY <2>1, <2>2, CompletionKeeps
<1>3. Inv => CompletionIsTrue
  BY CompletionIsSound DEF CompletionIsTrue
<1> QED BY <1>1, <1>2, <1>3, PTL DEF Spec
=============================================================================
