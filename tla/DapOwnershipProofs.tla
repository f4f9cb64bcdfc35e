------------------------ MODULE DapOwnershipProofs ------------------------
(***************************************************************************)
(* Proofs about DapOwnership for every set of tasks and every generation   *)
(* limit.  Nineteen actions take only seven kinds of steps; IInv is shown  *)
(* to survive each kind, and each action to be of one of them.             *)
(***************************************************************************)
EXTENDS DapOwnership, TLAPS

-----------------------------------------------------------------------------
(* The kinds of steps *)

\* What a load may leave behind: an inactive word fit for the exchange.
Loaded(label, value) ==
  /\ label \in CasLabels
  /\ value \in States
  /\ ~control.active
  /\ label = "acquire_cas" => control.state = "NONE" /\ value \in Owners
  /\ label \in {"revoke_cas", "revoke_owner_cas"} => control.state \in Owners
  /\ label \in {"control_cas", "suspend_cas"} =>
       control.state \in Owners \cup {"NONE"}
  /\ label = "resume_cas" => control.state = "SUSPENDED"

\* The word is read, not written.
ReadStep(t) ==
  /\ pc[t] \notin TransitionLabels
  /\ UNCHANGED <<control, operation>>
  /\ regranted' \in {regranted, regranted \ {t}}
  /\ \/ UNCHANGED claim
     \/ claim' = [claim EXCEPT ![t] = NoClaim]
     \/ /\ control.state \in Owners
        /\ claim' = [claim EXCEPT ![t] =
             [owner |-> control.state, generation |-> control.generation]]
  /\ \/ \E r \in Results : Return(t, r)
     \/ \E label, value :
          /\ Loaded(label, value)
          /\ Continue(t, label, control, value)
          /\ t \notin regranted'

\* A task takes the TRANSITION lock.
LockStep(t) ==
  /\ pc[t] \notin TransitionLabels
  /\ pc[t] \in CasLabels => expected[t] = control
  /\ control.state \in Owners \cup {"NONE", "UNINITIALIZED"}
  /\ ~control.active
  /\ control' = MakeControl(control.generation, "TRANSITION")
  /\ \E label \in TransitionLabels, word \in Words, value \in States :
       /\ Continue(t, label, word, value)
       /\ word.generation = control.generation
       /\ label = "line_reset" => value \in Owners
       /\ label = "release_pins" => value \in {"NONE", "SUSPENDED"}
       /\ label = "init_store" => control.generation = 0
  /\ UNCHANGED <<claim, operation, regranted>>

\* The holder of the lock goes from line_reset to release_pins.
KeepStep(t) ==
  /\ pc[t] = "line_reset"
  /\ Continue(t, "release_pins", expected[t], "NONE")
  /\ UNCHANGED <<control, claim, operation, regranted>>

\* The holder of the lock stores a state without an owner, or an exchange
\* of suspend or resume moves between NONE and SUSPENDED.
StoreStep(t) ==
  /\ \E state \in {"NONE", "SUSPENDED", "OFFLINE"} :
       /\ control' = MakeControl(control.generation, state)
       /\ \/ pc[t] \in TransitionLabels
          \/ /\ ~control.active
             /\ pc[t] = "suspend_cas"
             /\ control.state = "NONE" /\ state = "SUSPENDED"
          \/ /\ ~control.active
             /\ pc[t] = "resume_cas"
             /\ control.state = "SUSPENDED" /\ state = "NONE"
  /\ \E r \in Results : Return(t, r)
  /\ UNCHANGED <<claim, operation, regranted>>

\* The holder of the lock grants the port.
GrantStep(t) ==
  /\ pc[t] = "line_reset"
  /\ control.generation + 1 \in Generations
  /\ \E owner \in Owners :
       /\ control' = MakeControl(control.generation + 1, owner)
       /\ claim' = [claim EXCEPT ![t] =
            [owner |-> owner, generation |-> control.generation + 1]]
  /\ regranted' = {u \in Tasks : pc[u] \in CasLabels}
  /\ \E r \in Results : Return(t, r)
  /\ UNCHANGED operation

\* A task sets the ACTIVE bit.
BeginStep(t) ==
  /\ pc[t] \notin TransitionLabels
  /\ control.state \in Owners \cup {"NONE"}
  /\ ~control.active
  /\ control' = WithActive(control)
  /\ operation' = [operation EXCEPT ![t] =
       [owner |-> control.state, generation |-> control.generation,
        active |-> TRUE]]
  /\ \E r \in Results : Return(t, r)
  /\ UNCHANGED <<claim, regranted>>

\* The holder of the bit clears it.
EndStep(t) ==
  /\ operation[t].active
  /\ control' = MakeControl(control.generation, control.state)
  /\ operation' = [operation EXCEPT ![t] = NoOperation]
  /\ UNCHANGED <<pc, expected, arg, claim, result, regranted>>

Step(t) ==
  \/ ReadStep(t) \/ LockStep(t) \/ KeepStep(t) \/ StoreStep(t)
  \/ GrantStep(t) \/ BeginStep(t) \/ EndStep(t)

-----------------------------------------------------------------------------
(* Typing of the pieces *)

LEMMA RefusalType ==
  ASSUME NEW word, NEW other \in Results
  PROVE  Refusal(word, other) \in Results
  BY Zenon DEF Refusal, Results

LEMMA ClaimFailureType ==
  ASSUME NEW word, NEW c
  PROVE  ClaimFailureResult(word, c) \in Results
  BY Zenon DEF ClaimFailureResult, Results

LEMMA WordType ==
  ASSUME NEW g \in Generations, NEW s \in States
  PROVE  MakeControl(g, s) \in Words
  BY DEF MakeControl, Words

LEMMA ActiveType ==
  ASSUME NEW w \in Words
  PROVE  WithActive(w) \in Words
  BY DEF WithActive, Words

LEMMA BlankType == Blank \in Words
  BY GenerationAssumption, WordType DEF Blank, States, Generations

\* What Return does to the calling task and to the others.
LEMMA ReturnEffect ==
  ASSUME TypeOK, NEW t \in Tasks, NEW r \in Results, Return(t, r)
  PROVE  /\ pc' \in [Tasks -> Labels]
         /\ expected' \in [Tasks -> Words]
         /\ arg' \in [Tasks -> States]
         /\ result' \in [Tasks -> Results]
         /\ pc'[t] = "idle"
         /\ \A u \in Tasks : u # t =>
              pc'[u] = pc[u] /\ expected'[u] = expected[u] /\ arg'[u] = arg[u]
  BY BlankType DEF TypeOK, Return, Labels, States

LEMMA ContinueEffect ==
  ASSUME TypeOK, NEW t \in Tasks, NEW label \in Labels, NEW word \in Words,
         NEW value \in States, Continue(t, label, word, value)
  PROVE  /\ pc' \in [Tasks -> Labels]
         /\ expected' \in [Tasks -> Words]
         /\ arg' \in [Tasks -> States]
         /\ result' \in [Tasks -> Results]
         /\ pc'[t] = label
         /\ expected'[t] = word
         /\ arg'[t] = value
         /\ \A u \in Tasks : u # t =>
              pc'[u] = pc[u] /\ expected'[u] = expected[u] /\ arg'[u] = arg[u]
  BY DEF TypeOK, Continue

-----------------------------------------------------------------------------
(* IInv survives each kind of step *)

LEMMA ReadPreserves ==
  ASSUME IInv, NEW t \in Tasks, ReadStep(t)
  PROVE  IInv'
  <1> USE DEF IInv
  <1>1. claim' \in [Tasks -> [owner : Owners \cup {"NONE"},
                              generation : Generations]]
    BY GenerationAssumption DEF TypeOK, ReadStep, NoClaim, Words, Generations
  <1>2. control' = control /\ operation' = operation
    BY DEF ReadStep
  <1>3. regranted' \subseteq regranted
    BY DEF ReadStep
  <1>4. ClaimInv'
    <2>1. \A u \in Tasks : u # t => claim'[u] = claim[u]
      BY DEF ReadStep, TypeOK
    <2>2. \/ claim'[t] = claim[t]
          \/ claim'[t] = NoClaim
          \/ /\ control.state \in Owners
             /\ claim'[t] = [owner |-> control.state,
                             generation |-> control.generation]
      BY DEF ReadStep, TypeOK
    <2>3. /\ control.generation \in Nat
          /\ \A u \in Tasks : claim[u].generation \in Nat
      BY GenerationAssumption DEF TypeOK, Words, Generations
    <2>4. \A u \in Tasks :
            /\ claim'[u].generation <= control.generation
            /\ claim'[u].owner = "NONE" <=> claim'[u].generation = 0
            /\ /\ control.state \in Owners
               /\ claim'[u].generation = control.generation
               => claim'[u].owner = control.state
      BY <2>1, <2>2, <2>3 DEF ClaimInv, NoClaim, Owners
    <2>5. ASSUME NEW u \in Tasks, NEW v \in Tasks,
                 claim'[u].generation = claim'[v].generation
          PROVE  claim'[u].owner = claim'[v].owner
      <3>1. CASE claim'[t] = claim[t]
        BY <2>1, <2>5, <3>1 DEF ClaimInv, ClaimsAgree
      <3>2. CASE claim'[t] = NoClaim
        BY <2>1, <2>4, <2>5, <3>2 DEF ClaimInv, ClaimsAgree, NoClaim
      <3>3. CASE /\ control.state \in Owners
                 /\ claim'[t] = [owner |-> control.state,
                                 generation |-> control.generation]
        BY <2>1, <2>4, <2>5, <3>3 DEF ClaimInv, ClaimsAgree
      <3>4. QED BY <2>2, <3>1, <3>2, <3>3
    <2>6. QED BY <1>2, <2>4, <2>5 DEF ClaimInv, ClaimsAgree
  <1>5. OperationInv'
    BY <1>2 DEF OperationInv
  <1>6. CASE \E r \in Results : Return(t, r)
    <2>1. PICK r \in Results : Return(t, r)
      BY <1>6
    <2>2. TypeOK'
      BY <1>1, <1>2, <1>3, <2>1, ReturnEffect DEF TypeOK
    <2>3. LocalsInv'
      BY <1>2, <1>3, <2>1, ReturnEffect
      DEF LocalsInv, CasLabels
    <2>4. TransitionInv'
      BY <1>2, <2>1, ReturnEffect
      DEF TransitionInv, TransitionLabels, ReadStep
    <2>5. QED BY <1>4, <1>5, <2>2, <2>3, <2>4
  <1>7. CASE \E label, value : /\ Loaded(label, value)
                               /\ Continue(t, label, control, value)
                               /\ t \notin regranted'
    <2>1. PICK label, value : /\ Loaded(label, value)
                              /\ Continue(t, label, control, value)
                              /\ t \notin regranted'
      BY <1>7
    <2>2. label \in Labels /\ control \in Words /\ value \in States
      BY <2>1 DEF Loaded, Labels, TypeOK
    <2>3. TypeOK'
      BY <1>1, <1>2, <1>3, <2>1, <2>2, ContinueEffect DEF TypeOK
    <2>4. control.generation <= control.generation
      BY DEF TypeOK, Words, Generations
    <2>5. LocalsInv'
      BY <1>2, <1>3, <2>1, <2>2, <2>4, ContinueEffect
      DEF LocalsInv, CasLabels, Loaded
    <2>6. label \notin TransitionLabels
      BY <2>1 DEF Loaded, CasLabels, TransitionLabels
    <2>7. TransitionInv'
      <3>1. pc[t] \notin TransitionLabels
        BY DEF ReadStep
      <3>2. /\ pc'[t] \notin TransitionLabels
            /\ \A u \in Tasks : u # t =>
                 pc'[u] = pc[u] /\ expected'[u] = expected[u]
        BY <2>1, <2>2, <2>6, ContinueEffect
      <3>3. QED BY <1>2, <3>1, <3>2 DEF TransitionInv, MakeControl
    <2>8. QED BY <1>4, <1>5, <2>3, <2>5, <2>7
  <1>8. QED BY <1>6, <1>7 DEF ReadStep

LEMMA LockPreserves ==
  ASSUME IInv, NEW t \in Tasks, LockStep(t)
  PROVE  IInv'
  <1> USE DEF IInv
  <1>1. PICK label \in TransitionLabels, word \in Words, value \in States :
          /\ Continue(t, label, word, value)
          /\ word.generation = control.generation
          /\ label = "line_reset" => value \in Owners
          /\ label = "release_pins" => value \in {"NONE", "SUSPENDED"}
          /\ label = "init_store" => control.generation = 0
    BY DEF LockStep
  <1>2. label \in Labels
    BY DEF Labels
  <1>3. /\ control' = MakeControl(control.generation, "TRANSITION")
        /\ control' \in Words
    BY WordType DEF LockStep, TypeOK, Words, States
  <1>4. TypeOK'
    BY <1>1, <1>2, <1>3, ContinueEffect DEF TypeOK, LockStep
  <1>5. LocalsInv'
    BY <1>1, <1>2, <1>3, ContinueEffect
    DEF LocalsInv, CasLabels, TransitionLabels, LockStep, MakeControl
  <1>6. TransitionInv'
    <2>1. \A u \in Tasks : pc[u] \notin TransitionLabels
      BY DEF LockStep, TransitionInv, Owners
    <2>2. /\ pc'[t] = label /\ expected'[t] = word
          /\ \A u \in Tasks : u # t => pc'[u] = pc[u]
      BY <1>1, <1>2, ContinueEffect
    <2>3. QED BY <1>1, <1>3, <2>1, <2>2 DEF TransitionInv, MakeControl
  <1>7. OperationInv'
    BY <1>3 DEF OperationInv, LockStep, MakeControl
  <1>8. ClaimInv'
    BY <1>3 DEF ClaimInv, ClaimsAgree, LockStep, MakeControl, Owners
  <1>9. QED BY <1>4, <1>5, <1>6, <1>7, <1>8

LEMMA KeepPreserves ==
  ASSUME IInv, NEW t \in Tasks, KeepStep(t)
  PROVE  IInv'
  <1> USE DEF IInv
  <1>1. /\ Continue(t, "release_pins", expected[t], "NONE")
        /\ "release_pins" \in Labels /\ expected[t] \in Words
        /\ "NONE" \in States
    BY DEF KeepStep, Labels, TransitionLabels, TypeOK, States
  <1>2. TypeOK'
    BY <1>1, ContinueEffect DEF TypeOK, KeepStep
  <1>3. LocalsInv'
    BY <1>1, ContinueEffect DEF LocalsInv, CasLabels, KeepStep
  <1>4. TransitionInv'
    <2>1. /\ pc[t] \in TransitionLabels
          /\ control' = control
      BY DEF KeepStep, TransitionLabels
    <2>2. /\ pc'[t] = "release_pins" /\ expected'[t] = expected[t]
          /\ \A u \in Tasks : u # t => pc'[u] = pc[u] /\ expected'[u] = expected[u]
      BY <1>1, ContinueEffect
    <2>3. QED BY <2>1, <2>2 DEF TransitionInv, MakeControl, TransitionLabels
  <1>5. OperationInv' /\ ClaimInv'
    BY DEF OperationInv, ClaimInv, ClaimsAgree, KeepStep
  <1>6. QED BY <1>2, <1>3, <1>4, <1>5

LEMMA StorePreserves ==
  ASSUME IInv, NEW t \in Tasks, StoreStep(t)
  PROVE  IInv'
  <1> USE DEF IInv
  <1>1. PICK state \in {"NONE", "SUSPENDED", "OFFLINE"} :
          control' = MakeControl(control.generation, state)
    BY DEF StoreStep
  <1>2. PICK r \in Results : Return(t, r)
    BY DEF StoreStep
  <1>3. control' \in Words
    BY <1>1, WordType DEF TypeOK, Words, States
  <1>4. ~control.active
    BY DEF StoreStep, TransitionInv, MakeControl
  <1>5. TypeOK'
    BY <1>2, <1>3, ReturnEffect DEF TypeOK, StoreStep
  <1>6. LocalsInv'
    BY <1>1, <1>2, ReturnEffect
    DEF LocalsInv, CasLabels, StoreStep, MakeControl
  <1>7. \A u \in Tasks : pc'[u] \notin TransitionLabels
    BY <1>2, ReturnEffect
    DEF StoreStep, TransitionInv, TransitionLabels
  <1>8. TransitionInv'
    BY <1>1, <1>7 DEF TransitionInv, MakeControl
  <1>9. OperationInv'
    BY <1>1, <1>4 DEF OperationInv, StoreStep, MakeControl
  <1>10. ClaimInv'
    BY <1>1 DEF ClaimInv, ClaimsAgree, StoreStep, MakeControl, Owners
  <1>11. QED BY <1>5, <1>6, <1>8, <1>9, <1>10

LEMMA GrantPreserves ==
  ASSUME IInv, NEW t \in Tasks, GrantStep(t)
  PROVE  IInv'
  <1> USE DEF IInv
  <1>1. PICK owner \in Owners :
          /\ control' = MakeControl(control.generation + 1, owner)
          /\ claim' = [claim EXCEPT ![t] =
               [owner |-> owner, generation |-> control.generation + 1]]
    BY DEF GrantStep
  <1>2. PICK r \in Results : Return(t, r)
    BY DEF GrantStep
  <1>3. /\ control.generation \in Nat
        /\ control.generation + 1 \in Generations
        /\ control' \in Words
    BY <1>1, WordType, GenerationAssumption
    DEF GrantStep, TypeOK, Words, States, Generations
  <1>4. ~control.active
    BY DEF GrantStep, TransitionInv, TransitionLabels, MakeControl
  <1>5. claim' \in [Tasks -> [owner : Owners \cup {"NONE"},
                              generation : Generations]]
    BY <1>1, <1>3 DEF TypeOK
  <1>6. TypeOK'
    BY <1>2, <1>3, <1>5, ReturnEffect DEF TypeOK, GrantStep
  <1>7. LocalsInv'
    <2>1. \A u \in Tasks : u # t /\ pc[u] \in CasLabels =>
            expected[u].generation < control.generation + 1
      BY <1>3 DEF LocalsInv, TypeOK, Words, Generations
    <2>2. control'.generation = control.generation + 1
      BY <1>1 DEF MakeControl
    <2>3. \A u \in Tasks : expected[u].generation \in Nat
      BY DEF TypeOK, Words, Generations
    <2>4. QED
      BY <1>2, <1>3, <2>1, <2>2, <2>3, ReturnEffect DEF LocalsInv, CasLabels
  <1>8. \A u \in Tasks : pc'[u] \notin TransitionLabels
    BY <1>2, ReturnEffect DEF GrantStep, TransitionInv, TransitionLabels
  <1>9. TransitionInv'
    BY <1>1, <1>8 DEF TransitionInv, MakeControl, Owners
  <1>10. OperationInv'
    BY <1>1, <1>4 DEF OperationInv, GrantStep, MakeControl
  <1>11. ClaimInv'
    <2>1. \A u \in Tasks : u # t => claim'[u] = claim[u]
      BY <1>1 DEF TypeOK
    <2>2. claim'[t] = [owner |-> owner, generation |-> control.generation + 1]
      BY <1>1 DEF TypeOK
    <2>3. \A u \in Tasks : u # t => claim[u].generation < control.generation + 1
      BY <1>3 DEF ClaimInv, TypeOK, Generations
    <2>4. \A u \in Tasks : claim[u].generation \in Nat
      BY DEF TypeOK, Generations
    <2>5. QED
      BY <1>1, <1>3, <2>1, <2>2, <2>3, <2>4
      DEF ClaimInv, ClaimsAgree, MakeControl, Owners
  <1>12. QED BY <1>6, <1>7, <1>9, <1>10, <1>11

LEMMA BeginPreserves ==
  ASSUME IInv, NEW t \in Tasks, BeginStep(t)
  PROVE  IInv'
  <1> USE DEF IInv
  <1>1. PICK r \in Results : Return(t, r)
    BY DEF BeginStep
  <1>2. control' = WithActive(control) /\ control' \in Words
    BY ActiveType DEF BeginStep, TypeOK
  <1>3. operation' \in [Tasks -> [owner : Owners \cup {"NONE"},
                                  generation : Generations, active : BOOLEAN]]
    BY DEF BeginStep, TypeOK, Words
  <1>4. TypeOK'
    BY <1>1, <1>2, <1>3, ReturnEffect DEF TypeOK, BeginStep
  <1>5. LocalsInv'
    BY <1>1, <1>2, ReturnEffect
    DEF LocalsInv, CasLabels, BeginStep, WithActive
  <1>6. \A u \in Tasks : pc[u] \notin TransitionLabels
    BY DEF BeginStep, TransitionInv, Owners
  <1>7. TransitionInv'
    BY <1>1, <1>2, <1>6, ReturnEffect
    DEF TransitionInv, BeginStep, WithActive, TransitionLabels, Owners
  <1>8. OperationInv'
    <2>1. \A u \in Tasks : ~operation[u].active
      BY DEF OperationInv, BeginStep
    <2>2. \A u \in Tasks : u # t => operation'[u] = operation[u]
      BY DEF BeginStep, TypeOK
    <2>3. operation'[t] = [owner |-> control.state,
                           generation |-> control.generation, active |-> TRUE]
      BY DEF BeginStep, TypeOK
    <2>4. OperationWord(operation'[t]) = control'
      BY <1>2, <2>3 DEF OperationWord, MakeControl, WithActive
    <2>5. QED
      BY <1>2, <2>1, <2>2, <2>3, <2>4 DEF OperationInv, WithActive
  <1>9. ClaimInv'
    BY <1>2
    DEF ClaimInv, ClaimsAgree, BeginStep, WithActive, MakeControl, Blank, Owners
  <1>10. QED BY <1>4, <1>5, <1>7, <1>8, <1>9

LEMMA EndPreserves ==
  ASSUME IInv, NEW t \in Tasks, EndStep(t)
  PROVE  IInv'
  <1> USE DEF IInv
  <1>1. /\ control' = MakeControl(control.generation, control.state)
        /\ control' \in Words
    BY WordType DEF EndStep, TypeOK, Words
  <1>2. operation' \in [Tasks -> [owner : Owners \cup {"NONE"},
                                  generation : Generations, active : BOOLEAN]]
    BY GenerationAssumption DEF EndStep, TypeOK, NoOperation, Generations
  <1>3. TypeOK'
    BY <1>1, <1>2 DEF TypeOK, EndStep
  <1>4. LocalsInv'
    BY <1>1 DEF LocalsInv, EndStep, MakeControl
  <1>5. control.active /\ \A u \in Tasks : pc[u] \notin TransitionLabels
    BY DEF EndStep, OperationInv, TransitionInv, MakeControl
  <1>6. TransitionInv'
    BY <1>1, <1>5 DEF TransitionInv, EndStep, MakeControl
  <1>7. \A u \in Tasks : ~operation'[u].active
    BY DEF EndStep, OperationInv, NoOperation, TypeOK
  <1>8. OperationInv'
    BY <1>1, <1>7 DEF OperationInv, MakeControl
  <1>9. ClaimInv'
    BY <1>1, <1>5
    DEF ClaimInv, ClaimsAgree, EndStep, MakeControl, Blank, Owners
  <1>10. QED BY <1>3, <1>4, <1>6, <1>8, <1>9

-----------------------------------------------------------------------------
(* Each action is of one kind *)

LEMMA InitializeStep ==
  ASSUME IInv, NEW t \in Tasks, Initialize(t)
  PROVE  Step(t)
  <1>1. CASE control = Blank
    <2>1. /\ Continue(t, "init_store", MakeControl(0, "TRANSITION"), "NONE")
          /\ control' = MakeControl(0, "TRANSITION")
          /\ UNCHANGED <<claim, operation, regranted>>
      BY <1>1 DEF Initialize
    <2>2. /\ control.generation = 0 /\ ~control.active
          /\ control.state = "UNINITIALIZED"
      BY <1>1 DEF Blank, MakeControl
    <2>3. /\ MakeControl(0, "TRANSITION") \in Words
          /\ MakeControl(0, "TRANSITION").generation = 0
      BY WordType, GenerationAssumption DEF States, Generations, MakeControl
    <2>4. pc[t] \notin TransitionLabels /\ pc[t] \notin CasLabels
      BY DEF Initialize, TransitionLabels, CasLabels
    <2>5. "init_store" \in TransitionLabels /\ "NONE" \in States
      BY DEF TransitionLabels, States
    <2>6. QED BY <2>1, <2>2, <2>3, <2>4, <2>5 DEF Step, LockStep
  <1>2. CASE control # Blank
    BY <1>2 DEF Initialize, Step, ReadStep, TransitionLabels, Results
  <1>3. QED BY <1>1, <1>2

LEMMA InitStoreStep ==
  ASSUME IInv, NEW t \in Tasks, InitStore(t)
  PROVE  Step(t)
  <1>1. control.generation = 0
    BY DEF InitStore, IInv, TransitionInv, LocalsInv, TransitionLabels, MakeControl
  <1>2. QED
    BY <1>1 DEF InitStore, Step, StoreStep, TransitionLabels, Results

LEMMA AcquireLoadStep ==
  ASSUME IInv, NEW t \in Tasks, NEW owner \in Owners, AcquireLoad(t, owner)
  PROVE  Step(t)
  <1> USE DEF AcquireLoad, Step, ReadStep, Fresh
  <1>1. pc[t] \notin TransitionLabels
    BY DEF TransitionLabels
  <1>2. CASE control.state = owner /\ Return(t, "ALREADY_OWNER")
    BY <1>1, <1>2 DEF Results, Owners
  <1>3. CASE Continue(t, "acquire_cas", control, owner)
    <2>1. Loaded("acquire_cas", owner)
      BY <1>3 DEF Loaded, CasLabels, States, Continue, Return, IInv, TypeOK, Owners
    <2>2. QED BY <1>1, <1>3, <2>1
  <1>4. CASE Return(t, Refusal(control, "BUSY"))
    <2>1. Refusal(control, "BUSY") \in Results
      BY RefusalType DEF Results
    <2>2. QED BY <1>1, <1>4, <2>1
  <1>5. QED BY <1>2, <1>3, <1>4

LEMMA AcquireCasStep ==
  ASSUME IInv, NEW t \in Tasks, AcquireCas(t)
  PROVE  Step(t)
  <1> USE DEF AcquireCas, Step
  <1>1. /\ pc[t] \notin TransitionLabels
        /\ expected[t].state = "NONE" /\ ~expected[t].active
        /\ arg[t] \in Owners /\ arg[t] \in States /\ expected[t] \in Words
    BY DEF TransitionLabels, IInv, LocalsInv, CasLabels, TypeOK
  <1>2. CASE control = expected[t]
    BY <1>1, <1>2 DEF LockStep, TransitionLabels
  <1>3. CASE control # expected[t] /\ control.state = arg[t]
    BY <1>1, <1>3 DEF ReadStep, Results
  <1>4. CASE control # expected[t] /\ control.state # arg[t]
    <2>1. Refusal(control, "BUSY") \in Results
      BY RefusalType DEF Results
    <2>2. QED BY <1>1, <1>4, <2>1 DEF ReadStep
  <1>5. QED BY <1>2, <1>3, <1>4

LEMMA LineResetStep ==
  ASSUME IInv, NEW t \in Tasks, LineReset(t)
  PROVE  Step(t)
  <1> USE DEF LineReset, Step
  <1>1. /\ pc[t] \in TransitionLabels
        /\ control.generation = expected[t].generation
        /\ arg[t] \in Owners
        /\ control.generation \in Generations
    BY DEF TransitionLabels, IInv, LocalsInv, TransitionInv, MakeControl,
           TypeOK, Words
  <1>2. CASE expected[t].generation = MaxGeneration
    BY <1>1, <1>2 DEF StoreStep, Results
  <1>3. CASE /\ expected[t].generation # MaxGeneration
             /\ Continue(t, "release_pins", expected[t], "NONE")
             /\ UNCHANGED <<control, claim, regranted>>
    BY <1>1, <1>3 DEF KeepStep
  <1>4. CASE /\ expected[t].generation # MaxGeneration
             /\ control' = MakeControl(expected[t].generation + 1, arg[t])
             /\ claim' = [claim EXCEPT ![t] =
                  [owner |-> arg[t], generation |-> expected[t].generation + 1]]
             /\ regranted' = {u \in Tasks : pc[u] \in CasLabels}
             /\ Return(t, "OK")
    <2>1. control.generation + 1 \in Generations
      BY <1>1, <1>4, GenerationAssumption DEF Generations
    <2>2. QED BY <1>1, <1>4, <2>1 DEF GrantStep, Results
  <1>5. QED BY <1>2, <1>3, <1>4

LEMMA ReleasePinsStep ==
  ASSUME IInv, NEW t \in Tasks, ReleasePins(t)
  PROVE  Step(t)
  <1>1. /\ pc[t] \in TransitionLabels
        /\ control.generation = expected[t].generation
        /\ arg[t] \in {"NONE", "SUSPENDED"}
    BY DEF ReleasePins, TransitionLabels, IInv, LocalsInv, TransitionInv, MakeControl
  <1>2. QED BY <1>1 DEF ReleasePins, Step, StoreStep, Results

LEMMA ReleaseStep ==
  ASSUME IInv, NEW t \in Tasks, Release(t)
  PROVE  Step(t)
  <1> USE DEF Release, Step
  <1>1. pc[t] \notin TransitionLabels
    BY DEF TransitionLabels
  <1>2. CASE /\ ValidClaim(claim[t]) /\ control = ClaimWord(claim[t])
    BY <1>1, <1>2
    DEF LockStep, ClaimWord, MakeControl, TransitionLabels, CasLabels, States,
        Owners, ValidClaim, IsOwner, IInv, TypeOK
  <1>3. CASE ~ValidClaim(claim[t])
    BY <1>1, <1>3 DEF ReadStep, Results
  <1>4. CASE ValidClaim(claim[t]) /\ control # ClaimWord(claim[t])
    <2>1. ClaimFailureResult(control, claim[t]) \in Results
      BY ClaimFailureType
    <2>2. QED BY <1>1, <1>4, <2>1 DEF ReadStep
  <1>5. QED BY <1>2, <1>3, <1>4

LEMMA OperationBeginStep ==
  ASSUME IInv, NEW t \in Tasks, OperationBegin(t)
  PROVE  Step(t)
  <1> USE DEF OperationBegin, Step
  <1>1. pc[t] \notin TransitionLabels
    BY DEF TransitionLabels
  <1>2. CASE /\ ValidClaim(claim[t]) /\ ~operation[t].active
             /\ control = ClaimWord(claim[t])
    BY <1>1, <1>2
    DEF BeginStep, ClaimWord, MakeControl, ValidClaim, IsOwner, Results
  <1>3. CASE ~ValidClaim(claim[t]) \/ operation[t].active
    BY <1>1, <1>3 DEF ReadStep, Results
  <1>4. CASE /\ ValidClaim(claim[t]) /\ ~operation[t].active
             /\ control # ClaimWord(claim[t])
    <2>1. ClaimFailureResult(control, claim[t]) \in Results
      BY ClaimFailureType
    <2>2. QED BY <1>1, <1>4, <2>1 DEF ReadStep
  <1>5. QED BY <1>2, <1>3, <1>4

LEMMA ControlLoadStep ==
  ASSUME IInv, NEW t \in Tasks, NEW owner \in Owners, ControlLoad(t, owner)
  PROVE  Step(t)
  <1> USE DEF ControlLoad, Step, ReadStep, Fresh
  <1>1. pc[t] \notin TransitionLabels
    BY DEF TransitionLabels
  <1>2. CASE operation[t].active
    BY <1>1, <1>2 DEF Results
  <1>3. CASE /\ ~operation[t].active /\ control.state \in {"NONE", owner}
             /\ ~control.active
    BY <1>1, <1>3 DEF Loaded, CasLabels, States
  <1>4. CASE /\ ~operation[t].active
             /\ control.state \in {"NONE", owner} => control.active
    <2>1. Refusal(control, "BUSY") \in Results
      BY RefusalType DEF Results
    <2>2. QED BY <1>1, <1>4, <2>1
  <1>5. QED BY <1>2, <1>3, <1>4

LEMMA ControlCasStep ==
  ASSUME IInv, NEW t \in Tasks, ControlCas(t)
  PROVE  Step(t)
  <1>1. /\ pc[t] \notin TransitionLabels /\ ~expected[t].active
        /\ expected[t].state \in Owners \cup {"NONE"}
    BY DEF ControlCas, TransitionLabels, IInv, LocalsInv, CasLabels
  <1>2. CASE control = expected[t]
    BY <1>1, <1>2 DEF ControlCas, Step, BeginStep, Results
  <1>3. CASE control # expected[t]
    BY <1>1, <1>3 DEF ControlCas, Step, ReadStep, Results
  <1>4. QED BY <1>2, <1>3

LEMMA OperationEndStep ==
  ASSUME IInv, NEW t \in Tasks, OperationEnd(t)
  PROVE  Step(t)
  BY DEF OperationEnd, Step, EndStep, IInv, OperationInv

LEMMA RevokeLoadStep ==
  ASSUME IInv, NEW t \in Tasks, RevokeLoad(t)
  PROVE  Step(t)
  <1> USE DEF RevokeLoad, Step, ReadStep, Fresh
  <1>1. pc[t] \notin TransitionLabels /\ Refusal(control, "BUSY") \in Results
    BY RefusalType DEF TransitionLabels, Results
  <1>2. CASE Continue(t, "revoke_cas", control, "NONE") /\ control.state \in Owners /\ ~control.active
    BY <1>1, <1>2 DEF Loaded, CasLabels, States
  <1>3. CASE Return(t, "OK") \/ Return(t, Refusal(control, "BUSY"))
    BY <1>1, <1>3 DEF Results
  <1>4. QED BY <1>2, <1>3 DEF IsOwner

LEMMA RevokeOwnerLoadStep ==
  ASSUME IInv, NEW t \in Tasks, NEW owner \in Owners, RevokeOwnerLoad(t, owner)
  PROVE  Step(t)
  <1> USE DEF RevokeOwnerLoad, Step, ReadStep, Fresh
  <1>1. pc[t] \notin TransitionLabels /\ Refusal(control, "NOT_OWNER") \in Results
    BY RefusalType DEF TransitionLabels, Results
  <1>2. CASE Continue(t, "revoke_owner_cas", control, owner) /\ control.state = owner /\ ~control.active
    BY <1>1, <1>2 DEF Loaded, CasLabels, States
  <1>3. CASE \E r \in {"BUSY", Refusal(control, "NOT_OWNER")} : Return(t, r)
    BY <1>1, <1>3 DEF Results
  <1>4. QED BY <1>2, <1>3

\* The exchange of revoke and revoke_owner.
LEMMA RevokeCasStep ==
  ASSUME IInv, NEW t \in Tasks, RevokeCas(t) \/ RevokeOwnerCas(t)
  PROVE  Step(t)
  <1>1. /\ pc[t] \notin TransitionLabels /\ ~expected[t].active
        /\ expected[t].state \in Owners /\ expected[t] \in Words
    BY DEF RevokeCas, RevokeOwnerCas, TransitionLabels, IInv, LocalsInv,
           CasLabels, TypeOK
  <1>2. Refusal(control, "BUSY") \in Results /\ Refusal(control, "NOT_OWNER") \in Results
    BY RefusalType DEF Results
  <1>3. CASE control = expected[t]
    BY <1>1, <1>3
    DEF RevokeCas, RevokeOwnerCas, Step, LockStep, TransitionLabels, States, Owners
  <1>4. CASE control # expected[t]
    <2>1. \E r \in Results : Return(t, r)
      BY <1>2, <1>4 DEF RevokeCas, RevokeOwnerCas, Results
    <2>2. QED
      BY <1>1, <1>4, <2>1 DEF RevokeCas, RevokeOwnerCas, Step, ReadStep
  <1>5. QED BY <1>3, <1>4

\* What suspend and resume decide from the word they loaded.
LEMMA DecideStep ==
  ASSUME IInv, NEW t \in Tasks, pc[t] \notin TransitionLabels,
         SuspendDecide(t) \/ ResumeDecide(t)
  PROVE  Step(t)
  <1> USE DEF Step, ReadStep, Fresh
  <1>1. Refusal(control, "BUSY") \in Results
    BY RefusalType DEF Results
  <1>2. CASE SuspendDecide(t) /\ Continue(t, "suspend_cas", control, "SUSPENDED")
             /\ control.state \in Owners \cup {"NONE"} /\ ~control.active
    BY <1>2 DEF SuspendDecide, Loaded, CasLabels, States
  <1>3. CASE ResumeDecide(t) /\ Continue(t, "resume_cas", control, "NONE")
             /\ control.state = "SUSPENDED"
    <2>1. \A u \in Tasks : operation[u].owner # "SUSPENDED"
      BY DEF IInv, TypeOK, Owners
    <2>2. \A u \in Tasks : operation[u].active =>
            control.state = operation[u].owner
      BY DEF IInv, OperationInv, OperationWord, MakeControl, WithActive
    <2>3. ~control.active
      BY <1>3, <2>1, <2>2 DEF IInv, OperationInv
    <2>4. QED BY <1>3, <2>3 DEF ResumeDecide, Loaded, CasLabels, States
  <1>4. CASE /\ Return(t, "OK") \/ Return(t, Refusal(control, "BUSY"))
             /\ SuspendDecide(t) \/ ResumeDecide(t)
    BY <1>1, <1>4 DEF SuspendDecide, ResumeDecide, Results
  <1>5. QED BY <1>2, <1>3, <1>4 DEF SuspendDecide, ResumeDecide

LEMMA SuspendCasStep ==
  ASSUME IInv, NEW t \in Tasks, SuspendCas(t)
  PROVE  Step(t)
  <1>1. /\ pc[t] \notin TransitionLabels /\ ~expected[t].active
        /\ expected[t] \in Words
    BY DEF SuspendCas, TransitionLabels, IInv, LocalsInv, CasLabels, TypeOK
  <1>2. CASE control = expected[t] /\ control.state = "NONE"
    BY <1>1, <1>2 DEF SuspendCas, Step, StoreStep, Results, IsOwner, Owners
  <1>3. CASE control = expected[t] /\ IsOwner(control.state)
    BY <1>1, <1>3
    DEF SuspendCas, Step, LockStep, TransitionLabels, States, Owners, IsOwner
  <1>4. CASE control # expected[t]
    BY <1>1, <1>4, DecideStep DEF SuspendCas
  <1>5. QED BY <1>2, <1>3, <1>4 DEF SuspendCas

LEMMA ResumeCasStep ==
  ASSUME IInv, NEW t \in Tasks, ResumeCas(t)
  PROVE  Step(t)
  <1>1. /\ pc[t] \notin TransitionLabels /\ ~expected[t].active
        /\ expected[t].state = "SUSPENDED"
    BY DEF ResumeCas, TransitionLabels, IInv, LocalsInv, CasLabels
  <1>2. CASE control = expected[t]
    BY <1>1, <1>2 DEF ResumeCas, Step, StoreStep, Results
  <1>3. CASE control # expected[t]
    BY <1>1, <1>3, DecideStep DEF ResumeCas
  <1>4. QED BY <1>2, <1>3

\* Every step of the arbiter is of one of the seven kinds.
LEMMA NextIsStep ==
  ASSUME IInv, Next
  PROVE  \E t \in Tasks : Step(t)
  <1>1. PICK t \in Tasks : Call(t) \/ InCall(t)
    BY DEF Next
  <1>2. CASE Call(t)
    <2>1. CASE \E owner \in Owners : AcquireLoad(t, owner)
               \/ ControlLoad(t, owner) \/ RevokeOwnerLoad(t, owner)
      BY <2>1, AcquireLoadStep, ControlLoadStep, RevokeOwnerLoadStep
    <2>2. CASE SuspendLoad(t) \/ ResumeLoad(t)
      BY <2>2, DecideStep DEF SuspendLoad, ResumeLoad, TransitionLabels
    <2>3. CASE Initialize(t) \/ Release(t) \/ OperationBegin(t)
               \/ OperationEnd(t) \/ RevokeLoad(t)
      BY <2>3, InitializeStep, ReleaseStep, OperationBeginStep,
         OperationEndStep, RevokeLoadStep
    <2>4. QED BY <1>2, <2>1, <2>2, <2>3 DEF Call
  <1>3. CASE InCall(t)
    BY <1>3, InitStoreStep, AcquireCasStep, LineResetStep, ReleasePinsStep,
       ControlCasStep, RevokeCasStep, SuspendCasStep, ResumeCasStep DEF InCall
  <1>4. QED BY <1>1, <1>2, <1>3

-----------------------------------------------------------------------------
(* The invariant and what follows from it *)

LEMMA InitIInv ==
  ASSUME Init
  PROVE  IInv
  BY GenerationAssumption
  DEF Init, IInv, TypeOK, LocalsInv, TransitionInv, OperationInv, ClaimInv,
      ClaimsAgree, Blank, MakeControl, NoClaim, NoOperation, Words, States,
      Owners, Generations, Labels, CasLabels, TransitionLabels, Results

LEMMA NextIInv ==
  ASSUME IInv, [Next]_vars
  PROVE  IInv'
  <1>1. CASE UNCHANGED vars
    BY <1>1
    DEF vars, IInv, TypeOK, LocalsInv, TransitionInv, OperationInv, ClaimInv,
        ClaimsAgree
  <1>2. CASE Next
    BY <1>2, NextIsStep, ReadPreserves, LockPreserves, KeepPreserves,
       StorePreserves, GrantPreserves, BeginPreserves, EndPreserves DEF Step
  <1>3. QED BY <1>1, <1>2

\* The conjunction of the type invariant, the two lock disciplines (TRANSITION
\* and ACTIVE) and what claims and loaded words know of the control word is
\* kept by every atomic step of dap_ownership.c.
THEOREM InvariantHolds == Spec => []IInv
  BY InitIInv, NextIInv, PTL DEF Spec

\* The control word and all caller structures stay well typed; in particular
\* the 28-bit generation never passes its limit.
THEOREM TypeCorrect == Spec => []TypeOK
  BY InvariantHolds, PTL DEF IInv

LEMMA ExclusiveFromIInv ==
  ASSUME IInv
  PROVE  PinsExclusive
  <1>1. \A t \in Tasks : pc[t] \in {"line_reset", "release_pins"} =>
          control.state = "TRANSITION" /\ ~control.active
    BY DEF IInv, TransitionInv, TransitionLabels, MakeControl
  <1>2. \A t \in Tasks : operation[t].active => control.active
    BY DEF IInv, OperationInv
  <1>3. QED
    BY <1>1, <1>2
    DEF PinsExclusive, Drives, IInv, TransitionInv, OperationInv,
        TransitionLabels

\* SWCLK, SWDIO and nRESET are driven by one task at a time, whatever the
\* number of tasks and however their calls interleave.
THEOREM PinsAreExclusive == Spec => []PinsExclusive
  BY InvariantHolds, ExclusiveFromIInv, PTL

LEMMA NoOrphanFromIInv ==
  ASSUME IInv
  PROVE  NoOrphanedReservation
  BY DEF NoOrphanedReservation, IInv, TransitionInv, OperationInv

\* No call leaves TRANSITION or the ACTIVE bit behind.
THEOREM NothingIsOrphaned == Spec => []NoOrphanedReservation
  BY InvariantHolds, NoOrphanFromIInv, PTL

\* A generation names one grant, so a stale claim never passes for a new one.
THEOREM GenerationsNameGrants == Spec => []ClaimsAgree
  BY InvariantHolds, PTL DEF IInv, ClaimInv

-----------------------------------------------------------------------------
(* Action properties *)

LEMMA StepHoldsOwnership ==
  ASSUME IInv, [Next]_vars, NEW t \in Tasks,
         operation[t].active, operation'[t].active
  PROVE  control' = control
  <1>1. control.active /\ \A u \in Tasks : pc[u] \notin TransitionLabels
    BY DEF IInv, OperationInv, TransitionInv, MakeControl
  <1>2. CASE UNCHANGED vars
    BY <1>2 DEF vars
  <1>3. CASE Next
    <2>1. PICK u \in Tasks : Step(u)
      BY <1>3, NextIsStep
    <2>2. CASE ReadStep(u)
      BY <2>2 DEF ReadStep
    <2>3. CASE LockStep(u) \/ BeginStep(u) \/ StoreStep(u)
      BY <1>1, <2>3 DEF LockStep, BeginStep, StoreStep
    <2>4. CASE KeepStep(u) \/ GrantStep(u)
      BY <1>1, <2>4 DEF KeepStep, GrantStep, TransitionLabels
    <2>5. CASE EndStep(u)
      BY <2>5 DEF EndStep, IInv, OperationInv, TypeOK, NoOperation
    <2>6. QED BY <2>1, <2>2, <2>3, <2>4, <2>5 DEF Step
  <1>4. QED BY <1>2, <1>3

\* While a task is between operation_begin (or control_begin) and
\* operation_end, no call of any other task changes the control word.
THEOREM OperationsHoldOwnership == Spec => OperationHoldsOwnership
  <1>1. IInv /\ [Next]_vars =>
          [\A t \in Tasks :
             operation[t].active /\ operation'[t].active => control' = control]_vars
    BY StepHoldsOwnership
  <1>2. QED BY <1>1, InvariantHolds, PTL DEF Spec, OperationHoldsOwnership

LEMMA StepRevokesSeen ==
  ASSUME IInv, [Next]_vars, NEW t \in Tasks,
         pc[t] \in {"revoke_cas", "revoke_owner_cas"}, pc'[t] = "release_pins"
  PROVE  t \notin regranted
  <1>1. /\ pc[t] \in CasLabels /\ pc[t] \notin TransitionLabels
        /\ pc'[t] # pc[t] /\ pc'[t] # "idle" /\ pc'[t] \notin CasLabels
    BY DEF CasLabels, TransitionLabels
  <1>2. CASE UNCHANGED vars
    BY <1>1, <1>2 DEF vars
  <1>3. CASE Next
    <2>1. PICK u \in Tasks : Step(u)
      BY <1>3, NextIsStep
    <2>2. CASE EndStep(u)
      BY <1>1, <2>2 DEF EndStep
    <2>3. CASE \E r \in Results : Return(u, r)
      BY <1>1, <2>3, ReturnEffect DEF IInv
    <2>4. CASE ReadStep(u) /\ ~\E r \in Results : Return(u, r)
      <3>1. PICK label, value :
              Loaded(label, value) /\ Continue(u, label, control, value)
        BY <2>4 DEF ReadStep
      <3>2. pc' = [pc EXCEPT ![u] = label] /\ label \in CasLabels
        BY <3>1 DEF Continue, Loaded
      <3>3. QED BY <1>1, <3>2 DEF IInv, TypeOK
    <2>5. CASE KeepStep(u)
      <3>1. u # t
        BY <1>1, <2>5 DEF KeepStep, TransitionLabels
      <3>2. QED BY <1>1, <2>5, <3>1 DEF KeepStep, Continue, IInv, TypeOK
    <2>6. CASE LockStep(u)
      <3>1. u = t
        BY <1>1, <2>6 DEF LockStep, Continue, IInv, TypeOK
      <3>2. expected[t] = control
        BY <1>1, <2>6, <3>1 DEF LockStep
      <3>3. control.generation \in Nat
        BY DEF IInv, TypeOK, Words, Generations
      <3>4. QED BY <1>1, <3>2, <3>3 DEF IInv, LocalsInv
    <2>7. QED
      BY <2>1, <2>2, <2>3, <2>4, <2>5, <2>6
      DEF Step, StoreStep, GrantStep, BeginStep
  <1>4. QED BY <1>2, <1>3

\* A revoke that goes on to release the pins releases the grant it loaded,
\* never one made since.
THEOREM RevokesAreExact == Spec => RevokesOnlyWhatItSaw
  <1>1. IInv /\ [Next]_vars =>
          [\A t \in Tasks :
             /\ pc[t] \in {"revoke_cas", "revoke_owner_cas"}
             /\ pc'[t] = "release_pins"
             => t \notin regranted]_vars
    BY StepRevokesSeen
  <1>2. QED BY <1>1, InvariantHolds, PTL DEF Spec, RevokesOnlyWhatItSaw

LEMMA StepLeavesSuspended ==
  ASSUME IInv, [Next]_vars,
         control.state = "SUSPENDED", control'.state # "SUSPENDED"
  PROVE  \E t \in Tasks : pc[t] = "resume_cas" /\ pc'[t] = "idle"
  <1>1. \A u \in Tasks : pc[u] \notin TransitionLabels
    BY DEF IInv, TransitionInv
  <1>2. CASE UNCHANGED vars
    BY <1>2 DEF vars
  <1>3. CASE Next
    <2>1. PICK u \in Tasks : Step(u)
      BY <1>3, NextIsStep
    <2>2. CASE ReadStep(u) \/ KeepStep(u)
      BY <2>2 DEF ReadStep, KeepStep
    <2>3. CASE EndStep(u)
      BY <2>3 DEF EndStep, MakeControl
    <2>4. CASE LockStep(u) \/ BeginStep(u)
      BY <2>4 DEF LockStep, BeginStep, Owners
    <2>5. CASE GrantStep(u)
      BY <1>1, <2>5 DEF GrantStep, TransitionLabels
    <2>6. CASE StoreStep(u)
      BY <1>1, <2>6, ReturnEffect DEF StoreStep, IInv
    <2>7. QED BY <2>1, <2>2, <2>3, <2>4, <2>5, <2>6 DEF Step
  <1>4. QED BY <1>2, <1>3

\* Only a completed resume reopens a suspended arbiter.
THEOREM SuspensionLasts == Spec => SuspendedUntilResume
  <1>1. IInv /\ [Next]_vars =>
          [control.state = "SUSPENDED" /\ control'.state # "SUSPENDED" =>
             \E t \in Tasks : pc[t] = "resume_cas" /\ pc'[t] = "idle"]_vars
    BY StepLeavesSuspended
  <1>2. QED BY <1>1, InvariantHolds, PTL DEF Spec, SuspendedUntilResume

LEMMA StepKeepsOffline ==
  ASSUME IInv, [Next]_vars, control.state = "OFFLINE"
  PROVE  control'.state = "OFFLINE"
  <1>1. \A u \in Tasks : pc[u] \notin TransitionLabels
    BY DEF IInv, TransitionInv
  <1>2. CASE UNCHANGED vars
    BY <1>2 DEF vars
  <1>3. CASE Next
    <2>1. PICK u \in Tasks : Step(u)
      BY <1>3, NextIsStep
    <2>2. CASE ReadStep(u) \/ KeepStep(u)
      BY <2>2 DEF ReadStep, KeepStep
    <2>3. CASE EndStep(u)
      BY <2>3 DEF EndStep, MakeControl
    <2>4. CASE LockStep(u) \/ BeginStep(u) \/ StoreStep(u)
      BY <1>1, <2>4 DEF LockStep, BeginStep, StoreStep, Owners
    <2>5. CASE GrantStep(u)
      BY <1>1, <2>5 DEF GrantStep, TransitionLabels
    <2>6. QED BY <2>1, <2>2, <2>3, <2>4, <2>5 DEF Step
  <1>4. QED BY <1>2, <1>3

\* An offline port stays offline.
THEOREM OfflineIsForever == Spec => OfflineIsFinal
  <1>1. IInv /\ [Next]_vars =>
          [control.state = "OFFLINE" => control'.state = "OFFLINE"]_vars
    BY StepKeepsOffline
  <1>2. QED BY <1>1, InvariantHolds, PTL DEF Spec, OfflineIsFinal

-----------------------------------------------------------------------------
(* The arbiter implements PinArbiter *)

\* The tasks driving the pins, the refinement mapping's value for drivers.
Driving == {t \in Tasks : Drives(t)}

\* A task that starts a call phase from "no transition, no operation" finds
\* the pins idle.
LEMMA PinsIdle ==
  ASSUME IInv, ~control.active, control.state # "TRANSITION"
  PROVE  Driving = {}
  BY DEF Driving, Drives, IInv, TransitionInv, OperationInv, TransitionLabels

\* While a task holds the TRANSITION state nobody has an operation.
LEMMA LockExcludesOperations ==
  ASSUME IInv, NEW t \in Tasks, pc[t] \in TransitionLabels
  PROVE  /\ control.state = "TRANSITION"
         /\ \A u \in Tasks : ~operation[u].active
  <1>1. control.state = "TRANSITION" /\ ~control.active
    BY DEF IInv, TransitionInv, MakeControl
  <1>2. \A u \in Tasks : ~operation[u].active
    BY <1>1 DEF IInv, OperationInv
  <1>3. QED BY <1>1, <1>2

\* The holder of the lock is the only driver, and nobody owns the port.
LEMMA LockHolderDrives ==
  ASSUME IInv, NEW t \in Tasks, pc[t] \in {"line_reset", "release_pins"}
  PROVE  /\ Driving = {t} /\ CurrentOwner = "NONE"
         /\ ~operation[t].active
  <1>1. pc[t] \in TransitionLabels
    BY DEF TransitionLabels
  <1>2. /\ control.state = "TRANSITION"
        /\ \A u \in Tasks : ~operation[u].active
    BY <1>1, LockExcludesOperations
  <1>3. \A u \in Tasks : pc[u] \in {"line_reset", "release_pins"} => u = t
    BY <1>1 DEF IInv, TransitionInv, TransitionLabels
  <1>4. Driving = {t}
    BY <1>2, <1>3 DEF Driving, Drives
  <1>5. QED BY <1>2, <1>4 DEF CurrentOwner, IsOwner, Owners

LEMMA InitRefines ==
  ASSUME Init
  PROVE  Arbiter!Init
  BY DEF Init, Arbiter!Init, Drives, CurrentOwner, IsOwner, Owners, Blank,
         MakeControl, NoOperation

\* Steps that neither take nor give back the pins.
LEMMA QuietStep ==
  ASSUME IInv, IInv', Driving' = Driving, CurrentOwner' = CurrentOwner,
         control'.generation = control.generation
  PROVE  UNCHANGED Arbiter!vars
  BY DEF Arbiter!vars, Driving

LEMMA StepRefines ==
  ASSUME IInv, [Next]_vars
  PROVE  [Arbiter!Next]_(Arbiter!vars)
  <1>1. IInv'
    BY NextIInv
  <1>2. CASE UNCHANGED vars
    BY <1>2 DEF vars, Arbiter!vars, Drives, CurrentOwner
  <1>3. CASE Next
    <2>1. PICK t \in Tasks : Step(t)
      BY <1>3, NextIsStep
    <2>2. CASE ReadStep(t)
      <3>1. \A u \in Tasks : pc'[u] \in TransitionLabels <=> pc[u] \in TransitionLabels
        <4>1. \A u \in Tasks : u # t => pc'[u] = pc[u]
          BY <2>2 DEF ReadStep, Return, Continue, IInv, TypeOK
        <4>2. pc[t] \notin TransitionLabels
          BY <2>2 DEF ReadStep
        <4>3. pc'[t] = "idle" \/ pc'[t] \in CasLabels
          BY <2>2 DEF ReadStep, Return, Continue, Loaded, IInv, TypeOK
        <4>4. pc'[t] \notin TransitionLabels
          BY <4>3 DEF CasLabels, TransitionLabels
        <4>5. QED BY <4>1, <4>2, <4>4
      <3>2. \A u \in Tasks : Drives(u)' <=> Drives(u)
        <4>1. operation' = operation
          BY <2>2 DEF ReadStep
        <4>2. \A u \in Tasks : u # t => pc'[u] = pc[u]
          BY <2>2 DEF ReadStep, Return, Continue, IInv, TypeOK
        <4>3. pc[t] \notin TransitionLabels /\ pc'[t] \notin TransitionLabels
          BY <2>2, <3>1 DEF ReadStep
        <4>4. QED BY <4>1, <4>2, <4>3 DEF Drives, TransitionLabels
      <3>3. Driving' = Driving
        BY <3>2 DEF Driving
      <3>4. QED
        BY <1>1, <2>2, <3>3, QuietStep DEF ReadStep, CurrentOwner
    <2>3. CASE LockStep(t)
      <3>1. Driving = {}
        BY <2>3, PinsIdle DEF LockStep, Owners
      <3>2. CurrentOwner' = "NONE" /\ control'.generation = control.generation
        BY <2>3 DEF LockStep, CurrentOwner, IsOwner, Owners, MakeControl
      <3>3. PICK label \in TransitionLabels :
              pc' = [pc EXCEPT ![t] = label]
        BY <2>3 DEF LockStep, Continue
      <3>4. CASE label = "init_store"
        <4>1. operation' = operation /\ pc'[t] = "init_store"
              /\ \A u \in Tasks : u # t => pc'[u] = pc[u]
          BY <2>3, <3>3, <3>4 DEF LockStep, IInv, TypeOK
        <4>2. Driving' = {}
          BY <3>1, <4>1 DEF Driving, Drives
        <4>3. control'.state = "TRANSITION" /\ control'.generation = 0
          BY <1>1, <3>3, <3>4, <4>1
          DEF IInv, TransitionInv, LocalsInv, TransitionLabels, MakeControl
        <4>4. CurrentOwner = "NONE"
          <5>1. control.generation = 0
            BY <3>2, <4>3
          <5>2. QED
            BY <5>1 DEF CurrentOwner, IsOwner, IInv, ClaimInv
        <4>5. QED BY <1>1, <3>1, <3>2, <4>2, <4>4, QuietStep
      <3>5. CASE label # "init_store"
        <4>1. pc'[t] \in {"line_reset", "release_pins"}
          BY <3>3, <3>5 DEF TransitionLabels, IInv, TypeOK
        <4>2. Driving' = {t}
          <5>1. \A u \in Tasks : u # t => pc'[u] = pc[u]
            BY <3>3 DEF IInv, TypeOK
          <5>2. operation' = operation
            BY <2>3 DEF LockStep
          <5>3. QED BY <3>1, <4>1, <5>1, <5>2 DEF Driving, Drives
        <4>3. Arbiter!Enter(t)
          BY <3>1, <3>2, <4>2 DEF Arbiter!Enter, Driving
        <4>4. QED BY <4>3 DEF Arbiter!Next
      <3>6. QED BY <3>4, <3>5
    <2>4. CASE KeepStep(t)
      <3>1. /\ pc[t] = "line_reset" /\ pc' = [pc EXCEPT ![t] = "release_pins"]
            /\ operation' = operation /\ control' = control
        BY <2>4 DEF KeepStep, Continue
      <3>2. Driving' = Driving
        BY <3>1 DEF Driving, Drives, IInv, TypeOK
      <3>3. QED BY <1>1, <3>1, <3>2, QuietStep DEF CurrentOwner
    <2>5. CASE StoreStep(t)
      <3>1. /\ CurrentOwner' = "NONE" /\ control'.generation = control.generation
            /\ operation' = operation
        BY <2>5 DEF StoreStep, CurrentOwner, IsOwner, Owners, MakeControl
      <3>2. pc'[t] = "idle" /\ \A u \in Tasks : u # t => pc'[u] = pc[u]
        BY <2>5, ReturnEffect DEF StoreStep, IInv
      <3>3. CASE pc[t] \in {"line_reset", "release_pins"}
        <4>1. Driving = {t} /\ CurrentOwner = "NONE" /\ ~operation[t].active
          BY <3>3, LockHolderDrives
        <4>2. Driving' = {}
          BY <3>1, <3>2, <4>1 DEF Driving, Drives
        <4>3. Arbiter!Leave(t)
          BY <3>1, <4>1, <4>2 DEF Arbiter!Leave, Driving
        <4>4. QED BY <4>3 DEF Arbiter!Next
      <3>4. CASE pc[t] \notin {"line_reset", "release_pins"}
        <4>1. Driving' = Driving
          BY <3>1, <3>2, <3>4 DEF Driving, Drives
        <4>2. control.state \in {"TRANSITION", "NONE", "SUSPENDED"}
          BY <2>5 DEF StoreStep, IInv, TransitionInv
        <4>3. CurrentOwner = "NONE"
          BY <4>2 DEF CurrentOwner, IsOwner, Owners
        <4>4. QED BY <1>1, <3>1, <4>1, <4>3, QuietStep
      <3>5. QED BY <3>3, <3>4
    <2>6. CASE GrantStep(t)
      <3>1. Driving = {t} /\ CurrentOwner = "NONE" /\ ~operation[t].active
        BY <2>6, LockHolderDrives DEF GrantStep
      <3>2. pc'[t] = "idle" /\ \A u \in Tasks : u # t => pc'[u] = pc[u]
        BY <2>6, ReturnEffect DEF GrantStep, IInv
      <3>3. PICK owner \in Owners :
              control' = MakeControl(control.generation + 1, owner)
        BY <2>6 DEF GrantStep
      <3>4. operation' = operation
        BY <2>6 DEF GrantStep
      <3>5. Driving' = {}
        BY <3>1, <3>2, <3>4 DEF Driving, Drives
      <3>6. CurrentOwner' = owner /\ control'.generation = control.generation + 1
        BY <3>3 DEF CurrentOwner, IsOwner, MakeControl
      <3>7. Arbiter!Grant(t, owner)
        BY <3>1, <3>5, <3>6 DEF Arbiter!Grant, Driving
      <3>8. QED BY <3>7 DEF Arbiter!Next
    <2>7. CASE BeginStep(t)
      <3>1. Driving = {}
        BY <2>7, PinsIdle DEF BeginStep, Owners
      <3>2. /\ CurrentOwner' = CurrentOwner
            /\ control'.generation = control.generation
        BY <2>7 DEF BeginStep, CurrentOwner, WithActive
      <3>3. pc'[t] = "idle" /\ \A u \in Tasks : u # t => pc'[u] = pc[u]
        BY <2>7, ReturnEffect DEF BeginStep, IInv
      <3>4. /\ operation'[t].active
            /\ \A u \in Tasks : u # t => operation'[u] = operation[u]
        BY <2>7 DEF BeginStep, IInv, TypeOK
      <3>5. Driving' = {t}
        BY <3>1, <3>3, <3>4 DEF Driving, Drives
      <3>6. Arbiter!Enter(t)
        BY <3>1, <3>2, <3>5 DEF Arbiter!Enter, Driving
      <3>7. QED BY <3>6 DEF Arbiter!Next
    <2>8. CASE EndStep(t)
      <3>1. Driving = {t}
        BY <2>8, ExclusiveFromIInv DEF EndStep, Driving, Drives, PinsExclusive
      <3>2. /\ CurrentOwner' = CurrentOwner
            /\ control'.generation = control.generation
        BY <2>8 DEF EndStep, CurrentOwner, MakeControl
      <3>3. ~operation'[t].active /\ pc' = pc
            /\ \A u \in Tasks : u # t => operation'[u] = operation[u]
        BY <2>8 DEF EndStep, IInv, TypeOK, NoOperation
      <3>4. pc[t] \notin {"line_reset", "release_pins"}
        BY <2>8, LockHolderDrives DEF EndStep
      <3>5. Driving' = {}
        BY <3>1, <3>3, <3>4 DEF Driving, Drives
      <3>6. Arbiter!Leave(t)
        BY <3>1, <3>2, <3>5 DEF Arbiter!Leave, Driving
      <3>7. QED BY <3>6 DEF Arbiter!Next
    <2>9. QED
      BY <2>1, <2>2, <2>3, <2>4, <2>5, <2>6, <2>7, <2>8 DEF Step
  <1>4. QED BY <1>2, <1>3

\* The lock-free arbiter implements the abstract one: pins change hands one
\* task at a time, and ownership is granted only out of an exclusive phase.
THEOREM Refinement == Spec => ImplementsPinArbiter
  BY InitRefines, StepRefines, InvariantHolds, PTL
  DEF Spec, ImplementsPinArbiter, Arbiter!Spec

=============================================================================
