--------------------------- MODULE CustomerStore ---------------------------
(***************************************************************************)
(* customer-store.ts: who a sender is.  resolve answers from memory at     *)
(* once and resolves against the database behind its back; when that comes *)
(* back, memory takes the database's customer.  A customer is named by the *)
(* call that drew its random id, and where that call drew it.              *)
(***************************************************************************)
EXTENDS Naturals, FiniteSets

CONSTANTS Senders, Resolves, Nobody, MaxRejections

VARIABLES
  running,    \* is the process up?
  database,   \* isInitialized()
  memory,     \* memIdentities: sender -> customer
  identity,   \* the database: sender -> customer
  resolving,  \* resolving[r]: [pc, sender] of a call to resolveDB
  rejections

customerVars == <<running, database, memory, identity, resolving, rejections>>

CustomerInit ==
  /\ running = TRUE /\ database \in BOOLEAN
  /\ memory = [s \in Senders |-> Nobody] /\ identity = memory
  /\ resolving = [r \in Resolves |-> [pc |-> "free", sender |-> Nobody]]
  /\ rejections = 0

Drawn(r, where) == [call |-> r, where |-> where]

ResolvingAt(r, pc) == running /\ resolving[r].pc = pc
Becomes(r, pc) == resolving' = [resolving EXCEPT ![r].pc = pc]

resolveInMemory(r, s) ==
  memory' = [memory EXCEPT ![s] = IF @ = Nobody THEN Drawn(r, "memory") ELSE @]

Start(r, s) ==
  /\ ResolvingAt(r, "free")
  /\ resolving' = [resolving EXCEPT ![r] =
       [pc |-> IF database THEN "find" ELSE "done", sender |-> s]]
  /\ UNCHANGED <<running, database, identity, rejections>>

resolve(r, s) == Start(r, s) /\ resolveInMemory(r, s)

resolveAsync(r, s) ==
  /\ Start(r, s)
  /\ IF database THEN UNCHANGED memory ELSE resolveInMemory(r, s)

FindIdentity(r) ==
  /\ ResolvingAt(r, "find")
  /\ Becomes(r, IF identity[resolving[r].sender] = Nobody THEN "create" ELSE "update")
  /\ UNCHANGED <<running, database, memory, identity, rejections>>

\* The row that was found is counted up and returned, and memory takes it.
UpdateCustomer(r) ==
  /\ ResolvingAt(r, "update")
  /\ LET s == resolving[r].sender IN memory' = [memory EXCEPT ![s] = identity[s]]
  /\ Becomes(r, "done")
  /\ UNCHANGED <<running, database, identity, rejections>>

\* Faulty: the identity is created without looking whether one came in between.
CreateUnchecked(r) ==
  LET s == resolving[r].sender
  IN /\ ResolvingAt(r, "create")
     /\ identity' = [identity EXCEPT ![s] = Drawn(r, "database")]
     /\ memory' = [memory EXCEPT ![s] = Drawn(r, "database")]
     /\ Becomes(r, "fallback")
     /\ UNCHANGED <<running, database, rejections>>

\* The transaction: unique(platform, senderId) lets only the first commit.
\* It resolves to undefined, so the block after ?? runs as well, unawaited,
\* and memory is written while its first query is on the way.
CreateCustomer(r) ==
  LET s == resolving[r].sender
  IN /\ ResolvingAt(r, "create")
     /\ IF identity[s] # Nobody
        THEN Becomes(r, "done") /\ UNCHANGED <<identity, memory>>
        ELSE /\ identity' = [identity EXCEPT ![s] = Drawn(r, "database")]
             /\ memory' = [memory EXCEPT ![s] = Drawn(r, "database")]
             /\ Becomes(r, "fallback")
     /\ UNCHANGED <<running, database, rejections>>

\* resolve logs the error; resolveAsync hands it to its caller.
ResolveFails(r) ==
  /\ running /\ resolving[r].pc \in {"find", "update", "create"}
  /\ Becomes(r, "done")
  /\ UNCHANGED <<running, database, memory, identity, rejections>>

\* The block creates the customer again under the same id.  That violates the
\* primary key, and nobody handles the rejection: the process ends.
FallbackRejects(r) ==
  /\ ResolvingAt(r, "fallback")
  /\ rejections < MaxRejections
  /\ rejections' = rejections + 1
  /\ running' = FALSE
  /\ memory' = [s \in Senders |-> Nobody]
  /\ resolving' = [q \in Resolves |->
       IF resolving[q].pc = "free" THEN resolving[q] ELSE [resolving[q] EXCEPT !.pc = "done"]]
  /\ UNCHANGED <<database, identity>>

Restarts ==
  /\ ~running
  /\ running' = TRUE
  /\ UNCHANGED <<database, memory, identity, resolving, rejections>>

CustomerNext ==
  \/ \E r \in Resolves, s \in Senders : resolve(r, s) \/ resolveAsync(r, s)
  \/ \E r \in Resolves :
       \/ FindIdentity(r) \/ UpdateCustomer(r) \/ CreateCustomer(r)
       \/ ResolveFails(r) \/ FallbackRejects(r)
  \/ Restarts

CustomerSpec == CustomerInit /\ [][CustomerNext]_customerVars

-----------------------------------------------------------------------------
(* The database's customer of a sender is drawn once, whatever calls       *)
(* overlap and whenever the process ends; memory, once it knows that       *)
(* customer, does not go back to another while the process lives.          *)
(* (resolveDB)                                                             *)
IdentityKept ==
  [][\A s \in Senders :
       identity[s] # Nobody =>
         /\ identity'[s] = identity[s]
         /\ memory[s] = identity[s] /\ running' => memory'[s] = memory[s]]_customerVars
=============================================================================
