-------------------------------- MODULE Serving --------------------------------
(***************************************************************************)
(* When a server or projector may serve from a database: the checks of     *)
(* crates/ledger-store/src/schema.rs that a process makes as it connects   *)
(* (PostgresLedgerStore::connect_with, ProjectionRepository::connect) and   *)
(* again on every readiness probe (ready), while the owner migrates,       *)
(* grants, damages and repairs the schema.                                 *)
(*                                                                         *)
(* The catalog is abstracted to one state per control: a guard trigger or  *)
(* function, a key, a CHECK, a partial unique index, a NOT NULL column.    *)
(* A check reads the catalog in one statement and holds no lock after it.  *)
(***************************************************************************)
EXTENDS Naturals, Sequences, FiniteSets, Functions

CONSTANTS
    Replica,     \* processes
    Identity,    \* Identity[r]: "runtime" or "projector"
    Required,    \* Required[r]: REQUIRED_SCHEMA_VERSION of r's build
    Level,       \* migrations are numbered 1 .. Level
    Control,     \* the controls the migrations install
    Kind,        \* Kind[c]
    Since,       \* Since[c]: the migration that installs it
    MaxChanges,  \* how many statements the owner executes
    MaxFaults    \* how many times a process stops or loses its connection

(* A content address is a CHECK the runtime also probes; an index here is   *)
(* a partial unique one.                                                    *)
Kinds == {"trigger", "function", "key", "check", "address", "index", "not null"}

VARIABLES
    applied,   \* applied[v]: the row of _sqlx_migrations
    control,   \* control[c]: what the catalog says of it
    granted,   \* granted[i]: what identity i's role holds of its privilege model
    replica,   \* replica[r]: what the process is doing
    changes,   \* the owner's statements so far
    faults     \* stops and lost connections so far

vars == <<applied, control, granted, replica, changes, faults>>
catalog == <<applied, control, granted>>

(* intact; gone; off: disabled, NOT VALID, deferrable or invalid; weaker:   *)
(* another body, shape or expression under the same name; copied: a key     *)
(* beside an unenforced copy; reworded: a CHECK as a restore writes it;      *)
(* hollow: a CHECK that deparses right and is not enforced.                  *)
States(kind) == {"intact", "gone", "off", "weaker"}
    \cup (CASE kind = "key"                  -> {"copied"}
            [] kind \in {"check", "address"} -> {"reworded"}
            [] OTHER                         -> {})
    \cup (IF kind = "address" THEN {"hollow"} ELSE {})

GrantStates == {"none", "short", "exact", "excess"}
RowStates == {"absent", "ok", "failed", "edited"}

Of(kinds, r) == {c \in Control : Kind[c] \in kinds /\ Since[c] <= Required[r]}
Checks(r) == Of({"check", "address"}, r)
Expressions(r) == Checks(r) \cup Of({"index"}, r)

-----------------------------------------------------------------------------
(* The checks.  Each is one statement, made when it is the head of todo.    *)

Check(name, c) == [name |-> name, on |-> c]
InTurn(cs) == CHOOSE f \in [1 .. Cardinality(cs) -> cs] : IsInjective(f)
Each(name, cs) == [i \in 1 .. Cardinality(cs) |-> Check(name, InTurn(cs)[i])]
NoControl == "no control"

(* schema::verify *)
verify(r) ==
    <<Check("metadata", NoControl)>>
    \o Each("trigger", Of({"trigger"}, r)) \o Each("function", Of({"function"}, r))
    \o <<Check("constraints", NoControl), Check("indexes", NoControl),
         Check("not null", NoControl)>>

(* verify_definitions; the runtime also probes the content-address CHECKs.  *)
verify_definitions(r) == Each("definition", Expressions(r))
Probes(r) == IF Identity[r] = "runtime" THEN Each("probe", Of({"address"}, r)) ELSE <<>>

(* connect_with and ProjectionRepository::connect *)
ConnectChecks(r) == verify(r) \o <<Check("identity", NoControl)>>
                    \o verify_definitions(r) \o Probes(r)

(* ready: the projector's also looks at its privileges again. *)
ReadyChecks(r) == verify(r) \o <<Check("fingerprints", NoControl)>>
                  \o (IF Identity[r] = "projector" THEN <<Check("identity", NoControl)>> ELSE <<>>)

(* Mutant: only the highest version is compared. *)
MetadataHighest(r) == \E v \in DOMAIN applied :
    /\ v = Required[r] /\ applied[v] = "ok"
    /\ \A w \in DOMAIN applied : w > v => applied[w] = "absent"

(* Recorded, successful, with this build's checksum: all of them, no other. *)
(* A role with no grants cannot read the table.                             *)
MetadataHolds(r) ==
    /\ granted[Identity[r]] # "none"
    /\ \A v \in DOMAIN applied : applied[v] = IF v <= Required[r] THEN "ok" ELSE "absent"

TriggerHolds(c) == control[c] = "intact"
FunctionHolds(c) == control[c] = "intact"

(* Keys by shape; CHECKs by name, kind and being valid. *)
ConstraintsHold(r) ==
    /\ \A c \in Of({"key"}, r) : control[c] \in {"intact", "copied"}
    /\ \A c \in Checks(r) : control[c] \notin {"absent", "gone", "off"}

IndexesHold(r) == \A c \in Of({"index"}, r) : control[c] \notin {"absent", "gone", "off"}

NotNullHolds(r) == \A c \in Of({"not null"}, r) : control[c] = "intact"

(* verify_identity: neither less nor more than the model. *)
IdentityHolds(r) == granted[Identity[r]] = "exact"

(* RESTORED_CHECKS are accepted beside the migrations' own wording. *)
DefinitionHolds(c) == control[c] \in {"intact", "reworded", "hollow"}

(* probe_content_address_check, probe_validation_content_address_checks *)
ProbeHolds(c) == control[c] \in {"intact", "reworded"}

FingerprintsHold(r) == replica[r].expected = replica[r].seen

Holds(r, k) ==
    CASE k.name = "metadata"     -> MetadataHolds(r)
      [] k.name = "trigger"      -> TriggerHolds(k.on)
      [] k.name = "function"     -> FunctionHolds(k.on)
      [] k.name = "constraints"  -> ConstraintsHold(r)
      [] k.name = "indexes"      -> IndexesHold(r)
      [] k.name = "not null"     -> NotNullHolds(r)
      [] k.name = "identity"     -> IdentityHolds(r)
      [] k.name = "definition"   -> DefinitionHolds(k.on)
      [] k.name = "probe"        -> ProbeHolds(k.on)
      [] k.name = "fingerprints" -> FingerprintsHold(r)

(* What verify_constraints_and_indexes returns: the stored expressions.     *)
Fingerprints(r, name) ==
    LET read == IF name = "constraints" THEN Checks(r)
                ELSE IF name = "indexes" THEN Of({"index"}, r) ELSE {}
    IN  [c \in Expressions(r) |-> IF c \in read THEN control[c] ELSE replica[r].seen[c]]

-----------------------------------------------------------------------------
(* A process. *)

Unread(r) == [c \in Expressions(r) |-> "absent"]

(* pc: down, starting, serving (with or without a probe being answered).    *)
Down(r) == [pc |-> "down", todo |-> <<>>, seen |-> Unread(r), expected |-> Unread(r),
            began |-> 0, quiet |-> FALSE, probe |-> "none", answer |-> "none"]

(* A database migrated to some level, its roles granted or not yet. *)
Init ==
    /\ \E n \in 0 .. Level :
          /\ applied = [v \in 1 .. Level |-> IF v <= n THEN "ok" ELSE "absent"]
          /\ control = [c \in Control |-> IF Since[c] <= n THEN "intact" ELSE "absent"]
          /\ \E g \in IF n = 0 THEN {"none"} ELSE {"none", "exact"} :
                granted = [i \in {"runtime", "projector"} |-> g]
    /\ replica = [r \in Replica |-> Down(r)]
    /\ changes = 0 /\ faults = 0

Start(r) ==
    /\ replica[r].pc = "down"
    /\ replica' = [replica EXCEPT ![r] = [Down(r) EXCEPT
          !.pc = "starting", !.todo = ConnectChecks(r), !.began = changes]]
    /\ UNCHANGED <<catalog, changes, faults>>

Probe(r) ==
    /\ replica[r].pc = "serving" /\ replica[r].probe = "none"
    /\ replica' = [replica EXCEPT ![r].probe = "asked", ![r].answer = "none",
                                  ![r].todo = ReadyChecks(r), ![r].began = changes]
    /\ UNCHANGED <<catalog, changes, faults>>

Busy(r) == replica[r].pc = "starting" \/ replica[r].probe = "asked"

(* The process exits, or the probe is answered "not ready". *)
Refuse(r) ==
    replica' = [replica EXCEPT ![r] =
        IF @.pc = "starting" THEN Down(r)
        ELSE [@ EXCEPT !.todo = <<>>, !.probe = "none", !.answer = "not ready"]]

NextCheck(r) ==
    /\ Busy(r) /\ replica[r].todo # <<>>
    /\ LET k == Head(replica[r].todo)
       IN  IF Holds(r, k)
           THEN replica' = [replica EXCEPT ![r].todo = Tail(@),
                                           ![r].seen = Fingerprints(r, k.name)]
           ELSE Refuse(r)
    /\ UNCHANGED <<catalog, changes, faults>>

(* Every check held: the process serves, or is ready. *)
Pass(r) ==
    /\ Busy(r) /\ replica[r].todo = <<>>
    /\ replica' = [replica EXCEPT ![r] =
          IF @.pc = "starting"
          THEN [@ EXCEPT !.pc = "serving", !.expected = replica[r].seen,
                         !.quiet = (replica[r].began = changes)]
          ELSE [@ EXCEPT !.probe = "none", !.answer = "ready"]]
    /\ UNCHANGED <<catalog, changes, faults>>

Fault == faults < MaxFaults /\ faults' = faults + 1

(* The database does not answer: a refusal like any other. *)
Unreachable(r) == Busy(r) /\ Fault /\ Refuse(r) /\ UNCHANGED <<catalog, changes>>

Stop(r) == /\ replica[r].pc # "down" /\ Fault
           /\ replica' = [replica EXCEPT ![r] = Down(r)]
           /\ UNCHANGED <<catalog, changes>>

-----------------------------------------------------------------------------
(* The owner.  DDL and grants are transactions of their own. *)

Change == changes < MaxChanges /\ changes' = changes + 1 /\ UNCHANGED <<replica, faults>>

(* migrate_all_on applies the pending migrations one transaction at a time, *)
(* and none over a history it does not recognise.  The tables it adds are   *)
(* not yet granted.                                                         *)
Migrate ==
    /\ Change
    /\ \E v \in 1 .. Level :
          /\ \A w \in 1 .. Level : applied[w] = IF w < v THEN "ok" ELSE "absent"
          /\ applied' = [applied EXCEPT ![v] = "ok"]
          /\ control' = [c \in Control |-> IF Since[c] = v THEN "intact" ELSE control[c]]
    /\ granted' = [i \in DOMAIN granted |-> IF granted[i] = "none" THEN "none" ELSE "short"]

(* grant_runtime_role and grant_projector_role *)
Grant(i) ==
    /\ Change
    /\ \E v \in 1 .. Level : applied[v] # "absent"
    /\ granted' = [granted EXCEPT ![i] = "exact"]
    /\ UNCHANGED <<applied, control>>

(* Anything else the owner's connection can do to the catalog, repairs      *)
(* included.                                                                *)
Alter ==
    /\ Change
    /\ \/ \E c \in Control : /\ control[c] # "absent"
                             /\ \E s \in States(Kind[c]) \ {control[c]} :
                                    control' = [control EXCEPT ![c] = s]
                             /\ UNCHANGED <<applied, granted>>
       \/ \E v \in 1 .. Level : /\ \E w \in v .. Level : applied[w] # "absent"
                               /\ \E s \in RowStates \ {applied[v]} :
                                      applied' = [applied EXCEPT ![v] = s]
                               /\ UNCHANGED <<control, granted>>
       \/ \E i \in DOMAIN granted : /\ \E s \in GrantStates \ {granted[i]} :
                                         granted' = [granted EXCEPT ![i] = s]
                                   /\ UNCHANGED <<applied, control>>

Owner == Migrate \/ (\E i \in DOMAIN granted : Grant(i)) \/ Alter

ReplicaStep(r) == Start(r) \/ Probe(r) \/ NextCheck(r) \/ Pass(r)

Next == Owner \/ \E r \in Replica : ReplicaStep(r) \/ Unreachable(r) \/ Stop(r)

(* A supervisor restarts and probes; a check that was begun is finished.    *)
Fairness == \A r \in Replica : WF_vars(ReplicaStep(r))

Spec == Init /\ [][Next]_vars /\ Fairness

-----------------------------------------------------------------------------
TypeOK ==
    /\ applied \in [1 .. Level -> RowStates]
    /\ \A c \in Control : control[c] \in States(Kind[c]) \cup {"absent"}
    /\ granted \in [{"runtime", "projector"} -> GrantStates]
    /\ changes \in 0 .. MaxChanges /\ faults \in 0 .. MaxFaults
    /\ \A r \in Replica : /\ replica[r].pc \in {"down", "starting", "serving"}
                          /\ replica[r].answer \in {"none", "ready", "not ready"}
                          /\ ~Busy(r) => replica[r].todo = <<>>

(* What the database enforces, whatever the catalog calls it. *)
Enforced(c) == control[c] \in {"intact", "copied", "reworded"}

(* The schema r's build was written for, no more and no less. *)
SchemaIntact(r) ==
    /\ \A v \in 1 .. Level : applied[v] = IF v <= Required[r] THEN "ok" ELSE "absent"
    /\ \A c \in Control : Since[c] <= Required[r] =>
          Enforced(c) \/ (Identity[r] = "projector" /\ control[c] = "hollow")

Compatible(r) == SchemaIntact(r) /\ granted[Identity[r]] = "exact"

Undisturbed(r) == replica[r].began = changes

(* connect_with: a start-up the owner does not disturb serves exactly when  *)
(* every migration, guard, constraint and privilege is what the build       *)
(* requires; the checks, each reading another part of the catalog, leave no *)
(* part out, and refuse nothing that is right.                              *)
StartUpIsExact == \A r \in Replica :
    replica[r].pc = "starting" /\ Undisturbed(r) =>
        /\ replica'[r].pc = "serving" => Compatible(r)
        /\ NextCheck(r) /\ replica'[r].pc = "down" => ~Compatible(r)

Answers(r, answer) == replica[r].probe = "asked" /\ replica'[r].answer = answer

(* ready: a process that started undisturbed says it is ready only over the *)
(* schema its build requires, though a probe reads no definition: the       *)
(* fingerprints stand for the definitions that start-up validated.          *)
ReadyIsSound == \A r \in Replica :
    Answers(r, "ready") /\ Undisturbed(r) /\ replica[r].quiet =>
        /\ SchemaIntact(r)
        /\ Identity[r] = "projector" => Compatible(r)

(* Once the schema is no longer what a serving process requires, and stays  *)
(* so, its readiness turns to "not ready" and does not come back.           *)
DriftIsNoticed == \A r \in Replica :
    <>[](replica[r].pc = "serving" /\ replica[r].quiet /\ ~SchemaIntact(r))
        => <>[](replica[r].answer # "ready")

(* Once the catalog stays what the build requires, a process gets to serve, *)
(* however many refused start-ups came before.                              *)
ServesOnceCompatible == \A r \in Replica :
    <>[]Compatible(r) => <>[](replica[r].pc = "serving")
=============================================================================
