------------------------------- MODULE Validation -------------------------------
(***************************************************************************)
(* Semantic validation of a candidate                                      *)
(* (crates/ledger-store/src/postgres_validation.rs): a read-only           *)
(* transaction hands out the candidate's state, the external validator     *)
(* judges it with no transaction open, and a second transaction records    *)
(* its verdict.                                                            *)
(***************************************************************************)
EXTENDS LedgerStore

ValidateRequest ==
    [op : {"validate"}, actor : Actor, key : KeyOf("validate"), candidate : Commit]

(* candidate_is_prepared_here *)
CandidateIsPrepared(c) == \E p \in proposals : p.candidate = c

(* begin_with_limits: nothing is locked when it returns. *)
ValidateBegin(t) ==
    \E r \in ValidateRequest :
        /\ Step(t, "idle", "validate_call")
        /\ StoredResult(r) = {}
        /\ graphStatus = "active"
        /\ CandidateIsPrepared(r.candidate)
        /\ req' = [req EXCEPT ![t] = r]
        /\ UNCHANGED <<graphStatus, tables, cur, src, held>>

ValidateRecordBegin(t) ==
    BeginScoped(t, req[t], "validate_call", "validate_record")

(* record: whatever the validator answered about this candidate. *)
ValidateRecord(t) ==
    LET r == req[t]
    IN  /\ CommitTx(t, "validate_record")
        /\ CandidateIsPrepared(r.candidate)
        /\ \E v \in [candidate : {r.candidate}, service : Service,
                     conforms : BOOLEAN, environment : Environment] :
             validations' = validations \cup {v}
        /\ RecordResult(r, r.candidate, 0, 0)
        /\ UNCHANGED <<lastCommit, proposals, refs, refEvents, branches,
                       branchEvents, decisions, outbox>>

ValidationStep(t) == ValidateBegin(t) \/ ValidateRecordBegin(t) \/ ValidateRecord(t)
=============================================================================
