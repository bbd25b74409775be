--------------------------------- MODULE MCMerge ---------------------------------
(* Two diverged branches: merges in both directions race each other, a       *)
(* rejection of either candidate and the deletion of the created branch.     *)
EXTENDS Verify, TLC

CONSTANTS t1, t2, k1, k2, alice, bob

MCActor == {{alice}, {bob}}
MCKey == [prepare |-> {k1, k2}, accept |-> {k1, k2}, branch_create |-> {k1},
          branch_delete |-> {k1}, reject |-> {k1}, merge_propose |-> {k1}, merge_apply |-> {k1}]
FourEyesPolicy == [NoPolicy EXCEPT !.requireDistinctReviewer = TRUE]
MCPolicy == {FourEyesPolicy}

(* How the tables look after: alice's genesis (commit 1), branch 2 created   *)
(* from it with the four-eyes policy, alice's commit 2 on branch 2 accepted  *)
(* by bob, bob's commit 3 on `main' accepted by alice, bob's commit 4 on top *)
(* of it withdrawn: rejected by bob.                                         *)
Proposed(c, b, parents, a) ==
    [candidate |-> c, branch |-> b,
     expected |-> IF parents = <<>> THEN NoCommit ELSE parents[1],
     parents |-> parents, actor |-> a, source |-> NoName, parties |-> {}]
Moved(b, old, new, v) ==
    [branch |-> b, old |-> old, new |-> new, version |-> v,
     operation |-> IF v = 1 THEN "genesis" ELSE "advance"]
AcceptedBy(a, c, b, v) ==
    [candidate |-> c, branch |-> b, decision |-> "accepted", version |-> v,
     actor |-> a, validations |-> {}]
Result(r, c, v, n) == [req |-> r, commit |-> c, version |-> v, lifecycle |-> n]

Diverged ==
    /\ graphStatus = "active"
    /\ lastCommit = 4
    /\ proposals = {Proposed(1, 1, <<>>, {alice}), Proposed(2, 2, <<1>>, {alice}),
                    Proposed(3, 1, <<1>>, {bob}), Proposed(4, 1, <<3>>, {bob})}
    /\ refs = [b \in Branch |-> IF b = 1 THEN [head |-> 3, version |-> 2]
                                ELSE [head |-> 2, version |-> 2]]
    /\ refEvents = {Moved(1, 0, 1, 1), Moved(2, 0, 1, 1), Moved(2, 1, 2, 2), Moved(1, 1, 3, 2)}
    /\ branches = [b \in Branch |->
          IF b = 1 THEN [NoBranch EXCEPT !.status = "active", !.lifecycle = 1]
          ELSE [status |-> "active", lifecycle |-> 1, source |-> 1, point |-> 1,
                policy |-> FourEyesPolicy]]
    /\ branchEvents = {[branch |-> b, lifecycle |-> 1, status |-> "active",
                        head |-> 1, version |-> 1] : b \in Branch}
    /\ decisions = {AcceptedBy({alice}, 1, 1, 1), AcceptedBy({bob}, 2, 2, 2),
                    AcceptedBy({alice}, 3, 1, 2),
                    [AcceptedBy({bob}, 4, 1, 0) EXCEPT !.decision = "rejected"]}
    /\ outbox = {[branch |-> 1, commit |-> 1, version |-> 1],
                 [branch |-> 2, commit |-> 2, version |-> 2],
                 [branch |-> 1, commit |-> 3, version |-> 2]}
    /\ validations = {}
    /\ idempotency =
          {Result([op |-> "prepare", actor |-> {alice}, key |-> k1, branch |-> 1,
                   expected |-> 0], 1, 0, 0),
           Result([op |-> "prepare", actor |-> {alice}, key |-> k2, branch |-> 2,
                   expected |-> 1], 2, 0, 0),
           Result([op |-> "prepare", actor |-> {bob}, key |-> k1, branch |-> 1,
                   expected |-> 1], 3, 0, 0),
           Result([op |-> "prepare", actor |-> {bob}, key |-> k2, branch |-> 1,
                   expected |-> 3], 4, 0, 0),
           Result([op |-> "accept", actor |-> {alice}, key |-> k1, branch |-> 1,
                   expected |-> 0, candidate |-> 1, cites |-> {}], 1, 1, 0),
           Result([op |-> "accept", actor |-> {bob}, key |-> k1, branch |-> 2,
                   expected |-> 1, candidate |-> 2, cites |-> {}], 2, 2, 0),
           Result([op |-> "accept", actor |-> {alice}, key |-> k2, branch |-> 1,
                   expected |-> 1, candidate |-> 3, cites |-> {}], 3, 2, 0),
           Result([op |-> "reject", actor |-> {bob}, key |-> k1, branch |-> 1,
                   candidate |-> 4, cites |-> {}], 4, 0, 0),
           Result([op |-> "branch_create", actor |-> {alice}, key |-> k1, name |-> 2,
                   source |-> 1, from |-> 0, policy |-> FourEyesPolicy], 1, 1, 1)}
    /\ pc = [t \in Tx |-> "idle"]
    /\ req = [t \in Tx |-> NoRequest]
    /\ cur = [t \in Tx |-> NoRef]
    /\ src = [t \in Tx |-> NoRef]
    /\ held = [t \in Tx |-> {}]

MCSpec == Diverged /\ [][Next]_vars
Symmetry == Permutations(Tx)
=============================================================================
