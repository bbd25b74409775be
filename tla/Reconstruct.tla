------------------------------ MODULE Reconstruct ------------------------------
(***************************************************************************)
(* Reconstruction of the state at a commit, windowed                       *)
(* (WorkflowRepository::state_at_on_windowed in postgres_workflow.rs and   *)
(* the two window statements of postgres_immutable.rs).  The first-parent  *)
(* chain is fetched a window of commits per statement, along the           *)
(* commit_parents index; the patches are then fetched a window at a time   *)
(* and folded oldest first.  The bytes decide: the index only says which   *)
(* rows to send along.                                                     *)
(*                                                                         *)
(* The database may be damaged: objects missing, rotten (the stored bytes  *)
(* do not hash to the id), foreign (not a commit) or malformed, index rows *)
(* missing or wrong, cycles.  Rows are write-once, so what is stored does  *)
(* not change while it is read.                                            *)
(***************************************************************************)
EXTENDS Integers, Sequences, FiniteSets, SequencesExt

CONSTANTS None,        \* no commit: the parent of a genesis, a silent index
          Databases,   \* what may be stored: a sequence of sets of databases
          Heads        \* the commits asked for

(* db.commit: each id's stored object, of kind "missing", "rotten",         *)
(* "foreign", "malformed" or "sound" with its first parent and its patch.   *)
(* db.hint: the position-0 row of commit_parents.  db.patch: likewise, with *)
(* the quads added and deleted.  db.size: octet_length of a stored object;  *)
(* db.line: the length of a quad's canonical line.  db.limits: depth,       *)
(* quads, bytes; db.windows: objects, bytes.                                *)
VARIABLES db, head,
          cursor,      \* the commit the next window is anchored at
          rows,        \* what the last chain window still holds
          expected,    \* the commit its next row must be
          seen,        \* the commits entered, in order
          chain,       \* their patches, newest first
          patches,     \* the rest of the patch window
          folded,      \* how many patches are applied
          state, bytes,
          result

vars == <<db, head, cursor, rows, expected, seen, chain, patches, folded, state, bytes, result>>

Init == /\ \E i \in DOMAIN Databases : db \in Databases[i]
        /\ head \in Heads
        /\ cursor = head /\ expected = head
        /\ rows = <<>> /\ seen = <<>> /\ chain = <<>>
        /\ patches = <<>> /\ folded = 0
        /\ state = {} /\ bytes = 0
        /\ result = "running"

Damage == {"missing", "rotten", "foreign", "malformed"}

-----------------------------------------------------------------------------
Least(S) == CHOOSE n \in S : \A m \in S : n <= m

(* RetrievalWindows::checked: a zero would never advance.                   *)
Checked(n) == IF n = 0 THEN 1 ELSE n

(* The cut of a window: an id is served while the objects before it hold    *)
(* fewer bytes than the bound, the first always; a missing row has none.    *)
OctetLength(stored, id) == IF stored[id].kind = "missing" THEN 0 ELSE db.size[id]

Before(stored, ids, i) ==
    LET Sum[n \in 0..Len(ids)] == IF n = 0 THEN 0 ELSE Sum[n - 1] + OctetLength(stored, ids[n])
    IN Sum[i - 1]

CutToBytes(stored, ids) ==
    SubSeq(ids, 1, Cardinality({i \in 1..Len(ids) : Before(stored, ids, i) < Checked(db.windows.bytes)}))

(* fetch_objects_window: the served prefix of the ids requested.            *)
FetchObjectsWindow(ids) == CutToBytes(db.patch, ids)

(* fetch_first_parent_window: the chain the index names from the anchor,    *)
(* one id further than what is served, so every row has its exact hint.     *)
IndexChain(anchor, max) ==
    LET Upto[n \in 0..max] ==
            IF n = 0 THEN <<anchor>>
            ELSE LET next == db.hint[Last(Upto[n - 1])]
                 IN IF Len(Upto[n - 1]) < n \/ next = None THEN Upto[n - 1]
                    ELSE Append(Upto[n - 1], next)
    IN Upto[max]

FetchFirstParentWindow(anchor, wanted) ==
    LET max == Least({wanted, Checked(db.windows.objects)})
        ids == IndexChain(anchor, max)
        served == CutToBytes(db.commit, SubSeq(ids, 1, Least({max, Len(ids)})))
    IN [i \in 1..Len(served) |->
            [id |-> ids[i], hint |-> IF i < Len(ids) THEN ids[i + 1] ELSE None]]

(* FetchedObject::verified, then decode_commit_object or                    *)
(* validate_patch_bytes: the error of a stored object that cannot be used.  *)
CommitError(c) ==
    CASE db.commit[c].kind \in {"missing", "foreign"} -> "commit not found"
      [] db.commit[c].kind \in {"rotten", "malformed"} -> "commit corrupt"
      [] OTHER -> "none"

PatchError(p) ==
    CASE db.patch[p].kind = "missing" -> "patch not found"
      [] db.patch[p].kind = "rotten" -> "patch corrupt"
      [] db.patch[p].kind \in {"foreign", "malformed"} -> "patch invalid"
      [] OTHER -> "none"

(* A hint the bytes contradict: another commit, or a parent for a genesis.  *)
(* A silent index is not a claim.                                           *)
Contradicted(parent, hint) == hint # None /\ hint # parent

-----------------------------------------------------------------------------
Stop(why) == /\ result' = why
             /\ UNCHANGED <<db, head, cursor, rows, expected, chain, patches, folded, state, bytes>>

(* The next chain window.  The commit past the depth limit is refused       *)
(* before it is fetched; a repeated one is a cycle first.                   *)
FetchChain ==
    /\ result = "running" /\ rows = <<>> /\ cursor # None
    /\ UNCHANGED seen
    /\ IF Len(seen) >= db.limits.depth
       THEN Stop(IF Contains(seen, cursor) THEN "cycle" ELSE "depth")
       ELSE /\ rows' = FetchFirstParentWindow(cursor,
                           Least({Checked(db.windows.objects), db.limits.depth - Len(seen)}))
            /\ expected' = cursor
            /\ UNCHANGED <<db, head, cursor, chain, patches, folded, state, bytes, result>>

(* One row: it must be the commit the previous bytes named, unseen, within  *)
(* the depth, intact, and not contradicted by its own hint.                 *)
TakeRow ==
    /\ result = "running" /\ rows # <<>>
    /\ LET row == Head(rows)
           object == db.commit[expected]
           fails == CASE row.id # expected -> "reply does not follow the chain"
                      [] Contains(seen, expected) -> "cycle"
                      [] Len(seen) + 1 > db.limits.depth -> "depth"
                      [] CommitError(expected) # "none" -> CommitError(expected)
                      [] Contradicted(object.parent, row.hint) -> "index contradicts bytes"
                      [] OTHER -> "none"
       IN IF fails # "none"
          THEN Stop(fails) /\ UNCHANGED seen
          ELSE /\ seen' = Append(seen, expected)
               /\ chain' = Append(chain, object.patch)
               /\ cursor' = object.parent
               /\ expected' = IF object.parent = None THEN expected ELSE object.parent
               /\ rows' = Tail(rows)
               /\ UNCHANGED <<db, head, patches, folded, state, bytes, result>>

Order == Reverse(chain)

FetchPatches ==
    /\ result = "running" /\ cursor = None /\ rows = <<>>
    /\ patches = <<>> /\ folded < Len(chain)
    /\ patches' = FetchObjectsWindow(
                     SubSeq(Order, folded + 1, Least({folded + Checked(db.windows.objects), Len(chain)})))
    /\ UNCHANGED <<db, head, cursor, rows, expected, seen, chain, folded, state, bytes, result>>

LineBytes(quads) ==
    LET Sum[S \in SUBSET quads] ==
            IF S = {} THEN 0 ELSE LET q == CHOOSE q \in S : TRUE IN db.line[q] + Sum[S \ {q}]
    IN Sum[quads]

(* check_state: the limits, once per patch.                                 *)
CheckState(quads, size) ==
    CASE quads > db.limits.quads -> "too many quads"
      [] size > db.limits.bytes -> "too many bytes"
      [] OTHER -> "none"

(* apply_bounded: the adds, then the deletes; only what changes the state   *)
(* is counted.                                                              *)
BytesDelta(before, patch) ==
    LineBytes(patch.add \ before) - LineBytes(patch.del \cap (before \cup patch.add))

FoldPatch ==
    /\ result = "running" /\ patches # <<>>
    /\ LET p == Head(patches)
           after == (state \cup db.patch[p].add) \ db.patch[p].del
           size  == LET n == bytes + BytesDelta(state, db.patch[p]) IN IF n < 0 THEN 0 ELSE n
       IN IF PatchError(p) # "none"
          THEN Stop(PatchError(p)) /\ UNCHANGED seen
          ELSE /\ state' = after
               /\ bytes' = size
               /\ folded' = folded + 1
               /\ patches' = Tail(patches)
               /\ result' = IF CheckState(Cardinality(after), size) = "none" THEN result
                            ELSE CheckState(Cardinality(after), size)
               /\ UNCHANGED <<db, head, cursor, rows, expected, seen, chain>>

Return ==
    /\ result = "running" /\ cursor = None /\ rows = <<>>
    /\ patches = <<>> /\ folded = Len(chain)
    /\ result' = "ok"
    /\ UNCHANGED <<db, head, cursor, rows, expected, seen, chain, patches, folded, state, bytes>>

Next == FetchChain \/ TakeRow \/ FetchPatches \/ FoldPatch \/ Return

Spec == Init /\ [][Next]_vars /\ WF_vars(Next)

-----------------------------------------------------------------------------
(* state_at_on_scalar, the same reconstruction an object per statement; it  *)
(* never reads the index.  Ledger::state_at_bounded walks the same way.     *)
RECURSIVE ScalarChain(_, _)
ScalarChain(c, walked) ==
    LET error == CASE Contains(walked, c) -> "cycle"
                   [] Len(walked) + 1 > db.limits.depth -> "depth"
                   [] OTHER -> CommitError(c)
    IN IF error # "none" THEN [error |-> error, commits |-> walked]
       ELSE IF db.commit[c].parent = None THEN [error |-> "none", commits |-> Append(walked, c)]
       ELSE ScalarChain(db.commit[c].parent, Append(walked, c))

RECURSIVE ScalarFold(_, _)
ScalarFold(commits, acc) ==
    IF commits = <<>> THEN [result |-> "ok", state |-> acc]
    ELSE LET p == db.commit[Last(commits)].patch
             after == (acc \cup db.patch[p].add) \ db.patch[p].del
             limit == CheckState(Cardinality(after), LineBytes(after))
         IN CASE PatchError(p) # "none" -> [result |-> PatchError(p), state |-> acc]
              [] PatchError(p) = "none" /\ limit # "none" -> [result |-> limit, state |-> after]
              [] OTHER -> ScalarFold(Front(commits), after)

Scalar == LET walk == ScalarChain(head, <<>>)
          IN IF walk.error # "none" THEN [result |-> walk.error, state |-> {}]
             ELSE ScalarFold(walk.commits, {})

-----------------------------------------------------------------------------
Finished == result # "running"
Windowed == [result |-> result, state |-> state]
Entered == ScalarChain(head, <<>>).commits

(* The window sizes are not a correctness parameter, and the index is only  *)
(* a hint: state_at_on_windowed returns the state or the error of the       *)
(* scalar walk, whatever the windows and however silent the index.  An      *)
(* index row that contradicts the bytes of a commit of the walk is always   *)
(* reported, and before any error further up the chain.                     *)
SameAsScalar ==
    Finished =>
        IF \E c \in ToSet(Entered) : Contradicted(db.commit[c].parent, db.hint[c])
        THEN result = "index contradicts bytes"
        ELSE Windowed = Scalar

(* The totals apply_bounded keeps are the size of the state, so the limits  *)
(* are limits on what is returned.                                          *)
BytesAreExact ==
    /\ bytes = LineBytes(state)
    /\ result = "ok" => Cardinality(state) <= db.limits.quads /\ bytes <= db.limits.bytes

AllButLast(stored, ids) == Before(stored, ids, Len(ids))

(* What one statement brings into memory: at most the window's objects, and *)
(* at most the window's bytes and one object more.                          *)
WindowsAreBounded ==
    /\ Len(rows) <= Checked(db.windows.objects)
    /\ Len(patches) <= Checked(db.windows.objects)
    /\ rows # <<>> => AllButLast(db.commit, [i \in 1..Len(rows) |-> rows[i].id]) < Checked(db.windows.bytes)
    /\ patches # <<>> => AllButLast(db.patch, patches) < Checked(db.windows.bytes)

====
