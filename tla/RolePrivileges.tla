---------------------------- MODULE RolePrivileges ----------------------------
(***************************************************************************)
(* What a process's database role may do: verify_identity of               *)
(* crates/ledger-store/src/schema.rs, over the roles, memberships and      *)
(* grants an owner can build up, and the session that runs after it.  The  *)
(* role must hold its privilege model exactly, and be able to become       *)
(* nothing that holds more.                                                *)
(***************************************************************************)
EXTENDS FiniteSets, Naturals

CONSTANTS
    Role,       \* the roles of the cluster
    who,        \* the one the process connects as
    Tables,     \* its IdentityModel's SELECT, INSERT and UPDATE grants
    Sequences,  \* the sequences it may use
    MaxDrift    \* how many statements the owner executes

Public == "PUBLIC"
Anyone == Role \cup {Public}

(* Properties of a role itself, which its members do not inherit. *)
Attribute == {"superuser", "owner", "CREATEROLE"}

(* Privileges outside every model, one for each query of the checks.  The   *)
(* first group is on objects of the ledger's schema.                        *)
OnSchema == {"table-level INSERT", "DELETE", "other column", "unlisted table",
             "SELECT on a sequence", "other sequence", "EXECUTE ledger_grant"}
Elsewhere == {"CREATE", "CREATE elsewhere", "SET replication role", "other schema's table"}

Model == Tables \cup Sequences
Privilege == Model \cup OnSchema \cup Elsewhere

VARIABLES
    holds,     \* holds[r]: privileges granted to r itself
    attrs,     \* attrs[r]: its attributes
    member,    \* member[<<r, g>>]: "none", "inherit" (and settable) or "set" only
    drift,     \* statements so far
    acting,    \* the role the process's session acts as
    verified   \* verify_identity passed and the owner has done nothing since

vars == <<holds, attrs, member, drift, acting, verified>>
roles == <<holds, attrs, member>>

-----------------------------------------------------------------------------
(* PostgreSQL's own rules. *)

(* The roles r is a member of, itself or through others: the least set that *)
(* is closed under membership.                                              *)
Along(r, options) ==
    LET Through(S) == {g \in Role : \E m \in S : member[<<m, g>>] \in options}
    IN  {g \in Role : \A S \in SUBSET Role : Through(S \cup {r}) \subseteq S => g \in S}

(* has_table_privilege and its kin: granted to the role, inherited, or      *)
(* PUBLIC.                                                                  *)
Has(r) == holds[r] \cup holds[Public] \cup UNION {holds[g] : g \in Along(r, {"inherit"})}

-----------------------------------------------------------------------------
(* verify_identity. *)

(* verify_table_privileges_for: the model's column grants, and no other     *)
(* privilege on a listed table.                                             *)
verify_table_privileges_for(r, exact) ==
    /\ Has(r) \cap {"table-level INSERT", "DELETE", "other column"} = {}
    /\ exact => Tables \subseteq Has(r)

(* verify_no_unlisted_table_privileges *)
verify_no_unlisted_table_privileges(r) ==
    Has(r) \cap {"unlisted table", "other schema's table"} = {}

(* verify_sequence_privileges_for *)
verify_sequence_privileges_for(r, exact) ==
    /\ Has(r) \cap {"SELECT on a sequence", "other sequence"} = {}
    /\ exact => Sequences \subseteq Has(r)

(* verify_no_grant_function_execute *)
verify_no_grant_function_execute(r) == "EXECUTE ledger_grant" \notin Has(r)

(* Mutant: only inherited memberships. *)
AssumableInherited(r) == Along(r, {"inherit"})

(* Every role it can become, by inheritance or SET ROLE, transitively. *)
Assumable(r) == Along(r, {"inherit", "set"})

(* verify_role_attributes_and_memberships *)
verify_role_attributes_and_memberships ==
    /\ "CREATEROLE" \notin attrs[who]
    /\ "SET replication role" \notin Has(who)
    /\ \A g \in Assumable(who) :
          /\ attrs[g] = {}
          /\ Has(g) \cap {"CREATE", "CREATE elsewhere", "SET replication role"} = {}
          /\ verify_table_privileges_for(g, FALSE)
          /\ verify_no_unlisted_table_privileges(g)
          /\ verify_sequence_privileges_for(g, FALSE)
          /\ verify_no_grant_function_execute(g)
    /\ verify_no_grant_function_execute(who)

verify_identity ==
    /\ attrs[who] \cap {"superuser", "owner"} = {}
    /\ Has(who) \cap {"CREATE", "CREATE elsewhere"} = {}
    /\ verify_role_attributes_and_memberships
    /\ verify_table_privileges_for(who, TRUE)
    /\ verify_no_unlisted_table_privileges(who)
    /\ verify_sequence_privileges_for(who, TRUE)

-----------------------------------------------------------------------------
(* A granted role, or one the database was restored without: then PUBLIC    *)
(* has the default EXECUTE.                                                 *)
Init ==
    /\ holds \in {[r \in Anyone |-> IF r = who THEN Model ELSE {}],
                  [r \in Anyone |-> IF r = Public THEN {"EXECUTE ledger_grant"} ELSE {}]}
    /\ attrs = [r \in Role |-> {}]
    /\ member = [m \in Role \X Role |-> "none"]
    /\ drift = 0 /\ acting = who /\ verified = FALSE

Owner == drift < MaxDrift /\ drift' = drift + 1 /\ verified' = FALSE /\ UNCHANGED acting

(* ledger_grant_runtime revokes what the role holds in the schema and       *)
(* grants the model, but not to a superuser or a CREATE holder; then EXECUTE *)
(* is revoked from PUBLIC.                                                  *)
grant_runtime_role ==
    /\ Owner
    /\ "superuser" \notin attrs[who] /\ "CREATE" \notin Has(who)
    /\ holds' = [holds EXCEPT ![who] = (@ \ OnSchema) \cup Model,
                              ![Public] = @ \ {"EXECUTE ledger_grant"}]
    /\ UNCHANGED <<attrs, member>>

GrantOrRevoke ==
    /\ Owner
    /\ \E r \in Anyone, p \in Privilege :
          holds' = [holds EXCEPT ![r] = IF p \in @ THEN @ \ {p} ELSE @ \cup {p}]
    /\ UNCHANGED <<attrs, member>>

AlterRole ==
    /\ Owner
    /\ \E r \in Role, a \in Attribute :
          attrs' = [attrs EXCEPT ![r] = IF a \in @ THEN @ \ {a} ELSE @ \cup {a}]
    /\ UNCHANGED <<holds, member>>

(* PostgreSQL refuses circular memberships. *)
GrantRole ==
    /\ Owner
    /\ \E r, g \in Role : /\ r # g /\ r \notin Assumable(g)
                          /\ \E o \in {"none", "inherit", "set"} \ {member[<<r, g>>]} :
                                member' = [member EXCEPT ![<<r, g>>] = o]
    /\ UNCHANGED <<holds, attrs>>

(* The process connects, or probes: a new session and its verification.     *)
Verify == /\ acting' = who /\ verified' = verify_identity
          /\ UNCHANGED <<roles, drift>>

SetRole(g) == /\ member[<<acting, g>>] # "none"
              /\ acting' = g
              /\ UNCHANGED <<roles, drift, verified>>

Next == grant_runtime_role \/ GrantOrRevoke \/ AlterRole \/ GrantRole \/ Verify
        \/ \E r \in Role : SetRole(r)

Spec == Init /\ [][Next]_vars

-----------------------------------------------------------------------------
(* A session whose role passed verify_identity, and that then becomes       *)
(* whatever it can become, never has an attribute or a privilege outside    *)
(* the model: each query looks at one role and one kind of object, and      *)
(* together they leave no way out.                                          *)
VerifiedSessionIsBounded ==
    verified => attrs[acting] = {} /\ Has(acting) \subseteq Model

(* verify_identity refuses nothing else: a role that has the model, from    *)
(* any mixture of direct and inherited grants, and can become nothing with  *)
(* more than the model, passes.                                             *)
ModelIsAccepted ==
    /\ \A r \in Assumable(who) \cup {who} : attrs[r] = {} /\ holds[r] \subseteq Model
    /\ holds[Public] \subseteq Model
    /\ Model \subseteq Has(who)
    => verify_identity

(* ledger-admin migrate --runtime-role repairs every drift of the role's    *)
(* own grants in the ledger's schema and the PUBLIC EXECUTE of a restore:   *)
(* after it only attributes, memberships, PUBLIC grants or grants elsewhere *)
(* can make verify_identity refuse.                                         *)
RegrantRepairs ==
    /\ grant_runtime_role
    /\ attrs[who] = {} /\ Assumable(who) = {}
    /\ holds[who] \cap Elsewhere = {}
    /\ holds[Public] \subseteq {"EXECUTE ledger_grant"}
    => verify_identity'
=============================================================================
