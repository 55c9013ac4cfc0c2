---------------------------- MODULE MCAuthManager ----------------------------
(* One user who is or is not in the one group, and requests from this host *)
(* or from another.                                                        *)
EXTENDS AuthManager

CONSTANTS c1, c2, user, group, local, remote, any

MCCallers == {c1, c2}
MCNames == {user}
MCGroups == {group}
MCKinds == {local, remote}
MCMorePermissions == {{group}}
MCSampleUsers == [n \in {user} |-> {group}]

(* One of the priority of DenyRule with the opposite action, for the group, *)
(* and one that is disabled.                                               *)
MCMoreRules ==
  { [priority |-> 1, enabled |-> TRUE, action |-> "allow", kind |-> any, group |-> group],
    [priority |-> 200, enabled |-> FALSE, action |-> "deny", kind |-> any, group |-> any] }
=============================================================================
