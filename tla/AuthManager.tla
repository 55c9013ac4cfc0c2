----------------------------- MODULE AuthManager -----------------------------
(***************************************************************************)
(* proxy/auth_manager.go: users, access rules and policy under one         *)
(* RWMutex.  A critical section is one step, except the one in which       *)
(* CheckAccess decides: it asks for the write lock inside it.  A password  *)
(* is right or wrong; path, method and source of a request are its kind;   *)
(* times, failed logins' count and the branch for inactive users (nothing  *)
(* deactivates one) are left out.                                          *)
(***************************************************************************)
EXTENDS Integers, FiniteSets, Sequences

CONSTANTS Callers,    \* goroutines
          Names, Groups, Kinds,
          Anonymous,  \* the empty user name
          Gone,       \* no entry in am.Users
          Unset,      \* an empty field of a rule
          Local,      \* the kind of requests from 127.0.0.1
          SampleUsers, \* what CreateSampleUsers leaves: groups of each name
          MorePermissions, \* bound: the groups of a user who is added
          MoreRules,  \* bound: the rules an administrator adds, each once
          MaxRules,   \* bound: rules at a time
          MaxCalls    \* bound: calls of CheckAccess and of AuthenticateUser

ASSUME AuthAssumption ==
  /\ Local \in Kinds /\ Unset \notin Kinds \cup Groups /\ Anonymous \notin Names
  /\ SampleUsers \in [Names -> SUBSET Groups \cup {Gone}]
  /\ MorePermissions \subseteq SUBSET Groups
  /\ \A rule \in MoreRules : rule.priority \in Int
  /\ MaxRules \in Nat /\ MaxCalls \in Nat

VARIABLES
  users,        \* am.Users: the groups of each name, or Gone
  rules,        \* am.ACLRules
  authRequired, defaultAllow,
  stats,        \* Stats: total, allowed and denied requests
  readers,      \* who is inside the read lock of CheckAccess
  pc, request,  \* where each goroutine is, and the request it asks about
  decided,      \* the local variable allowed
  strict,       \* history: the policy has been other than the default
  calls

vars == <<users, rules, authRequired, defaultAllow, stats, readers, pc, request, decided,
          strict, calls>>
data == <<users, rules>>
policy == <<authRequired, defaultAllow, strict>>
asks == <<request, decided, calls>>

NoRequest == [user |-> Anonymous, kind |-> Local]
Requests == [user : Names \cup {Anonymous}, kind : Kinds]
Allow == "allow"
Deny == "deny"

LocalRule == [priority |-> 100, enabled |-> TRUE, action |-> Allow, kind |-> Local, group |-> Unset]
DenyRule == [priority |-> 1, enabled |-> TRUE, action |-> Deny, kind |-> Unset, group |-> Unset]

Init ==
  /\ users = SampleUsers /\ rules = <<LocalRule, DenyRule>>
  /\ authRequired = FALSE /\ defaultAllow = TRUE /\ strict = FALSE
  /\ stats = [total |-> 0, allowed |-> 0, denied |-> 0]
  /\ readers = {} /\ calls = 0
  /\ pc = [c \in Callers |-> "idle"]
  /\ request = [c \in Callers |-> NoRequest]
  /\ decided = [c \in Callers |-> FALSE]

At(c, label) == pc[c] = label
Goto(c, label) == pc' = [pc EXCEPT ![c] = label]

(* CheckAccess returns: its parameters go with it.                         *)
Answer(c) == Goto(c, "idle") /\ request' = [request EXCEPT ![c] = NoRequest]

Upgrading == {c \in Callers : At(c, "upgrading")}

(* Lock waits for all readers; RLock waits for a writer that waits.        *)
CanWrite == readers = {}
CanRead == Upgrading = {}

-----------------------------------------------------------------------------
(* The rules.  Two loops sort them by exchanging, the highest priority     *)
(* first.                                                                  *)
Exchange(s, i, j) ==
  IF s[i].priority < s[j].priority THEN [s EXCEPT ![i] = s[j], ![j] = s[i]] ELSE s

(* The inner loop brings the highest of the rules from i on to i.          *)
Pass(s, i, n) ==
  LET after[j \in i..n] == IF j = i THEN s ELSE Exchange(after[j - 1], i, j)
  IN after[n]

Sorted(s) ==
  LET n == Len(s)
      after[i \in 0..n] == IF i = 0 THEN s ELSE Pass(after[i - 1], i, n)
  IN after[n]

InGroup(name, group) == name \in Names /\ users[name] # Gone /\ group \in users[name]

Matches(rule, r) ==
  /\ rule.kind \in {Unset, r.kind}
  /\ rule.group = Unset \/ InGroup(r.user, rule.group)

Applies(rule, r) == rule.enabled /\ Matches(rule, r)

Decision(r) ==
  LET sorted == Sorted(rules)
      hits == {i \in DOMAIN rules : Applies(sorted[i], r)}
  IN IF hits = {} THEN defaultAllow
     ELSE sorted[CHOOSE i \in hits : \A j \in hits : i <= j].action = Allow

-----------------------------------------------------------------------------
(* CheckAccess.  The policy is read without the lock, flag by flag.        *)
Ask(c) ==
  /\ At(c, "idle") /\ calls < MaxCalls /\ calls' = calls + 1
  /\ \E r \in Requests : request' = [request EXCEPT ![c] = r]
  /\ Goto(c, "counting")
  /\ UNCHANGED <<data, policy, stats, readers, decided>>

(* Mutant: the read lock is taken here already. *)
CountAndLock(c) ==
  /\ At(c, "counting") /\ CanWrite
  /\ stats' = [stats EXCEPT !.total = @ + 1] /\ Goto(c, "required")
  /\ readers' = readers \cup {c}
  /\ UNCHANGED <<data, policy, asks>>

Count(c) ==
  /\ At(c, "counting") /\ CanWrite
  /\ stats' = [stats EXCEPT !.total = @ + 1] /\ Goto(c, "required")
  /\ UNCHANGED <<data, policy, asks, readers>>

ReadRequired(c) ==
  /\ At(c, "required") /\ Goto(c, IF authRequired THEN "named" ELSE "default")
  /\ UNCHANGED <<data, policy, asks, stats, readers>>

ReadDefault(c) ==
  /\ At(c, "default") /\ Goto(c, IF defaultAllow THEN "allowing" ELSE "named")
  /\ UNCHANGED <<data, policy, asks, stats, readers>>

CheckName(c) ==
  /\ At(c, "named")
  /\ Goto(c, IF authRequired /\ request[c].user = Anonymous THEN "denying" ELSE "locking")
  /\ UNCHANGED <<data, policy, asks, stats, readers>>

AllowAtOnce(c) ==
  /\ At(c, "allowing") /\ CanWrite
  /\ stats' = [stats EXCEPT !.allowed = @ + 1] /\ Answer(c)
  /\ UNCHANGED <<data, policy, decided, calls, readers>>

(* Mutant: the denial is not counted. *)
DenySilently(c) ==
  /\ At(c, "denying") /\ CanWrite /\ Answer(c)
  /\ UNCHANGED <<data, policy, decided, calls, stats, readers>>

DenyAtOnce(c) ==
  /\ At(c, "denying") /\ CanWrite
  /\ stats' = [stats EXCEPT !.denied = @ + 1] /\ Answer(c)
  /\ UNCHANGED <<data, policy, decided, calls, readers>>

ReadLock(c) ==
  /\ At(c, "locking") /\ CanRead
  /\ readers' = readers \cup {c} /\ Goto(c, "deciding")
  /\ UNCHANGED <<data, policy, asks, stats>>

(* With its answer ready, CheckAccess asks for the write lock to count it  *)
(* while its deferred RUnlock is still to come: there is no next step.     *)
Decide(c) ==
  /\ At(c, "deciding") /\ Goto(c, "upgrading")
  /\ decided' = [decided EXCEPT ![c] = Decision(request[c])]
  /\ UNCHANGED <<data, policy, stats, readers, request, calls>>

-----------------------------------------------------------------------------
(* AuthenticateUser: a lookup, then a count or two time stamps.            *)
Authenticate(c) ==
  /\ At(c, "idle") /\ CanRead /\ calls < MaxCalls /\ calls' = calls + 1
  /\ \E name \in Names \cup {Anonymous}, right \in BOOLEAN :
       Goto(c, IF name \in Names /\ users[name] # Gone /\ right THEN "login" ELSE "failing")
  /\ UNCHANGED <<data, policy, stats, readers, request, decided>>

FailLogin(c) ==
  /\ At(c, "failing") /\ CanWrite /\ Goto(c, "idle")
  /\ UNCHANGED <<data, policy, asks, stats, readers>>

Stamp(c) ==
  /\ CanWrite
  /\ \/ At(c, "login") /\ Goto(c, "stamping")
     \/ At(c, "stamping") /\ Goto(c, "idle")
  /\ UNCHANGED <<data, policy, asks, stats, readers>>

-----------------------------------------------------------------------------
(* Administration; a call for a name or a rule that is not there, or that  *)
(* sets what is set, changes nothing.                                      *)
AddUser(name, groups) ==
  /\ CanWrite /\ users[name] = Gone
  /\ users' = [users EXCEPT ![name] = groups]
  /\ UNCHANGED <<rules, policy, asks, stats, readers, pc>>

RemoveUser(name) ==
  /\ CanWrite /\ users[name] # Gone
  /\ users' = [users EXCEPT ![name] = Gone]
  /\ UNCHANGED <<rules, policy, asks, stats, readers, pc>>

AddACLRule(rule) ==
  /\ CanWrite /\ Len(rules) < MaxRules /\ \A i \in DOMAIN rules : rules[i] # rule
  /\ rules' = Append(rules, rule)
  /\ UNCHANGED <<users, policy, asks, stats, readers, pc>>

(* Mutant: the rules are changed without the lock. *)
RemoveUnlocked(i) ==
  /\ i \in DOMAIN rules
  /\ rules' = SubSeq(rules, 1, i - 1) \o SubSeq(rules, i + 1, Len(rules))
  /\ UNCHANGED <<users, policy, asks, stats, readers, pc>>

RemoveACLRule(i) ==
  /\ CanWrite /\ i \in DOMAIN rules
  /\ rules' = SubSeq(rules, 1, i - 1) \o SubSeq(rules, i + 1, Len(rules))
  /\ UNCHANGED <<users, policy, asks, stats, readers, pc>>

SetPolicy ==
  /\ CanWrite
  /\ \/ authRequired' = ~authRequired /\ UNCHANGED defaultAllow
     \/ defaultAllow' = ~defaultAllow /\ UNCHANGED authRequired
  /\ strict' = (strict \/ authRequired' \/ ~defaultAllow')
  /\ UNCHANGED <<data, asks, stats, readers, pc>>

-----------------------------------------------------------------------------
Step(c) ==
  \/ Count(c) \/ ReadRequired(c) \/ ReadDefault(c) \/ CheckName(c)
  \/ AllowAtOnce(c) \/ DenyAtOnce(c) \/ ReadLock(c) \/ Decide(c)
  \/ FailLogin(c) \/ Stamp(c)

Administer ==
  \/ \E name \in Names : RemoveUser(name) \/ \E groups \in MorePermissions : AddUser(name, groups)
  \/ \E rule \in MoreRules : AddACLRule(rule)
  \/ \E i \in 1..MaxRules : RemoveACLRule(i)
  \/ SetPolicy

Next == Administer \/ \E c \in Callers : Ask(c) \/ Authenticate(c) \/ Step(c)

Spec == Init /\ [][Next]_vars

(* Goroutines run; nobody has to call anything.  The lock is free between  *)
(* two steps unless a reader is about, and one never leaves: weak fairness *)
(* is enough.                                                              *)
FairSpec == Spec /\ \A c \in Callers : WF_vars(Step(c))

-----------------------------------------------------------------------------
Best(r) ==
  {i \in DOMAIN rules :
     /\ Applies(rules[i], r)
     /\ \A j \in DOMAIN rules : Applies(rules[j], r) => rules[j].priority <= rules[i].priority}

(* matchACLRule and the sort in CheckAccess: the answer is that of a rule   *)
(* no applicable rule outranks, or the default policy, and it is still      *)
(* the answer of the rules, users and policy in force while it is counted:  *)
(* the read lock is kept to the end, and a caller that wants to count waits *)
(* inside it for ever, so no write can come between.                        *)
DecisionHolds ==
  \A c \in Upgrading :
    LET best == Best(request[c])
    IN IF best = {} THEN decided[c] = defaultAllow
       ELSE \E i \in best : decided[c] = (rules[i].action = Allow)

(* AuthStats: every request that was counted has been counted as allowed    *)
(* or as denied, or is still being answered.                                *)
Answering ==
  {c \in Callers : pc[c] \notin {"idle", "counting", "failing", "login", "stamping"}}
EveryRequestCounted == stats.total = stats.allowed + stats.denied + Cardinality(Answering)

(* Calls of CheckAccess and AuthenticateUser return, unless the policy has  *)
(* been changed from its default and a CheckAccess has come to the rules,   *)
(* where it waits for itself and everybody waits for it.                    *)
ChecksReturn ==
  \A c \in Callers :
    ~At(c, "idle") ~> (At(c, "idle") \/ (strict /\ Upgrading # {}))
=============================================================================
