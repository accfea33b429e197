----------------------------- MODULE MCSession -----------------------------
(***************************************************************************)
(* Instances of Session for TLC.                                           *)
(***************************************************************************)
EXTENDS Session

CONSTANTS u1, u2, p1, p2, a, b

TwoAccounts == {<<u1, p1>>, <<u2, p2>>}

Conf(auth_, acl_, mandatory_, connector_, ops_) ==
    [auth |-> auth_, acl |-> acl_, mandatory |-> mandatory_,
     connector |-> connector_, ops |-> ops_]

\* Everything changes meanwhile.  config.y refuses use-acl without
\* use-authentication.
AllOps == {"post", "acl", "delgroup", "dirty_stack"}
GateConfigs == {c \in [auth : BOOLEAN, acl : BOOLEAN, mandatory : BOOLEAN,
                       connector : {"plain", "starttls", "tls"}, ops : {AllOps}] :
                   c.acl => c.auth}

\* Articles and groups only come.
ReadConfigs == {Conf(FALSE, FALSE, FALSE, k, {"post", "addgroup"}) :
                   k \in {"plain", "starttls"}}

BothConfigs == GateConfigs \cup ReadConfigs
AclConfig   == {Conf(TRUE, TRUE, FALSE, "plain", {"post"})}
OpenConfigs == {Conf(FALSE, FALSE, FALSE, "plain", {"post"})}

\* One article of one group is enough for the gates; reading has two groups
\* with up to two articles.
SmallGates ==
    conf \in GateConfigs =>
        groups \subseteq {a} /\ high[a] <= 1 /\ granted \subseteq Name \X {a}
=============================================================================
