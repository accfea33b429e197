---------------------------- MODULE AdminProofs ----------------------------
(***************************************************************************)
(* Proofs about Admin: type correctness for any number of runs of the tool *)
(* under way on any back end, and the integrity of the access control      *)
(* tables: by the foreign keys of MySQL and PostgreSQL whatever overlaps,  *)
(* by the checks and the order of the statements where runs do not overlap. *)
(***************************************************************************)
EXTENDS Admin, TLAPS

-----------------------------------------------------------------------------
(* The statements of the back ends *)

\* Every command names one argument or two.
LEMMA ArgsLength ==
    ASSUME NEW op \in Op
    PROVE  Arity(op) \in 1..2
<1>1. CASE op \in Creating \cup Deleting
    BY <1>1 DEF Creating, Deleting, Args, Arity
<1>2. CASE op \in Linking \cup Unlinking
    BY <1>2 DEF Linking, Unlinking, Args, Arity
<1> QED BY <1>1, <1>2 DEF Op

\* SQLite and MySQL execute one statement per association table and one for
\* the row itself when they delete ...
LEMMA ByHand ==
    ASSUME dbase \in {"sqlite3", "mysql"}
    PROVE  /\ Statements("addgroup") = <<Insert("newsgroups")>>
           /\ Statements("adduser") = <<Insert("users")>>
           /\ Statements("addaclrole") = <<Insert("roles")>>
           /\ Statements("addacluser") = <<Insert("acl_users")>>
           /\ Statements("delacluser") = <<Delete("acl_users", {"user", "group"})>>
           /\ Statements("rolegroupconnect") = <<Insert("acl_roles")>>
           /\ Statements("rolegroupdisconnect")
                = <<Delete("acl_roles", {"role", "group"})>>
           /\ Statements("roleuserconnect") = <<Insert("users2roles")>>
           /\ Statements("roleuserdisconnect")
                = <<Delete("users2roles", {"user", "role"})>>
           /\ Statements("delgroup")
                = <<Delete("acl_users", {"group"}), Delete("acl_roles", {"group"}),
                    Delete("newsgroups", {"group"})>>
           /\ Statements("deluser")
                = <<Delete("acl_users", {"user"}), Delete("users2roles", {"user"}),
                    Delete("users", {"user"})>>
           /\ Statements("delaclrole")
                = <<Delete("users2roles", {"role"}), Delete("acl_roles", {"role"}),
                    Delete("roles", {"role"})>>
<1>1. CASE dbase = "sqlite3"
    BY <1>1 DEF Statements, OfEngine, Newsgroup, User_, AclRole, AclUser, RoleGroup,
                RoleUser, SqliteNewsgroup, SqliteUser, SqliteRole, SqliteAclUser,
                SqliteRoleGroup, SqliteRoleUser
<1>2. CASE dbase = "mysql"
    BY <1>2 DEF Statements, OfEngine, Newsgroup, User_, AclRole, AclUser, RoleGroup,
                RoleUser, MysqlNewsgroup, MysqlUser, MysqlRole, MysqlAclUser,
                MysqlRoleGroup, MysqlRoleUser
<1> QED BY <1>1, <1>2

\* ... and PostgreSQL always executes one.
LEMMA ByCascade ==
    ASSUME dbase = "postgres"
    PROVE  /\ Statements("addgroup") = <<Insert("newsgroups")>>
           /\ Statements("adduser") = <<Insert("users")>>
           /\ Statements("addaclrole") = <<Insert("roles")>>
           /\ Statements("addacluser") = <<Insert("acl_users")>>
           /\ Statements("delacluser") = <<Delete("acl_users", {"user", "group"})>>
           /\ Statements("rolegroupconnect") = <<Insert("acl_roles")>>
           /\ Statements("rolegroupdisconnect") = <<Malformed("acl_roles")>>
           /\ Statements("roleuserconnect") = <<Insert("users2roles")>>
           /\ Statements("roleuserdisconnect")
                = <<Delete("users2roles", {"user", "role"})>>
           /\ Statements("delgroup") = <<Delete("newsgroups", {"group"})>>
           /\ Statements("deluser") = <<Delete("users", {"user"})>>
           /\ Statements("delaclrole") = <<Delete("roles", {"role"})>>
BY DEF Statements, OfEngine, Newsgroup, User_, AclRole, AclUser, RoleGroup,
       RoleUser, PostgresNewsgroup, PostgresUser, PostgresRole, PostgresAclUser,
       PostgresRoleGroup, PostgresRoleUser

\* Rows of users, roles and newsgroups are deleted by their name only.
ByName(s) ==
    /\ s.verb = "insert" => s = Insert(s.table)
    /\ s.verb = "delete" /\ s.table = "users" => s = Delete("users", {"user"})
    /\ s.verb = "delete" /\ s.table = "roles" => s = Delete("roles", {"role"})
    /\ s.verb = "delete" /\ s.table = "newsgroups"
          => s = Delete("newsgroups", {"group"})

\* The statements that occur are of that form.
LEMMA Forms ==
    /\ \A t : ByName(Insert(t)) /\ ByName(Malformed(t))
    /\ \A w : /\ ByName(Delete("acl_users", w)) /\ ByName(Delete("acl_roles", w))
             /\ ByName(Delete("users2roles", w))
    /\ ByName(Delete("users", {"user"})) /\ ByName(Delete("roles", {"role"}))
    /\ ByName(Delete("newsgroups", {"group"}))
BY DEF ByName, Insert, Delete, Malformed

\* What is said of one statement or of three holds of the list.
LEMMA ListForm ==
    ASSUME NEW p, NEW x, NEW y, NEW z,
           \/ p = <<x>> /\ ByName(x)
           \/ p = <<x, y, z>> /\ ByName(x) /\ ByName(y) /\ ByName(z)
    PROVE  Len(p) \in 1..3 /\ \A k \in 1..Len(p) : ByName(p[k])
<1>1. CASE p = <<x>> /\ ByName(x)
    BY <1>1
<1>2. CASE p = <<x, y, z>> /\ ByName(x) /\ ByName(y) /\ ByName(z)
    <2>1. Len(p) = 3 /\ p[1] = x /\ p[2] = y /\ p[3] = z
        BY <1>2
    <2>2. \A k \in 1..3 : k = 1 \/ k = 2 \/ k = 3
        OBVIOUS
    <2> QED BY <1>2, <2>1, <2>2
<1> QED BY <1>1, <1>2

\* A command has one to three statements, and each is of that form.
LEMMA StatementsForm ==
    ASSUME dbase \in Engine, NEW op \in Op
    PROVE  /\ Len(Statements(op)) \in 1..3
           /\ \A k \in 1..Len(Statements(op)) : ByName(Statements(op)[k])
<1>0. op \in {"addgroup", "adduser", "addaclrole", "delgroup", "deluser",
              "delaclrole", "addacluser", "rolegroupconnect", "roleuserconnect",
              "delacluser", "rolegroupdisconnect", "roleuserdisconnect"}
    BY DEF Op, Creating, Deleting, Linking, Unlinking
<1>1. \E x, y, z :
         \/ Statements(op) = <<x>> /\ ByName(x)
         \/ Statements(op) = <<x, y, z>> /\ ByName(x) /\ ByName(y) /\ ByName(z)
    <2>1. CASE dbase \in {"sqlite3", "mysql"}
        <3>1. CASE op \in {"delgroup", "deluser", "delaclrole"}
            BY <2>1, <3>1, ByHand, Forms
        <3>2. CASE op \notin {"delgroup", "deluser", "delaclrole"}
            BY <1>0, <2>1, <3>2, ByHand, Forms
        <3> QED BY <3>1, <3>2
    <2>2. CASE dbase = "postgres"
        BY <1>0, <2>2, ByCascade, Forms
    <2> QED BY <2>1, <2>2 DEF Engine
<1> QED BY <1>1, ListForm

-----------------------------------------------------------------------------
(* Type correctness *)

\* The empty tables and idle runs are well typed.
LEMMA AdminInitType == Init => TypeOK
<1> SUFFICES ASSUME Init PROVE TypeOK
    OBVIOUS
<1>1. job \in [Admin -> Job] /\ \A a \in Admin : job[a].pc = "idle"
    BY DEF Init
<1> QED BY <1>1 DEF Init, TypeOK, JobOK

\* What the type invariant says of the runs.
JobsOK == job \in [Admin -> Job] /\ \A a \in Admin : JobOK(job[a])

\* A step of one run leaves the types of all runs intact.
LEMMA JobUpdate ==
    ASSUME TypeOK, dbase' = dbase, NEW a \in Admin, NEW j \in Job, JobOK(j),
           job' = [job EXCEPT ![a] = j]
    PROVE  JobsOK'
<1>1. \A i : JobOK(i)' <=> JobOK(i)
    BY DEF JobOK, Statements, OfEngine, Newsgroup, User_, AclRole, AclUser,
           RoleGroup, RoleUser
<1>2. job' \in [Admin -> Job] /\ \A b \in Admin : JobOK(job'[b])
    BY DEF TypeOK
<1> QED BY <1>2 DEF JobsOK, JobOK, Statements, OfEngine, Newsgroup, User_, AclRole,
                    AclUser, RoleGroup, RoleUser

\* Within a range, the next number.
LEMMA NextIn ==
    ASSUME NEW k \in 1..3, NEW n \in 1..3
    PROVE  1 \in 1..n /\ (k < n => k + 1 \in 1..n /\ k + 1 \in 1..3)
OBVIOUS

\* Ending a run, and going on to its next argument or statement.
LEMMA DoneType ==
    ASSUME TypeOK, dbase' = dbase, NEW a \in Admin, Done(a)
    PROVE  JobsOK'
<1> DEFINE j == [job[a] EXCEPT !.pc = "idle"]
<1>1. j \in Job /\ j.pc = "idle"
    BY DEF TypeOK, Job
<1>2. job' = [job EXCEPT ![a] = j]
    BY DEF Done
<1>3. JobOK(j)
    BY <1>1 DEF JobOK
<1> HIDE DEF j
<1> QED BY <1>1, <1>2, <1>3, JobUpdate

\* Going on to the next statement of a command keeps the run well typed.
LEMMA AdvanceType ==
    ASSUME TypeOK, dbase' = dbase, NEW a \in Admin, Advance(a),
           \/ job[a].pc = "check" /\ job[a].k < Arity(job[a].op)
           \/ job[a].pc = "exec" /\ job[a].k < Len(Statements(job[a].op))
    PROVE  JobsOK'
<1> DEFINE j == [job[a] EXCEPT !.k = job[a].k + 1]
<1>0. job[a] \in Job /\ dbase \in Engine
    BY AdminAssumption DEF TypeOK
<1>3. /\ job[a].k \in 1..3 /\ Arity(job[a].op) \in 1..2
      /\ Len(Statements(job[a].op)) \in 1..3
    BY <1>0, ArgsLength, StatementsForm DEF Job
<1>4. job[a].k + 1 \in 1..3
    <2>1. \A n \in 1..2 : n \in 1..3
        OBVIOUS
    <2>2. PICK n \in 1..3 : job[a].k < n
        BY <1>3, <2>1
    <2> QED BY <1>3, <2>2, NextIn
<1>1. j \in Job /\ j.pc = job[a].pc /\ j.op = job[a].op /\ j.k = job[a].k + 1
    BY <1>0, <1>4 DEF Job
<1>2. job' = [job EXCEPT ![a] = j]
    BY DEF Advance
<1>6. \A n \in 1..2 : n \in 1..3
    OBVIOUS
<1>5. JobOK(j)
    <2>1. CASE job[a].pc = "check" /\ job[a].k < Arity(job[a].op)
        <3>1. job[a].k + 1 \in 1..Arity(job[a].op)
            BY <1>3, <1>6, <2>1, NextIn
        <3> QED BY <1>1, <2>1, <3>1 DEF JobOK
    <2>2. CASE job[a].pc = "exec" /\ job[a].k < Len(Statements(job[a].op))
        <3>1. job[a].k + 1 \in 1..Len(Statements(job[a].op))
            BY <1>3, <2>2, NextIn
        <3> QED BY <1>1, <2>2, <3>1 DEF JobOK
    <2> QED BY <2>1, <2>2
<1> HIDE DEF j
<1> QED BY <1>1, <1>2, <1>5, JobUpdate

\* The checks are passed: on to the first statement.
LEMMA ExecJob ==
    ASSUME NEW j \in Job
    PROVE  LET i == [j EXCEPT !.pc = "exec", !.k = 1] IN
           i \in Job /\ i.pc = "exec" /\ i.k = 1 /\ i.op = j.op
<1> DEFINE j1 == [j EXCEPT !.pc = "exec"]
<1>1. j1 \in Job /\ j1.pc = "exec" /\ j1.op = j.op
    BY DEF Job
<1>2. [j EXCEPT !.pc = "exec", !.k = 1] = [j1 EXCEPT !.k = 1]
    BY DEF Job
<1> HIDE DEF j1
<1>3. ASSUME NEW n \in 1..3
      PROVE  /\ [j1 EXCEPT !.k = n] \in Job /\ [j1 EXCEPT !.k = n].op = j1.op
             /\ [j1 EXCEPT !.k = n].pc = "exec" /\ [j1 EXCEPT !.k = n].k = n
    BY <1>1 DEF Job
<1>4. 1 \in 1..3
    OBVIOUS
<1> QED BY <1>1, <1>2, <1>3, <1>4

\* The rest of the type invariant.
TablesOK ==
    /\ users \subseteq User /\ roles \subseteq Role /\ rows \in [Group -> Nat]
    /\ aclUsers \subseteq User \X Group /\ users2roles \subseteq User \X Role
    /\ aclRoles \subseteq Role \X Group

\* What a statement makes of an association table.
LEMMA AfterShape ==
    ASSUME NEW s, NEW j, NEW t, NEW T, NEW k1, NEW k2, NEW x \in After(s, j, t, T, k1, k2)
    PROVE  \/ x \in T /\ (s = Insert(t) \/ ~Removes(s, j, t, k1, k2, x))
           \/ s = Insert(t) /\ x = <<Arg(j, k1), Arg(j, k2)>>
BY DEF After

\* Every SQL statement of the tool leaves well-typed tables.
LEMMA ApplyType ==
    ASSUME TypeOK, NEW s, NEW j \in Job, Apply(s, j)
    PROVE  TablesOK'
<1>0. j.u \in User /\ j.r \in Role /\ j.g \in Group
    BY DEF Job
<1>1. users' \subseteq User /\ roles' \subseteq Role
    BY <1>0 DEF Apply, NamesAfter, TypeOK
<1>2. rows' \in [Group -> Nat]
    BY <1>0 DEF Apply, RowsAfter, TypeOK
<1>3. /\ aclUsers' \subseteq User \X Group /\ users2roles' \subseteq User \X Role
      /\ aclRoles' \subseteq Role \X Group
    <2>1. \A k : Arg(j, "user") = j.u /\ Arg(j, "role") = j.r /\ Arg(j, "group") = j.g
        BY DEF Arg
    <2> QED BY <1>0, <2>1, AfterShape DEF Apply, TypeOK
<1> QED BY <1>1, <1>2, <1>3 DEF TablesOK

\* The two parts and the rest make up the type invariant.
LEMMA TypeParts ==
    ASSUME TypeOK, dbase' = dbase, ops' \in Nat, JobsOK', TablesOK'
    PROVE  TypeOK'
BY DEF TypeOK, JobsOK, TablesOK

\* Every step of a run, on every engine, keeps the types.
LEMMA AdminNextType == TypeOK /\ [Next]_vars => TypeOK'
<1> SUFFICES ASSUME TypeOK, [Next]_vars PROVE TypeOK'
    OBVIOUS
<1>0. /\ ops \in Nat /\ TablesOK /\ JobsOK /\ dbase \in Engine
      /\ (UNCHANGED tables => TablesOK')
    BY AdminAssumption DEF TypeOK, TablesOK, JobsOK, tables
<1>1. CASE UNCHANGED vars
    <2>1. JobsOK'
        BY <1>0, <1>1 DEF JobsOK, JobOK, Statements, OfEngine, Newsgroup, User_,
                    AclRole, AclUser, RoleGroup, RoleUser, vars
    <2> QED BY <1>0, <1>1, <2>1, TypeParts DEF vars
<1>2. ASSUME NEW a \in Admin, Start(a) PROVE TypeOK'
    <2>1. PICK op \in Op, u \in User, r \in Role, g \in Group :
             job' = [job EXCEPT ![a] = [pc |-> "check", k |-> 1, op |-> op,
                                        u |-> u, r |-> r, g |-> g]]
        BY <1>2 DEF Start
    <2> DEFINE j == [pc |-> "check", k |-> 1, op |-> op, u |-> u, r |-> r, g |-> g]
    <2>2. j \in Job /\ j.k = 1 /\ j.op = op /\ j.pc = "check"
        BY DEF Job
    <2>3. job' = [job EXCEPT ![a] = j]
        BY <2>1
    <2> HIDE DEF j
    <2>7. 1 \in 1..Arity(op)
        <3>1. Arity(op) \in 1..2
            BY ArgsLength
        <3> QED BY <3>1
    <2>4. JobOK(j)
        BY <2>2, <2>7 DEF JobOK
    <2>5. dbase' = dbase /\ UNCHANGED tables /\ ops' = ops + 1
        BY <1>2 DEF Start
    <2>6. JobsOK'
        BY <2>2, <2>3, <2>4, <2>5, JobUpdate
    <2> QED BY <1>0, <2>5, <2>6, TypeParts
<1>3. ASSUME NEW a \in Admin, Check(a) PROVE TypeOK'
    <2>0. UNCHANGED tables /\ ops' = ops /\ dbase' = dbase /\ job[a].pc = "check"
        BY <1>3 DEF Check
    <2>1. CASE job[a].k < Arity(job[a].op) /\ Advance(a)
        BY <1>0, <2>0, <2>1, AdvanceType, TypeParts
    <2>2. CASE job' = [job EXCEPT ![a].pc = "exec", ![a].k = 1]
        <3> DEFINE j == [job[a] EXCEPT !.pc = "exec", !.k = 1]
        <3>0. job[a] \in Job
            BY DEF TypeOK
        <3>1. j \in Job /\ j.pc = "exec" /\ j.k = 1 /\ j.op = job[a].op
            BY <3>0, ExecJob
        <3>2. job' = [job EXCEPT ![a] = j]
            BY <2>2 DEF TypeOK
        <3> HIDE DEF j
        <3>3. j.op \in Op
            BY <3>1 DEF Job
        <3>5. 1 \in 1..Len(Statements(j.op))
            BY <1>0, <3>3, StatementsForm, NextIn
        <3>4. JobOK(j)
            BY <3>1, <3>5 DEF JobOK
        <3> QED BY <1>0, <2>0, <3>1, <3>2, <3>4, JobUpdate, TypeParts
    <2>3. CASE Done(a)
        BY <1>0, <2>0, <2>3, DoneType, TypeParts
    <2> QED BY <1>3, <2>1, <2>2, <2>3 DEF Check
<1>4. ASSUME NEW a \in Admin, Exits(a) PROVE TypeOK'
    <2>1. UNCHANGED tables /\ ops' = ops /\ dbase' = dbase /\ Done(a)
        BY <1>4 DEF Exits
    <2> QED BY <1>0, <2>1, DoneType, TypeParts
<1>5. ASSUME NEW a \in Admin, Execute(a) PROVE TypeOK'
    <2>0. ops' = ops /\ dbase' = dbase /\ job[a].pc = "exec" /\ job[a] \in Job
        BY <1>5 DEF Execute, TypeOK
    <2>1. TablesOK'
        BY <1>0, <1>5, <2>0, ApplyType DEF Execute
    <2>2. JobsOK'
        BY <1>5, <2>0, DoneType, AdvanceType DEF Execute
    <2> QED BY <1>0, <2>0, <2>1, <2>2, TypeParts
<1> QED BY <1>1, <1>2, <1>3, <1>4, <1>5 DEF Next

\* The tables keep their types and a run stays within its arguments and
\* statements, on every back end and whatever number of runs overlap.
THEOREM AdminTypeCorrect == Spec => []TypeOK
<1> QED BY AdminInitType, AdminNextType, PTL DEF Spec

-----------------------------------------------------------------------------
(* Integrity of the access control tables *)

\* Before any run has started the invariant holds.
LEMMA AdminInvInit == TypeOK /\ Init => AdminInv
<1> SUFFICES ASSUME TypeOK, Init PROVE AdminInv
    OBVIOUS
<1>1. \A a \in Admin : job[a].pc = "idle"
    BY DEF Init
<1> QED BY <1>1 DEF Init, AdminInv, AclIntegrity, OneRow, JobInv, CheckInv, Alone

\* The statement a run is at is one of those of its back end.
LEMMA CurrentForm ==
    ASSUME TypeOK, NEW a \in Admin, job[a].pc = "exec"
    PROVE  ByName(Current(a))
<1>1. dbase \in Engine /\ job[a].op \in Op /\ JobOK(job[a])
    BY AdminAssumption DEF TypeOK, Job
<1>2. job[a].k \in 1..Len(Statements(job[a].op))
    BY <1>1 DEF JobOK
<1> QED BY <1>1, <1>2, StatementsForm DEF Current

\* What a statement does to users, roles and newsgroups.
LEMMA NamesEffect ==
    ASSUME TypeOK, NEW j \in Job, NEW s, ByName(s), Apply(s, j)
    PROVE  /\ s = Delete("users", {"user"}) \/ users \subseteq users'
           /\ s = Delete("roles", {"role"}) \/ roles \subseteq roles'
           /\ s = Delete("newsgroups", {"group"}) \/ groups \subseteq groups'
           /\ users \ {j.u} \subseteq users' /\ roles \ {j.r} \subseteq roles'
           /\ groups \ {j.g} \subseteq groups'
           /\ users' \subseteq users \/ s = Insert("users")
           /\ groups' \subseteq groups \/ s = Insert("newsgroups")
<1>1. /\ s.table = "users" /\ s.verb = "delete" => s = Delete("users", {"user"})
      /\ s.table = "roles" /\ s.verb = "delete" => s = Delete("roles", {"role"})
      /\ s.table = "newsgroups" /\ s.verb = "delete" => s = Delete("newsgroups", {"group"})
      /\ s.verb = "insert" => s = Insert(s.table)
    BY DEF ByName
<1>2. /\ s = Delete("users", {"user"}) \/ users \subseteq users'
      /\ users \ {j.u} \subseteq users'
      /\ users' \subseteq users \/ s = Insert("users")
    BY <1>1 DEF Apply, NamesAfter
<1>3. /\ s = Delete("roles", {"role"}) \/ roles \subseteq roles'
      /\ roles \ {j.r} \subseteq roles'
    BY <1>1 DEF Apply, NamesAfter
<1>4. /\ s = Delete("newsgroups", {"group"}) \/ groups \subseteq groups'
      /\ groups \ {j.g} \subseteq groups'
      /\ groups' \subseteq groups \/ s = Insert("newsgroups")
    <2>1. j.g \in Group /\ rows \in [Group -> Nat]
        BY DEF TypeOK, Job
    <2>2. CASE s.table = "newsgroups" /\ s.verb = "insert"
        <3>1. rows' = [rows EXCEPT ![j.g] = rows[j.g] + 1]
            BY <2>2 DEF Apply, RowsAfter
        <3>2. groups \subseteq groups'
            BY <2>1, <3>1 DEF groups
        <3> QED BY <1>1, <2>2, <3>2
    <2>3. CASE s.table = "newsgroups" /\ s.verb = "delete"
        <3>1. rows' = [rows EXCEPT ![j.g] = 0]
            BY <2>3 DEF Apply, RowsAfter
        <3>2. groups' = groups \ {j.g}
            BY <2>1, <3>1 DEF groups
        <3> QED BY <1>1, <2>3, <3>2
    <2>4. CASE ~(s.table = "newsgroups" /\ s.verb \in {"insert", "delete"})
        <3>1. rows' = rows
            BY <2>4 DEF Apply, RowsAfter
        <3> QED BY <3>1 DEF groups
    <2> QED BY <2>2, <2>3, <2>4
<1> QED BY <1>2, <1>3, <1>4

\* Rows that stay, and the row that is inserted, refer to what still exists.
\* The reason why is the caller's: a foreign key, or what the tool has checked.
LEMMA LinksKept ==
    ASSUME TypeOK, AclIntegrity, NEW j \in Job, NEW s, ByName(s), Apply(s, j),
           s = Insert("acl_users") => j.u \in users /\ j.g \in groups,
           s = Insert("users2roles") => j.u \in users /\ j.r \in roles,
           s = Insert("acl_roles") => j.r \in roles /\ j.g \in groups,
           s = Delete("users", {"user"}) =>
              /\ \A x \in aclUsers' : x[1] # j.u
              /\ \A x \in users2roles' : x[1] # j.u,
           s = Delete("roles", {"role"}) =>
              /\ \A x \in users2roles' : x[2] # j.r
              /\ \A x \in aclRoles' : x[1] # j.r,
           s = Delete("newsgroups", {"group"}) =>
              /\ \A x \in aclUsers' : x[2] # j.g
              /\ \A x \in aclRoles' : x[2] # j.g
    PROVE  AclIntegrity'
<1>0. Arg(j, "user") = j.u /\ Arg(j, "role") = j.r /\ Arg(j, "group") = j.g
    BY DEF Arg
<1>1. /\ s = Delete("users", {"user"}) \/ users \subseteq users'
      /\ s = Delete("roles", {"role"}) \/ roles \subseteq roles'
      /\ s = Delete("newsgroups", {"group"}) \/ groups \subseteq groups'
      /\ users \ {j.u} \subseteq users' /\ roles \ {j.r} \subseteq roles'
      /\ groups \ {j.g} \subseteq groups'
    BY NamesEffect
<1>2. aclUsers' \subseteq users' \X groups'
    <2> SUFFICES ASSUME NEW x \in aclUsers' PROVE x \in users' \X groups'
        OBVIOUS
    <2>1. x \in aclUsers \/ (s = Insert("acl_users") /\ x = <<j.u, j.g>>)
        BY <1>0, AfterShape DEF Apply
    <2>2. x \in users \X groups
        BY <2>1 DEF AclIntegrity
    <2> QED BY <1>1, <2>2
<1>3. users2roles' \subseteq users' \X roles'
    <2> SUFFICES ASSUME NEW x \in users2roles' PROVE x \in users' \X roles'
        OBVIOUS
    <2>1. x \in users2roles \/ (s = Insert("users2roles") /\ x = <<j.u, j.r>>)
        BY <1>0, AfterShape DEF Apply
    <2>2. x \in users \X roles
        BY <2>1 DEF AclIntegrity
    <2> QED BY <1>1, <2>2
<1>4. aclRoles' \subseteq roles' \X groups'
    <2> SUFFICES ASSUME NEW x \in aclRoles' PROVE x \in roles' \X groups'
        OBVIOUS
    <2>1. x \in aclRoles \/ (s = Insert("acl_roles") /\ x = <<j.r, j.g>>)
        BY <1>0, AfterShape DEF Apply
    <2>2. x \in roles \X groups
        BY <2>1 DEF AclIntegrity
    <2> QED BY <1>1, <2>2
<1> QED BY <1>2, <1>3, <1>4 DEF AclIntegrity

\* A DELETE is not an INSERT.
LEMMA Verbs ==
    \A t, v, w : Delete(t, w) # Insert(v)
BY DEF Delete, Insert

\* Foreign keys keep the associations intact whatever statement is executed.
LEMMA ForeignKeysKeep ==
    ASSUME TypeOK, AclIntegrity, ForeignKeys, NEW j \in Job, NEW s, ByName(s),
           ~Refused(s, j), Apply(s, j)
    PROVE  AclIntegrity'
<1>0. Arg(j, "user") = j.u /\ Arg(j, "role") = j.r /\ Arg(j, "group") = j.g
    BY DEF Arg
<1>1. \A t : s = Insert(t) => \A kind \in Parents(t) : Exists(kind, j)
    BY DEF Refused, Insert
<1>2. /\ s = Insert("acl_users") => j.u \in users /\ j.g \in groups
      /\ s = Insert("users2roles") => j.u \in users /\ j.r \in roles
      /\ s = Insert("acl_roles") => j.r \in roles /\ j.g \in groups
    BY <1>1 DEF Parents, Exists, UserExists, RoleExists, GroupExists
<1>3. s = Delete("users", {"user"}) => /\ \A x \in aclUsers' : x[1] # j.u
                                       /\ \A x \in users2roles' : x[1] # j.u
    <2>1. s = Delete("users", {"user"}) => Cascades(s, "user")
        BY DEF Cascades
    <2> QED BY <1>0, <2>1, Verbs, AfterShape DEF Apply, Removes
<1>4. s = Delete("roles", {"role"}) => /\ \A x \in users2roles' : x[2] # j.r
                                       /\ \A x \in aclRoles' : x[1] # j.r
    <2>1. s = Delete("roles", {"role"}) => Cascades(s, "role")
        BY DEF Cascades
    <2> QED BY <1>0, <2>1, Verbs, AfterShape DEF Apply, Removes
<1>5. s = Delete("newsgroups", {"group"}) => /\ \A x \in aclUsers' : x[2] # j.g
                                             /\ \A x \in aclRoles' : x[2] # j.g
    <2>1. s = Delete("newsgroups", {"group"}) => Cascades(s, "group")
        BY DEF Cascades
    <2> QED BY <1>0, <2>1, Verbs, AfterShape DEF Apply, Removes
<1> QED BY <1>2, <1>3, <1>4, <1>5, LinksKept

\* Which command a statement belongs to, where the associations are deleted by
\* hand: the row itself is deleted last.
LEMMA Origin ==
    ASSUME TypeOK, dbase \in {"sqlite3", "mysql"}, NEW a \in Admin,
           job[a].pc = "exec"
    PROVE  LET s == Current(a)
               op == job[a].op
               k == job[a].k
           IN  /\ s = Insert("newsgroups") => op = "addgroup"
               /\ s = Insert("acl_users") => op = "addacluser"
               /\ s = Insert("users2roles") => op = "roleuserconnect"
               /\ s = Insert("acl_roles") => op = "rolegroupconnect"
               /\ s = Delete("users", {"user"}) => op = "deluser" /\ k = 3
               /\ s = Delete("roles", {"role"}) => op = "delaclrole" /\ k = 3
               /\ s = Delete("newsgroups", {"group"}) => op = "delgroup" /\ k = 3
<1> DEFINE op == job[a].op
           k == job[a].k
<1>1. op \in Op /\ JobOK(job[a]) /\ k \in 1..3
    BY DEF TypeOK, Job
<1>2. k \in 1..Len(Statements(op)) /\ Current(a) = Statements(op)[k]
    BY <1>1 DEF JobOK, Current
<1>3. op \in {"addgroup", "adduser", "addaclrole", "delgroup", "deluser",
              "delaclrole", "addacluser", "rolegroupconnect", "roleuserconnect",
              "delacluser", "rolegroupdisconnect", "roleuserdisconnect"}
    BY <1>1 DEF Op, Creating, Deleting, Linking, Unlinking
<1>4. k = 1 \/ k = 2 \/ k = 3
    BY <1>1
<1>5. CASE op \in {"delgroup", "deluser", "delaclrole"}
    BY <1>2, <1>4, <1>5, ByHand DEF Insert, Delete
<1>6. CASE op \notin {"delgroup", "deluser", "delaclrole"}
    <2>1. k = 1
        BY <1>2, <1>3, <1>4, <1>6, ByHand
    <2> QED BY <1>2, <1>3, <1>6, <2>1, ByHand DEF Insert, Delete
<1> QED BY <1>5, <1>6

\* A run that has ended owes nothing.
LEMMA IdleInv ==
    ASSUME NEW a \in Admin, job'[a].pc = "idle"
    PROVE  JobInv(a)' /\ CheckInv(a)'
BY DEF JobInv, CheckInv

\* A run that ends is idle and leaves the others alone.
LEMMA DoneIdle ==
    ASSUME TypeOK, NEW a \in Admin, Done(a)
    PROVE  job'[a].pc = "idle" /\ \A b \in Admin \ {a} : job'[b] = job[b]
BY DEF TypeOK, Job, Done

\* Going on to the next statement touches only the run that does so.
LEMMA AdvanceEffect ==
    ASSUME TypeOK, NEW a \in Admin, Advance(a)
    PROVE  /\ job'[a].k = job[a].k + 1 /\ job'[a].pc = job[a].pc
           /\ job'[a].op = job[a].op /\ job'[a].u = job[a].u
           /\ job'[a].r = job[a].r /\ job'[a].g = job[a].g
           /\ \A b \in Admin \ {a} : job'[b] = job[b]
BY DEF TypeOK, Job, Advance

\* The run that is under way takes the step, and no other one is affected.
LEMMA SerialStep ==
    ASSUME Alone, NEW a \in Admin, job[a].pc # "idle" \/ \A b \in Admin : job[b].pc = "idle",
           \A b \in Admin \ {a} : job'[b] = job[b], JobInv(a)', CheckInv(a)'
    PROVE  (Alone /\ \A b \in Admin : JobInv(b) /\ CheckInv(b))'
<1>1. \A b \in Admin \ {a} : job'[b].pc = "idle"
    BY DEF Alone
<1>2. \A b \in Admin \ {a} : JobInv(b)' /\ CheckInv(b)'
    BY <1>1, IdleInv
<1> QED BY <1>1, <1>2 DEF Alone

\* What the checks of main() establish before the first statement.
LEMMA CheckedInv ==
    ASSUME NEW a \in Admin, TypeOK, CheckInv(a), Check(a)
    PROVE  JobInv(a)' /\ CheckInv(a)'
<1> DEFINE j == job[a]
<1>1. j \in Job /\ j.pc = "check" /\ j.k \in 1..Arity(j.op)
    BY DEF Check, TypeOK, JobOK
<1>2. /\ users' = users /\ roles' = roles /\ rows' = rows
      /\ aclUsers' = aclUsers /\ users2roles' = users2roles /\ aclRoles' = aclRoles
    BY DEF Check, tables
<1>3. groups' = groups
    BY <1>2 DEF groups
<1>4. CASE Done(a)
    BY <1>4, DoneIdle, IdleInv
<1>5. CASE Passes(j) /\ j.k < Arity(j.op) /\ Advance(a)
    <2>1. /\ job'[a].pc = "check" /\ job'[a].k = j.k + 1 /\ job'[a].op = j.op
          /\ job'[a].u = j.u /\ job'[a].r = j.r /\ job'[a].g = j.g
        BY <1>1, <1>5, AdvanceEffect
    <2>2. Arity(j.op) \in 1..2 /\ j.op \in Op
        BY <1>1, ArgsLength DEF Job
    <2>3. j.k = 1 /\ Arity(j.op) = 2
        BY <1>1, <1>5, <2>2
    <2>4. j.op \in Linking \cup Unlinking
        BY <2>2, <2>3 DEF Op, Creating, Deleting, Arity, Args
    <2>5. Exists(Args(j.op)[1], j)
        BY <1>5, <2>3, <2>4 DEF Passes, Creating, Linking, Unlinking
    <2>6. CheckInv(a)'
        BY <1>2, <1>3, <2>1, <2>4, <2>5
           DEF CheckInv, Exists, UserExists, RoleExists, GroupExists, Args, Linking,
               Unlinking
    <2>7. JobInv(a)'
        BY <2>1 DEF JobInv
    <2> QED BY <2>6, <2>7
<1>6. CASE /\ Passes(j) /\ j.k = Arity(j.op)
           /\ job' = [job EXCEPT ![a].pc = "exec", ![a].k = 1]
    <2>1. /\ job'[a].pc = "exec" /\ job'[a].k = 1 /\ job'[a].op = j.op
          /\ job'[a].u = j.u /\ job'[a].r = j.r /\ job'[a].g = j.g
        BY <1>1, <1>6 DEF TypeOK, Job
    <2>2. CheckInv(a)'
        BY <2>1 DEF CheckInv
    <2>5. /\ j.op = "addgroup" => j.g \notin groups
          /\ j.op = "addacluser" => j.u \in users /\ j.g \in groups
          /\ j.op = "rolegroupconnect" => j.r \in roles /\ j.g \in groups
          /\ j.op = "roleuserconnect" => j.r \in roles /\ j.u \in users
        <3> USE DEF Passes, Exists, UserExists, RoleExists, GroupExists, Args, Arity,
                    Creating, CheckInv
        <3>1. CASE j.op = "addgroup"
            BY <1>6, <3>1
        <3>2. CASE j.op = "addacluser"
            BY <1>1, <1>6, <3>2
        <3>3. CASE j.op = "rolegroupconnect"
            BY <1>1, <1>6, <3>3
        <3>4. CASE j.op = "roleuserconnect"
            BY <1>1, <1>6, <3>4
        <3> QED BY <3>1, <3>2, <3>3, <3>4
    <2>6. JobInv(a)'
        BY <1>2, <1>3, <2>1, <2>5 DEF JobInv
    <2> QED BY <2>2, <2>6
<1> QED BY <1>4, <1>5, <1>6 DEF Check

\* Between two statements of a deletion the associations of the one table are
\* gone, and stay so while the next one is emptied.
LEMMA DeletionInv ==
    ASSUME TypeOK, NEW a \in Admin, JobInv(a), Execute(a), Advance(a),
           job[a].k < Len(Statements(job[a].op)), Apply(Current(a), job[a])
    PROVE  JobInv(a)' /\ CheckInv(a)'
<1> DEFINE j == job[a]
<1>0. /\ dbase \in Engine /\ j \in Job /\ j.op \in Op /\ j.k \in 1..3 /\ j.pc = "exec"
    BY AdminAssumption DEF TypeOK, Job, Execute
<1>1. j.op \in {"addgroup", "adduser", "addaclrole", "delgroup", "deluser",
              "delaclrole", "addacluser", "rolegroupconnect", "roleuserconnect",
              "delacluser", "rolegroupdisconnect", "roleuserdisconnect"}
    BY <1>0 DEF Op, Creating, Deleting, Linking, Unlinking
<1>2. dbase \in {"sqlite3", "mysql"}
    <2>1. dbase = "postgres" => Len(Statements(j.op)) = 1
        BY <1>1, ByCascade
    <2>2. ~(j.k < 1)
        BY <1>0
    <2>3. dbase # "postgres"
        BY <2>1, <2>2
    <2> QED BY <1>0, <2>3 DEF Engine
<1>3. j.op \in {"delgroup", "deluser", "delaclrole"} /\ (j.k = 1 \/ j.k = 2)
    <2>1. /\ j.op \notin {"delgroup", "deluser", "delaclrole"} => Len(Statements(j.op)) = 1
          /\ j.op \in {"delgroup", "deluser", "delaclrole"} => Len(Statements(j.op)) = 3
        BY <1>1, <1>2, ByHand
    <2>2. ~(j.k < 1) /\ (j.k < 3 => j.k = 1 \/ j.k = 2)
        BY <1>0
    <2> QED BY <2>1, <2>2
<1>4. /\ job'[a].k = j.k + 1 /\ job'[a].pc = "exec" /\ job'[a].op = j.op
      /\ job'[a].u = j.u /\ job'[a].r = j.r /\ job'[a].g = j.g
    BY <1>0, AdvanceEffect
<1>5. Arg(j, "user") = j.u /\ Arg(j, "role") = j.r /\ Arg(j, "group") = j.g
    BY DEF Arg
<1>6. Current(a).verb = "delete" /\ \A t : Current(a) # Insert(t)
    <2>1. Current(a) = Statements(j.op)[j.k]
        BY DEF Current
    <2> QED BY <1>2, <1>3, <2>1, ByHand DEF Insert, Delete
<1>7. /\ aclUsers' \subseteq aclUsers /\ users2roles' \subseteq users2roles
      /\ aclRoles' \subseteq aclRoles
    BY <1>6, AfterShape DEF Apply
<1>8. CheckInv(a)'
    BY <1>4 DEF CheckInv
<1>9. CASE j.op = "deluser"
    <2>1. CASE j.k = 1
        <3>1. Current(a).table = "acl_users" /\ Current(a).where = {"user"}
            BY <1>2, <1>9, <2>1, ByHand DEF Current, Delete
        <3>2. \A x \in aclUsers' : x[1] # j.u
            BY <1>5, <1>6, <3>1, AfterShape DEF Apply, Removes
        <3> QED BY <1>4, <1>8, <1>9, <2>1, <3>2 DEF JobInv
    <2>2. CASE j.k = 2
        <3>1. Current(a).table = "users2roles" /\ Current(a).where = {"user"}
            BY <1>2, <1>9, <2>2, ByHand DEF Current, Delete
        <3>2. \A x \in users2roles' : x[1] # j.u
            BY <1>5, <1>6, <3>1, AfterShape DEF Apply, Removes
        <3>3. \A x \in aclUsers' : x[1] # j.u
            BY <1>0, <1>7, <1>9, <2>2 DEF JobInv
        <3> QED BY <1>4, <1>8, <1>9, <2>2, <3>2, <3>3 DEF JobInv
    <2> QED BY <1>3, <2>1, <2>2
<1>10. CASE j.op = "delaclrole"
    <2>1. CASE j.k = 1
        <3>1. Current(a).table = "users2roles" /\ Current(a).where = {"role"}
            BY <1>2, <1>10, <2>1, ByHand DEF Current, Delete
        <3>2. \A x \in users2roles' : x[2] # j.r
            BY <1>5, <1>6, <3>1, AfterShape DEF Apply, Removes
        <3> QED BY <1>4, <1>8, <1>10, <2>1, <3>2 DEF JobInv
    <2>2. CASE j.k = 2
        <3>1. Current(a).table = "acl_roles" /\ Current(a).where = {"role"}
            BY <1>2, <1>10, <2>2, ByHand DEF Current, Delete
        <3>2. \A x \in aclRoles' : x[1] # j.r
            BY <1>5, <1>6, <3>1, AfterShape DEF Apply, Removes
        <3>3. \A x \in users2roles' : x[2] # j.r
            BY <1>0, <1>7, <1>10, <2>2 DEF JobInv
        <3> QED BY <1>4, <1>8, <1>10, <2>2, <3>2, <3>3 DEF JobInv
    <2> QED BY <1>3, <2>1, <2>2
<1>11. CASE j.op = "delgroup"
    <2>1. CASE j.k = 1
        <3>1. Current(a).table = "acl_users" /\ Current(a).where = {"group"}
            BY <1>2, <1>11, <2>1, ByHand DEF Current, Delete
        <3>2. \A x \in aclUsers' : x[2] # j.g
            BY <1>5, <1>6, <3>1, AfterShape DEF Apply, Removes
        <3> QED BY <1>4, <1>8, <1>11, <2>1, <3>2 DEF JobInv
    <2>2. CASE j.k = 2
        <3>1. Current(a).table = "acl_roles" /\ Current(a).where = {"group"}
            BY <1>2, <1>11, <2>2, ByHand DEF Current, Delete
        <3>2. \A x \in aclRoles' : x[2] # j.g
            BY <1>5, <1>6, <3>1, AfterShape DEF Apply, Removes
        <3>3. \A x \in aclUsers' : x[2] # j.g
            BY <1>0, <1>7, <1>11, <2>2 DEF JobInv
        <3> QED BY <1>4, <1>8, <1>11, <2>2, <3>2, <3>3 DEF JobInv
    <2> QED BY <1>3, <2>1, <2>2
<1> QED BY <1>3, <1>9, <1>10, <1>11

\* Without foreign keys, a statement keeps the associations intact because of
\* what the tool has checked and deleted before.
LEMMA ChecksKeep ==
    ASSUME TypeOK, AclIntegrity, dbase \in {"sqlite3", "mysql"}, NEW a \in Admin,
           JobInv(a), job[a].pc = "exec", Apply(Current(a), job[a])
    PROVE  AclIntegrity'
<1> DEFINE j == job[a]
           s == Current(a)
<1>1. j \in Job /\ ByName(s)
    BY CurrentForm DEF TypeOK
<1>2. /\ s = Insert("acl_users") => j.u \in users /\ j.g \in groups
      /\ s = Insert("users2roles") => j.u \in users /\ j.r \in roles
      /\ s = Insert("acl_roles") => j.r \in roles /\ j.g \in groups
    BY Origin DEF JobInv
<1>3. s = Delete("users", {"user"}) => /\ \A x \in aclUsers : x[1] # j.u
                                       /\ \A x \in users2roles : x[1] # j.u
    BY Origin DEF JobInv
<1>4. s = Delete("roles", {"role"}) => /\ \A x \in users2roles : x[2] # j.r
                                       /\ \A x \in aclRoles : x[1] # j.r
    BY Origin DEF JobInv
<1>5. s = Delete("newsgroups", {"group"}) => /\ \A x \in aclUsers : x[2] # j.g
                                             /\ \A x \in aclRoles : x[2] # j.g
    BY Origin DEF JobInv
<1>6. \A t, w : s = Delete(t, w) =>
         /\ aclUsers' \subseteq aclUsers /\ users2roles' \subseteq users2roles
         /\ aclRoles' \subseteq aclRoles
    BY Verbs, AfterShape DEF Apply
<1>7. Apply(s, j)
    OBVIOUS
<1> HIDE DEF s, j
<1> QED BY <1>1, <1>2, <1>3, <1>4, <1>5, <1>6, <1>7, LinksKept

\* A newsgroup gets a row only while it has none: PostgreSQL refuses another
\* one, and otherwise the tool has checked.
LEMMA RowsKept ==
    ASSUME TypeOK, OneRow, NEW a \in Admin, job[a].pc = "exec", dbase' = dbase,
           ~Refused(Current(a), job[a]), Apply(Current(a), job[a]),
           dbase \in {"sqlite3"} \/ (dbase = "mysql" /\ dbase \notin MayOverlap) => JobInv(a)
    PROVE  OneRow'
<1> SUFFICES ASSUME ~(dbase = "mysql" /\ dbase \in MayOverlap), NEW g \in Group
             PROVE  rows'[g] <= 1
    BY DEF OneRow
<1>0. /\ \A h \in Group : rows[h] <= 1
      /\ rows \in [Group -> Nat] /\ job[a].g \in Group /\ dbase \in Engine
    BY AdminAssumption DEF OneRow, TypeOK, Job
<1>1. CASE Current(a).table = "newsgroups" /\ Current(a).verb = "insert"
    <2>1. Current(a) = Insert("newsgroups")
        BY <1>1, CurrentForm DEF ByName
    <2>2. job[a].g \notin groups
        <3>1. CASE dbase = "postgres"
            BY <2>1, <3>1 DEF Refused, UniqueNames, GroupExists
        <3>2. CASE dbase # "postgres"
            BY <1>0, <2>1, <3>2, Origin DEF JobInv, Engine
        <3> QED BY <3>1, <3>2
    <2>3. rows[job[a].g] = 0
        BY <1>0, <2>2 DEF groups
    <2>4. rows' = [rows EXCEPT ![job[a].g] = rows[job[a].g] + 1]
        BY <1>1 DEF Apply, RowsAfter
    <2> QED BY <1>0, <2>3, <2>4
<1>2. CASE Current(a).table = "newsgroups" /\ Current(a).verb = "delete"
    <2>1. rows' = [rows EXCEPT ![job[a].g] = 0]
        BY <1>2 DEF Apply, RowsAfter
    <2> QED BY <1>0, <2>1
<1>3. CASE ~(Current(a).table = "newsgroups" /\ Current(a).verb \in {"insert", "delete"})
    <2>1. rows' = rows
        BY <1>3 DEF Apply, RowsAfter
    <2> QED BY <1>0, <2>1
<1> QED BY <1>1, <1>2, <1>3

\* Every step keeps the invariant, where runs overlap only on the engines that
\* have foreign keys.
LEMMA AdminInvNext ==
    ASSUME MayOverlap \subseteq {"mysql", "postgres"}, TypeOK, AdminInv, [Next]_vars
    PROVE  AdminInv'
<1>0. /\ AclIntegrity /\ OneRow /\ dbase \in Engine
      /\ dbase \notin MayOverlap => Alone /\ \A a \in Admin : JobInv(a) /\ CheckInv(a)
    BY AdminAssumption DEF AdminInv, TypeOK
<1>1. CASE UNCHANGED vars
    <2>1. /\ users' = users /\ roles' = roles /\ rows' = rows /\ dbase' = dbase
          /\ aclUsers' = aclUsers /\ users2roles' = users2roles
          /\ aclRoles' = aclRoles /\ job' = job
        BY <1>1 DEF vars, tables
    <2>2. groups' = groups
        BY <2>1 DEF groups
    <2>3. AclIntegrity' /\ OneRow'
        BY <1>0, <2>1, <2>2 DEF AclIntegrity, OneRow
    <2>4. ASSUME NEW a \in Admin
          PROVE  (JobInv(a) => JobInv(a)') /\ (CheckInv(a) => CheckInv(a)')
        <3>1. JobInv(a) => JobInv(a)'
            BY <2>1, <2>2 DEF JobInv
        <3>2. CheckInv(a) => CheckInv(a)'
            BY <2>1, <2>2 DEF CheckInv, Exists, UserExists, RoleExists, GroupExists
        <3> QED BY <3>1, <3>2
    <2>5. Alone => Alone'
        BY <2>1 DEF Alone
    <2> QED BY <1>0, <2>1, <2>3, <2>4, <2>5 DEF AdminInv
<1>2. ASSUME dbase' = dbase, UNCHANGED tables
      PROVE  AclIntegrity' /\ OneRow'
    BY <1>0, <1>2 DEF AclIntegrity, OneRow, groups, tables
<1>3. ASSUME NEW a \in Admin, Start(a) PROVE AdminInv'
    <2>1. /\ job'[a].pc = "check" /\ job'[a].k = 1
          /\ \A b \in Admin \ {a} : job'[b] = job[b]
        BY <1>3 DEF Start, TypeOK
    <2>2. JobInv(a)' /\ CheckInv(a)'
        BY <2>1 DEF JobInv, CheckInv
    <2>3. dbase' = dbase /\ UNCHANGED tables
        BY <1>3 DEF Start
    <2>4. dbase \notin MayOverlap => (\A b \in Admin : job[b].pc = "idle")
        BY <1>3 DEF Start
    <2> QED BY <1>0, <1>2, <2>1, <2>2, <2>3, <2>4, SerialStep DEF AdminInv
<1>4. ASSUME NEW a \in Admin, Check(a) PROVE AdminInv'
    <2>1. dbase' = dbase /\ UNCHANGED tables /\ job[a].pc = "check"
        BY <1>4 DEF Check
    <2>2. \A b \in Admin \ {a} : job'[b] = job[b]
        BY <1>4, DoneIdle, AdvanceEffect DEF Check, TypeOK
    <2>3. dbase \notin MayOverlap => JobInv(a)' /\ CheckInv(a)'
        BY <1>0, <1>4, CheckedInv
    <2> QED BY <1>0, <1>2, <2>1, <2>2, <2>3, SerialStep DEF AdminInv
<1>5. ASSUME NEW a \in Admin, Exits(a) PROVE AdminInv'
    <2>1. dbase' = dbase /\ UNCHANGED tables /\ job[a].pc # "idle" /\ Done(a)
        BY <1>5 DEF Exits
    <2> QED BY <1>0, <1>2, <2>1, DoneIdle, IdleInv, SerialStep DEF AdminInv
<1>6. ASSUME NEW a \in Admin, Execute(a) PROVE AdminInv'
    <2>1. dbase' = dbase /\ job[a].pc = "exec" /\ job[a] \in Job
        BY <1>6 DEF Execute, TypeOK
    <2>2. CASE Done(a) /\ UNCHANGED tables
        BY <1>0, <1>2, <2>1, <2>2, DoneIdle, IdleInv, SerialStep DEF AdminInv
    <2>3. CASE /\ ~Refused(Current(a), job[a]) /\ Apply(Current(a), job[a])
               /\ IF job[a].k < Len(Statements(job[a].op)) THEN Advance(a) ELSE Done(a)
        <3>1. dbase = "sqlite3" => dbase \notin MayOverlap
            OBVIOUS
        <3>2. AclIntegrity'
            <4>1. CASE ForeignKeys
                BY <1>0, <2>1, <2>3, <4>1, ForeignKeysKeep, CurrentForm
            <4>2. CASE ~ForeignKeys
                <5>1. dbase = "sqlite3"
                    BY <1>0, <4>2 DEF ForeignKeys, Engine
                <5> QED BY <1>0, <2>1, <2>3, <3>1, <5>1, ChecksKeep
            <4> QED BY <4>1, <4>2
        <3>3. OneRow'
            BY <1>0, <2>1, <2>3, <3>1, RowsKept
        <3>4. \A b \in Admin \ {a} : job'[b] = job[b]
            BY <2>3, DoneIdle, AdvanceEffect
        <3>5. dbase \notin MayOverlap => JobInv(a)' /\ CheckInv(a)'
            BY <1>0, <1>6, <2>3, DoneIdle, IdleInv, DeletionInv
        <3> QED BY <1>0, <2>1, <3>2, <3>3, <3>4, <3>5, SerialStep DEF AdminInv
    <2> QED BY <1>6, <2>2, <2>3 DEF Execute
<1> QED BY <1>1, <1>3, <1>4, <1>5, <1>6 DEF Next

\* The inductive invariant holds throughout, where runs do not overlap on SQLite.
LEMMA AdminInvariant ==
    ASSUME MayOverlap \subseteq {"mysql", "postgres"}
    PROVE  Spec => []AdminInv
<1>1. Init => AdminInv
    BY AdminInitType, AdminInvInit
<1>2. TypeOK /\ AdminInv /\ [Next]_vars => AdminInv'
    BY AdminInvNext
<1> QED BY <1>1, <1>2, AdminTypeCorrect, PTL DEF Spec

\* Where runs of the tool overlap only on MySQL and PostgreSQL, and wherever a
\* run is cut off, the associations refer to users, roles and newsgroups that
\* exist.
THEOREM AdminIntegrity ==
    ASSUME MayOverlap \subseteq {"mysql", "postgres"}
    PROVE  Spec => []AclIntegrity
<1>1. AdminInv => AclIntegrity
    BY DEF AdminInv
<1> QED BY <1>1, AdminInvariant, PTL

\* Under the same condition addgroup never gives a newsgroup a second row,
\* unless runs overlap on MySQL.
THEOREM OneRowPerGroup ==
    ASSUME MayOverlap \subseteq {"mysql", "postgres"}
    PROVE  Spec => []OneRow
<1>1. AdminInv => OneRow
    BY DEF AdminInv
<1> QED BY <1>1, AdminInvariant, PTL

-----------------------------------------------------------------------------
(* Names that are used again *)

\* An INSERT of a user or of a newsgroup leaves the associations alone.
LEMMA CreationLinks ==
    ASSUME NEW s, NEW j, s \in {Insert("users"), Insert("newsgroups")}, Apply(s, j)
    PROVE  /\ aclUsers' \subseteq aclUsers /\ users2roles' \subseteq users2roles
           /\ aclRoles' \subseteq aclRoles
BY AfterShape DEF Apply, Insert

\* Access goes to users and newsgroups that exist.
LEMMA AccessExists ==
    ASSUME AclIntegrity, NEW u, NEW g, Access(u, g)
    PROVE  u \in users /\ g \in groups
BY DEF AclIntegrity, Access, DirectAccess, RoleAccess

\* Who has access after a step and exists then has existed before.
LEMMA FreshStep ==
    ASSUME TypeOK, AclIntegrity, [Next]_vars, NEW u \in User, NEW g \in Group,
           Access(u, g)'
    PROVE  (u \in users' => u \in users) /\ (g \in groups' => g \in groups)
<1>1. CASE UNCHANGED tables
    BY <1>1 DEF tables, groups
<1>2. ASSUME NEW a \in Admin, Execute(a), Apply(Current(a), job[a])
      PROVE  (u \in users' => u \in users) /\ (g \in groups' => g \in groups)
    <2>1. ByName(Current(a)) /\ job[a] \in Job
        BY <1>2, CurrentForm DEF Execute, TypeOK
    <2>2. /\ users' \subseteq users \/ Current(a) = Insert("users")
          /\ groups' \subseteq groups \/ Current(a) = Insert("newsgroups")
        BY <1>2, <2>1, NamesEffect
    <2>3. CASE Current(a) \in {Insert("users"), Insert("newsgroups")}
        <3>1. Access(u, g)
            BY <1>2, <2>3, CreationLinks DEF Access, DirectAccess, RoleAccess
        <3> QED BY <3>1, AccessExists
    <2> QED BY <2>2, <2>3
<1> QED BY <1>1, <1>2 DEF Next, Start, Check, Execute, Exits, vars, tables

\* A user or a newsgroup that is created has no access left over from an
\* earlier one of the name, even if the deletion of that one was interrupted
\* and repeated.
THEOREM FreshNames ==
    ASSUME MayOverlap \subseteq {"mysql", "postgres"}
    PROVE  Spec => NoInheritedAccess
<1>1. TypeOK /\ AdminInv /\ [Next]_vars =>
         [\A u \in User, g \in Group :
             Access(u, g)' => /\ u \in users' => u \in users
                              /\ g \in groups' => g \in groups]_vars
    BY FreshStep DEF AdminInv
<1> QED BY <1>1, AdminInvariant, AdminTypeCorrect, PTL DEF Spec, NoInheritedAccess
=============================================================================
