------------------------------- MODULE Admin -------------------------------
(***************************************************************************)
(* The users, roles and access control lists that wendzelnntpadm keeps in  *)
(* the database (cdpnntpadm.c on the SQLite, MySQL and PostgreSQL back     *)
(* ends), and the question the server asks of them,                        *)
(* acl_check_user_group().                                                 *)
(*                                                                         *)
(* A run of the tool checks with one SELECT per argument that what it      *)
(* names exists (or, to create it, does not), and then executes the        *)
(* statements its back end has for the command.  Each query is a step and  *)
(* a transaction of its own; a run that fails or is interrupted stays      *)
(* where it is.  The statements are data here: what a back end does is the *)
(* list of its statements and the keys its schema declares.                *)
(***************************************************************************)
EXTENDS Naturals, Sequences

CONSTANTS
    Admin,       \* runs of the tool that can be under way at the same time
    User, Role, Group,
    Engines,     \* database engines to consider
    MayOverlap,  \* the engines with which runs of the tool may overlap
    MaxOps       \* bound: runs that are started

Engine == {"sqlite3", "mysql", "postgres"}

ASSUME AdminAssumption ==
    /\ MaxOps \in Nat
    /\ Engines \subseteq Engine

VARIABLES
    dbase,       \* the configured engine
    users,       \* table users, primary key name
    roles,       \* table roles
    rows,        \* rows of table newsgroups by name
    aclUsers,    \* table acl_users, primary key (username, ng)
    users2roles, \* table users2roles, primary key (username, role)
    aclRoles,    \* table acl_roles, primary key (role, ng)
    job,         \* what each run is doing
    ops          \* runs started so far

tables == <<users, roles, rows, aclUsers, users2roles, aclRoles>>
vars   == <<dbase, tables, job, ops>>

Creating  == {"addgroup", "adduser", "addaclrole"}
Deleting  == {"delgroup", "deluser", "delaclrole"}
Linking   == {"addacluser", "rolegroupconnect", "roleuserconnect"}
Unlinking == {"delacluser", "rolegroupdisconnect", "roleuserdisconnect"}
Op == Creating \cup Deleting \cup Linking \cup Unlinking

\* The kinds of the arguments whose existence main() checks, in its order.
Args(op) ==
    CASE op \in {"addgroup", "delgroup"}                  -> <<"group">>
      [] op \in {"adduser", "deluser"}                    -> <<"user">>
      [] op \in {"addaclrole", "delaclrole"}              -> <<"role">>
      [] op \in {"addacluser", "delacluser"}              -> <<"user", "group">>
      [] op \in {"rolegroupconnect", "rolegroupdisconnect"} -> <<"role", "group">>
      [] op \in {"roleuserconnect", "roleuserdisconnect"} -> <<"role", "user">>

Arity(op) == Len(Args(op))

Job == [pc : {"idle", "check", "exec"}, k : 1..3, op : Op,
        u : User, r : Role, g : Group]

\* The database as the schemas under database/ create it.
Init ==
    /\ dbase \in Engines
    /\ users = {} /\ roles = {} /\ rows = [g \in Group |-> 0]
    /\ aclUsers = {} /\ users2roles = {} /\ aclRoles = {}
    /\ job \in [Admin -> {j \in Job : j.pc = "idle" /\ j.k = 1 /\ j.op = "adduser"}]
    /\ ops = 0

-----------------------------------------------------------------------------
(* The statements of the back ends.  WHERE names the arguments compared.    *)

Insert(t)        == [verb |-> "insert", table |-> t, where |-> {}]
Delete(t, where) == [verb |-> "delete", table |-> t, where |-> where]
\* A statement whose number of parameters is not the one it is called with.
Malformed(t)     == [verb |-> "malformed", table |-> t, where |-> {}]

\* SQLite.  delgroup has two more statements, on the articles (see Posting).
SqliteNewsgroup ==
    [addgroup |-> <<Insert("newsgroups")>>,
     delgroup |-> <<Delete("acl_users", {"group"}), Delete("acl_roles", {"group"}),
                    Delete("newsgroups", {"group"})>>]

\* Mutant: the associations of the user are forgotten.
SqliteUserOnly ==
    [adduser |-> <<Insert("users")>>, deluser |-> <<Delete("users", {"user"})>>]

SqliteUser ==
    [adduser |-> <<Insert("users")>>,
     deluser |-> <<Delete("acl_users", {"user"}), Delete("users2roles", {"user"}),
                   Delete("users", {"user"})>>]

SqliteRole ==
    [addaclrole |-> <<Insert("roles")>>,
     delaclrole |-> <<Delete("users2roles", {"role"}), Delete("acl_roles", {"role"}),
                      Delete("roles", {"role"})>>]

SqliteAclUser ==
    [addacluser |-> <<Insert("acl_users")>>,
     delacluser |-> <<Delete("acl_users", {"user", "group"})>>]

SqliteRoleGroup ==
    [rolegroupconnect |-> <<Insert("acl_roles")>>,
     rolegroupdisconnect |-> <<Delete("acl_roles", {"role", "group"})>>]

SqliteRoleUser ==
    [roleuserconnect |-> <<Insert("users2roles")>>,
     roleuserdisconnect |-> <<Delete("users2roles", {"user", "role"})>>]

\* MySQL executes the same statements, on a schema with foreign keys.
MysqlNewsgroup ==
    [addgroup |-> <<Insert("newsgroups")>>,
     delgroup |-> <<Delete("acl_users", {"group"}), Delete("acl_roles", {"group"}),
                    Delete("newsgroups", {"group"})>>]

MysqlUser ==
    [adduser |-> <<Insert("users")>>,
     deluser |-> <<Delete("acl_users", {"user"}), Delete("users2roles", {"user"}),
                   Delete("users", {"user"})>>]

MysqlRole ==
    [addaclrole |-> <<Insert("roles")>>,
     delaclrole |-> <<Delete("users2roles", {"role"}), Delete("acl_roles", {"role"}),
                      Delete("roles", {"role"})>>]

MysqlAclUser ==
    [addacluser |-> <<Insert("acl_users")>>,
     delacluser |-> <<Delete("acl_users", {"user", "group"})>>]

MysqlRoleGroup ==
    [rolegroupconnect |-> <<Insert("acl_roles")>>,
     rolegroupdisconnect |-> <<Delete("acl_roles", {"role", "group"})>>]

MysqlRoleUser ==
    [roleuserconnect |-> <<Insert("users2roles")>>,
     roleuserdisconnect |-> <<Delete("users2roles", {"user", "role"})>>]

\* PostgreSQL leaves the associations to the cascades of its schema.
PostgresNewsgroup ==
    [addgroup |-> <<Insert("newsgroups")>>,
     delgroup |-> <<Delete("newsgroups", {"group"})>>]

PostgresUser ==
    [adduser |-> <<Insert("users")>>, deluser |-> <<Delete("users", {"user"})>>]

PostgresRole ==
    [addaclrole |-> <<Insert("roles")>>,
     delaclrole |-> <<Delete("roles", {"role"})>>]

PostgresAclUser ==
    [addacluser |-> <<Insert("acl_users")>>,
     delacluser |-> <<Delete("acl_users", {"user", "group"})>>]

\* The DELETE names its two parameters '%s' instead of $1 and $2.
PostgresRoleGroup ==
    [rolegroupconnect |-> <<Insert("acl_roles")>>,
     rolegroupdisconnect |-> <<Malformed("acl_roles")>>]

PostgresRoleUser ==
    [roleuserconnect |-> <<Insert("users2roles")>>,
     roleuserdisconnect |-> <<Delete("users2roles", {"user", "role"})>>]

\* db_abstraction.c: the switch over dbase in each function.
OfEngine(sqlite3, mysql, postgres) ==
    CASE dbase = "sqlite3" -> sqlite3
      [] dbase = "mysql"   -> mysql
      [] OTHER             -> postgres

Newsgroup == OfEngine(SqliteNewsgroup, MysqlNewsgroup, PostgresNewsgroup)
User_     == OfEngine(SqliteUser, MysqlUser, PostgresUser)
AclRole   == OfEngine(SqliteRole, MysqlRole, PostgresRole)
AclUser   == OfEngine(SqliteAclUser, MysqlAclUser, PostgresAclUser)
RoleGroup == OfEngine(SqliteRoleGroup, MysqlRoleGroup, PostgresRoleGroup)
RoleUser  == OfEngine(SqliteRoleUser, MysqlRoleUser, PostgresRoleUser)

Statements(op) ==
    CASE op \in {"addgroup", "delgroup"}                    -> Newsgroup[op]
      [] op \in {"adduser", "deluser"}                      -> User_[op]
      [] op \in {"addaclrole", "delaclrole"}                -> AclRole[op]
      [] op \in {"addacluser", "delacluser"}                -> AclUser[op]
      [] op \in {"rolegroupconnect", "rolegroupdisconnect"} -> RoleGroup[op]
      [] op \in {"roleuserconnect", "roleuserdisconnect"}   -> RoleUser[op]

\* A run stands at one of its arguments, or at one of its statements.
JobOK(j) ==
    /\ j.pc = "check" => j.k \in 1..Arity(j.op)
    /\ j.pc = "exec" => j.k \in 1..Len(Statements(j.op))

\* The types of the state.
TypeOK ==
    /\ dbase \in Engines
    /\ users \subseteq User
    /\ roles \subseteq Role
    /\ rows \in [Group -> Nat]
    /\ aclUsers \subseteq User \X Group
    /\ users2roles \subseteq User \X Role
    /\ aclRoles \subseteq Role \X Group
    /\ job \in [Admin -> Job]
    /\ \A a \in Admin : JobOK(job[a])
    /\ ops \in Nat

-----------------------------------------------------------------------------
(* The runs *)

groups == {g \in Group : rows[g] > 0}

\* db_check_user_existence(), db_check_role_existence() and
\* db_check_newsgroup_existence() on every back end.
UserExists(j)  == j.u \in users
RoleExists(j)  == j.r \in roles
GroupExists(j) == j.g \in groups

Exists(kind, j) ==
    CASE kind = "user"  -> UserExists(j)
      [] kind = "role"  -> RoleExists(j)
      [] kind = "group" -> GroupExists(j)

\* The next statement, or the end of the run.
Advance(a) == job' = [job EXCEPT ![a].k = job[a].k + 1]
Done(a)    == job' = [job EXCEPT ![a].pc = "idle"]

\* The administrators agree on one run at a time, but for MayOverlap.
Start(a) ==
    /\ job[a].pc = "idle"
    /\ dbase \in MayOverlap \/ \A b \in Admin : job[b].pc = "idle"
    /\ ops < MaxOps
    /\ ops' = ops + 1
    /\ \E op \in Op, u \in User, r \in Role, g \in Group :
          job' = [job EXCEPT ![a] = [pc |-> "check", k |-> 1, op |-> op,
                                     u |-> u, r |-> r, g |-> g]]
    /\ UNCHANGED <<dbase, tables>>

\* Mutant: what is to be created may exist.
PassesExisting(j) == j.op \in Creating \/ Exists(Args(j.op)[j.k], j)

\* exit_if_..._exists() and exit_if_..._not_exists().
Passes(j) == Exists(Args(j.op)[j.k], j) <=> j.op \notin Creating

Check(a) ==
    /\ job[a].pc = "check"
    /\ \/ Passes(job[a]) /\ job[a].k < Arity(job[a].op) /\ Advance(a)
       \/ /\ Passes(job[a]) /\ job[a].k = Arity(job[a].op)
          /\ job' = [job EXCEPT ![a].pc = "exec", ![a].k = 1]
       \/ ~Passes(job[a]) /\ Done(a)
    /\ UNCHANGED <<dbase, tables, ops>>

-----------------------------------------------------------------------------
(* Executing a statement *)

\* Mutant: the MySQL tables as MyISAM would keep them.
ForeignKeysPostgres == dbase = "postgres"

\* The schemas of MySQL and PostgreSQL; SQLite's declares none.
ForeignKeys == dbase \in {"mysql", "postgres"}

Arg(j, kind) ==
    CASE kind = "user"  -> j.u
      [] kind = "role"  -> j.r
      [] kind = "group" -> j.g

\* What the columns of the association tables refer to.
Parents(t) ==
    CASE t = "acl_users"   -> {"user", "group"}
      [] t = "users2roles" -> {"user", "role"}
      [] t = "acl_roles"   -> {"role", "group"}
      [] OTHER             -> {}

\* Only PostgreSQL declares the name of a newsgroup unique.
UniqueNames == dbase = "postgres"

\* The database refuses the statement.  (A duplicate primary key is refused
\* too; that leaves the table as the union in After() does, and an INSERT is
\* the last statement of its command.)
Refused(s, j) ==
    \/ s.verb = "malformed"
    \/ /\ s.verb = "insert" /\ ForeignKeys
       /\ \E kind \in Parents(s.table) : ~Exists(kind, j)
    \/ s = Insert("newsgroups") /\ UniqueNames /\ GroupExists(j)

\* ON DELETE CASCADE: the row that a kind of column refers to is deleted.
Cascades(s, kind) ==
    /\ ForeignKeys
    /\ s = Delete(CASE kind = "user" -> "users" [] kind = "role" -> "roles"
                    [] kind = "group" -> "newsgroups", {kind})

\* The statement deletes x from table t, whose columns are k1 and k2.
Removes(s, j, t, k1, k2, x) ==
    \/ /\ s.verb = "delete" /\ s.table = t
       /\ k1 \in s.where => x[1] = Arg(j, k1)
       /\ k2 \in s.where => x[2] = Arg(j, k2)
    \/ Cascades(s, k1) /\ x[1] = Arg(j, k1)
    \/ Cascades(s, k2) /\ x[2] = Arg(j, k2)

\* The association table t, with contents T, after the statement.
After(s, j, t, T, k1, k2) ==
    IF s = Insert(t) THEN T \cup {<<Arg(j, k1), Arg(j, k2)>>}
                     ELSE {x \in T : ~Removes(s, j, t, k1, k2, x)}

\* The tables users and roles, and the rows of newsgroups of one name.
NamesAfter(s, t, T, x) ==
    CASE s.table = t /\ s.verb = "insert" -> T \cup {x}
      [] s.table = t /\ s.verb = "delete" -> T \ {x}
      [] OTHER -> T

RowsAfter(s, j) ==
    CASE s.table = "newsgroups" /\ s.verb = "insert" ->
            [rows EXCEPT ![j.g] = rows[j.g] + 1]
      [] s.table = "newsgroups" /\ s.verb = "delete" -> [rows EXCEPT ![j.g] = 0]
      [] OTHER -> rows

Apply(s, j) ==
    /\ users' = NamesAfter(s, "users", users, j.u)
    /\ roles' = NamesAfter(s, "roles", roles, j.r)
    /\ rows' = RowsAfter(s, j)
    /\ aclUsers' = After(s, j, "acl_users", aclUsers, "user", "group")
    /\ users2roles' = After(s, j, "users2roles", users2roles, "user", "role")
    /\ aclRoles' = After(s, j, "acl_roles", aclRoles, "role", "group")

\* The statement the run is at.
Current(a) == Statements(job[a].op)[job[a].k]

Execute(a) ==
    /\ job[a].pc = "exec"
    /\ \/ Refused(Current(a), job[a]) /\ Done(a) /\ UNCHANGED tables
       \/ /\ ~Refused(Current(a), job[a])
          /\ Apply(Current(a), job[a])
          /\ IF job[a].k < Len(Statements(job[a].op)) THEN Advance(a) ELSE Done(a)
    /\ UNCHANGED <<dbase, ops>>

\* A query fails, or the tool is interrupted: it exits.
Exits(a) ==
    /\ job[a].pc # "idle"
    /\ Done(a)
    /\ UNCHANGED <<dbase, tables, ops>>

Next == \E a \in Admin : Start(a) \/ Check(a) \/ Execute(a) \/ Exits(a)

Spec == Init /\ [][Next]_vars

-----------------------------------------------------------------------------
(* Properties *)

\* acl_check_user_group(): an entry of the user's own ...
DirectAccess(u, g) == <<u, g>> \in aclUsers

\* ... or one of a role he is a member of.
RoleAccess(u, g) ==
    \E r \in Role : <<u, r>> \in users2roles /\ <<r, g>> \in aclRoles

Access(u, g) == DirectAccess(u, g) \/ RoleAccess(u, g)

\* The associations refer to users, roles and newsgroups that exist.  SQLite
\* leaves this to the checks of main() and the order of the DELETEs, and it
\* holds while runs do not overlap; PostgreSQL deletes no association and
\* relies on its foreign keys, which hold among overlapping runs too.
AclIntegrity ==
    /\ aclUsers \subseteq users \X groups
    /\ users2roles \subseteq users \X roles
    /\ aclRoles \subseteq roles \X groups

\* A newsgroup has one row, however runs of the tool were interrupted; only
\* on MySQL, where the name is not unique and its INSERT not conditional, two
\* overlapping runs can create it twice.
OneRow ==
    ~(dbase = "mysql" /\ dbase \in MayOverlap) => \A g \in Group : rows[g] <= 1

\* A user or a newsgroup that is created has no access from an earlier life:
\* a deletion that was interrupted half-way has left nothing to inherit.
NoInheritedAccess ==
    [][\A u \in User, g \in Group :
          Access(u, g)' => /\ u \in users' => u \in users
                           /\ g \in groups' => g \in groups]_vars

\* Where runs do not overlap, the tool has checked what it is going to link,
\* and has deleted the associations of what it is going to delete.
JobInv(a) ==
    LET j == job[a] IN
    j.pc = "exec" =>
        /\ j.op = "addgroup" => j.g \notin groups
        /\ j.op = "addacluser" => j.u \in users /\ j.g \in groups
        /\ j.op = "rolegroupconnect" => j.r \in roles /\ j.g \in groups
        /\ j.op = "roleuserconnect" => j.r \in roles /\ j.u \in users
        /\ j.op = "deluser" =>
              /\ j.k >= 2 => \A x \in aclUsers : x[1] # j.u
              /\ j.k >= 3 => \A x \in users2roles : x[1] # j.u
        /\ j.op = "delaclrole" =>
              /\ j.k >= 2 => \A x \in users2roles : x[2] # j.r
              /\ j.k >= 3 => \A x \in aclRoles : x[1] # j.r
        /\ j.op = "delgroup" =>
              /\ j.k >= 2 => \A x \in aclUsers : x[2] # j.g
              /\ j.k >= 3 => \A x \in aclRoles : x[2] # j.g

\* While the second argument is checked, the first one has been found.
CheckInv(a) ==
    LET j == job[a] IN
    j.pc = "check" /\ j.k = 2 => Exists(Args(j.op)[1], j)

\* Where runs do not overlap, at most one is under way.
Alone ==
    \A a, b \in Admin : job[a].pc # "idle" /\ job[b].pc # "idle" => a = b

AdminInv ==
    /\ AclIntegrity
    /\ OneRow
    /\ dbase \notin MayOverlap =>
          Alone /\ \A a \in Admin : JobInv(a) /\ CheckInv(a)
=============================================================================
