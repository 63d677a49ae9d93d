------------------------------ MODULE Accounts ------------------------------
(***************************************************************************)
(* Accounts and friends: the handlers UserMake, UserEnter, FriendAdd and    *)
(* FriendDelete of Server/BusinessService.cpp over the tables cso_id,       *)
(* cso_relation and cso_login that Server/Dao.cpp reads and writes.         *)
(*                                                                          *)
(* Dao holds its lock for one statement, so a handler that selects and then *)
(* inserts is two steps, with what it has selected in inserting.  The       *)
(* database is external: it has the primary keys of chatTable.sql (userid,  *)
(* the pair of a relation, userid and date of a login) and refuses a second *)
(* row with an error.  A nickname is not a key, and dates are coarse:       *)
(* several statements may be executed at one getdate().                     *)
(*                                                                          *)
(* Texts are cut on their way.  Vo::setUserId and UserVo::setPassword copy  *)
(* 10 bytes (and a password of 10 is not terminated, so that the statement  *)
(* may fail), and a column that is bound to a char[10] is read back as its  *)
(* first 9.  setNickName cuts what is stored and what is looked up alike;   *)
(* Nicks are what is left.                                                  *)
(***************************************************************************)
EXTENDS Naturals

CONSTANTS
  Callers,    \* the WorkThreads, which call Dao
  Ids,        \* texts that clients give as ids
  Passwords,  \* and as passwords
  Cut10,      \* the first 10 bytes of a text
  Cut9,       \* the first 9
  Nicks,      \* nicknames
  MaxDate,    \* bound: dates are 0 .. MaxDate
  None        \* no account, no date

ASSUME AccountsAssumption ==
  /\ \A t \in Ids : Cut10[t] \in Ids /\ Cut9[t] \in Ids
  /\ \A t \in Passwords : Cut10[t] \in Passwords /\ Cut9[t] \in Passwords
  /\ None \notin Passwords \X Nicks
  /\ MaxDate \in Nat /\ None \notin 0 .. MaxDate

VARIABLES
  cso_id,        \* password and nickname of every account
  lastlogdate,   \* cso_id's column of that name
  cso_login,     \* the pairs (userid, logindate)
  now,           \* getdate()
  cso_relation,  \* the pairs (relationfrom, relationto) with relationcode 1
  stepOf,        \* the next step of each thread
  inserting,     \* what the thread's handler is about to insert
  created,       \* history: the ids, passwords and nicknames clients gave for the
                 \* accounts they were told are made
  entered,       \* history: ids and passwords that were let in
  friends        \* history: the friends users were told they have

logins == <<lastlogdate, cso_login>>
history == <<created, entered, friends>>
accountsVars == <<cso_id, cso_relation, logins, now, stepOf, inserting, history>>
tables == <<cso_id, cso_relation>>

Account == Passwords \X Nicks
Dates == 0 .. MaxDate
Exists(id) == cso_id[id] # None
Named(nick) == {id \in Ids : Exists(id) /\ cso_id[id][2] = nick}
Ambiguous(nick) == \E a, b \in Named(nick) : a # b

(* The friends FriendInfo shows to a user: relations joined with cso_id.     *)
selectFriends(from) == {to \in Ids : <<from, to>> \in cso_relation /\ Exists(to)}

(* The ids under which the users of sessions are stored.                     *)
Users == {Cut10[e[1]] : e \in entered}

AccountsTypeOK ==
  /\ cso_id \in [Ids -> Account \cup {None}]
  /\ cso_relation \subseteq Ids \X Ids
  /\ lastlogdate \in [Ids -> Dates \cup {None}]
  /\ cso_login \subseteq Ids \X Dates
  /\ now \in Dates
  /\ stepOf \in [Callers -> {"idle", "insertUser", "updateUser", "insertLogin", "insertRelation"}]
  /\ \A w \in Callers :
       /\ stepOf[w] = "insertUser" => inserting[w] \in Ids \X Account
       /\ stepOf[w] \in {"updateUser", "insertLogin"} => inserting[w] \in Ids
       /\ stepOf[w] = "insertRelation" => inserting[w] \in Ids \X Ids
  /\ created \subseteq Ids \X Account
  /\ entered \subseteq Ids \X Passwords
  /\ friends \subseteq Ids \X Ids

AccountsInit ==
  /\ cso_id = [id \in Ids |-> None]
  /\ cso_relation = {}
  /\ lastlogdate = [id \in Ids |-> None]
  /\ cso_login = {} /\ now = 0
  /\ stepOf = [w \in Callers |-> "idle"]
  /\ inserting = [w \in Callers |-> None]
  /\ created = {} /\ entered = {} /\ friends = {}

Goto(w, label, x) ==
  /\ stepOf' = [stepOf EXCEPT ![w] = label]
  /\ inserting' = [inserting EXCEPT ![w] = x]

-----------------------------------------------------------------------------
(* UserMake: selectUser, and InsertUser if there is no such account.         *)
UserMake(w, id, account) ==
  /\ stepOf[w] = "idle"
  /\ \/ ~Exists(Cut10[id]) /\ Goto(w, "insertUser", <<id, account>>)
     \/ Exists(Cut10[id]) /\ UNCHANGED <<stepOf, inserting>>
  /\ UNCHANGED <<tables, logins, now, history>>

(* An account as the table has it.                                           *)
StoredAccount(account) == <<Cut10[account[1]], account[2]>>

(* Mutants: the parameters are bound in the wrong order; an account that     *)
(* exists is overwritten.                                                    *)
StoreUserSwapped(id, account) ==
  \/ ~Exists(Cut10[id]) /\ cso_id' = [cso_id EXCEPT ![Cut10[id]] = <<account[2], Cut10[account[1]]>>]
  \/ UNCHANGED cso_id

StoreUserOverwrites(id, account) == cso_id' = [cso_id EXCEPT ![Cut10[id]] = StoredAccount(account)]

(* The insert statement.  It fails if the account exists, and may fail for   *)
(* any other reason.                                                         *)
StoreUser(id, account) ==
  \/ ~Exists(Cut10[id]) /\ cso_id' = [cso_id EXCEPT ![Cut10[id]] = StoredAccount(account)]
  \/ UNCHANGED cso_id

(* InsertUser has no result: the client is told that the account is made,    *)
(* with the id as it gave it.                                                *)
InsertUser(w) ==
  /\ stepOf[w] = "insertUser"
  /\ StoreUser(inserting[w][1], inserting[w][2])
  /\ created' = created \cup {inserting[w]}
  /\ Goto(w, "idle", None)
  /\ UNCHANGED <<cso_relation, logins, now, entered, friends>>

(* selectUser finds the account and reads this password back.                *)
LetsIn(id, password) == Exists(Cut10[id]) /\ Cut9[cso_id[Cut10[id]][1]] = password

(* UserEnter: selectUser and the password check.  Then InitUser, unless      *)
(* idSet has the id already (BusinessService has idSet and the session).     *)
UserEnter(w, id, password) ==
  /\ stepOf[w] = "idle"
  /\ \/ /\ LetsIn(id, password)
        /\ entered' = entered \cup {<<id, password>>}
        /\ Goto(w, "updateUser", Cut10[id]) \/ UNCHANGED <<stepOf, inserting>>
     \/ /\ ~LetsIn(id, password)
        /\ UNCHANGED <<entered, stepOf, inserting>>
  /\ UNCHANGED <<tables, logins, now, created, friends>>

(* InitUser's first statement sets the date of the last login.               *)
UpdateUser(w) ==
  /\ stepOf[w] = "updateUser"
  /\ lastlogdate' = [lastlogdate EXCEPT ![inserting[w]] = now]
  /\ Goto(w, "insertLogin", inserting[w])
  /\ UNCHANGED <<tables, cso_login, now, history>>

(* Mutant: the key is the user alone, so that later logins are refused.      *)
InsertLoginOnce(w) ==
  /\ stepOf[w] = "insertLogin"
  /\ cso_login' = IF \E date \in Dates : <<inserting[w], date>> \in cso_login
                    THEN cso_login ELSE cso_login \cup {<<inserting[w], now>>}
  /\ Goto(w, "idle", None)
  /\ UNCHANGED <<tables, lastlogdate, now, history>>

(* The second adds a row of its own date; of two at one date the key refuses *)
(* the second, and InsertLogin has no result.                                *)
InsertLogin(w) ==
  /\ stepOf[w] = "insertLogin"
  /\ cso_login' = cso_login \cup {<<inserting[w], now>>}
  /\ Goto(w, "idle", None)
  /\ UNCHANGED <<tables, lastlogdate, now, history>>

-----------------------------------------------------------------------------
(* FriendAdd: findUserId gives some account with the nickname.               *)
FriendAdd(w, from, nick) ==
  /\ stepOf[w] = "idle" /\ from \in Users
  /\ \/ \E to \in Named(nick) : Goto(w, "insertRelation", <<from, to>>)
     \/ Named(nick) = {} /\ UNCHANGED <<stepOf, inserting>>
  /\ UNCHANGED <<tables, logins, now, history>>

(* The row InsertRelation adds: findUserId has read the id into a char[10].  *)
NewRow(r) == <<r[1], Cut9[r[2]]>>

(* Mutant: the result of the statement is not looked at.                     *)
InsertRelationUnchecked(w) ==
  /\ stepOf[w] = "insertRelation"
  /\ cso_relation' = cso_relation \cup {NewRow(inserting[w])} \/ UNCHANGED cso_relation
  /\ friends' = friends \cup {inserting[w]}
  /\ Goto(w, "idle", None)
  /\ UNCHANGED <<cso_id, logins, now, created, entered>>

(* The statement gives -1 if the primary key refuses the row, or for another *)
(* reason, and the user is told that it failed.                              *)
InsertRelation(w) ==
  /\ stepOf[w] = "insertRelation"
  /\ \/ /\ NewRow(inserting[w]) \notin cso_relation
        /\ cso_relation' = cso_relation \cup {NewRow(inserting[w])}
        /\ friends' = friends \cup {inserting[w]}
     \/ UNCHANGED <<cso_relation, friends>>
  /\ Goto(w, "idle", None)
  /\ UNCHANGED <<cso_id, logins, now, created, entered>>

(* Mutant: the condition on relationto is missing.                           *)
DeletedRowsAll(from, nick) == {r \in cso_relation : r[1] = from}

(* The rows DeleteRelation's statement deletes.                              *)
DeletedRows(from, nick) == {r \in cso_relation : r[1] = from /\ r[2] \in Named(nick)}

(* The statement fails if the nickname has several accounts (its subquery    *)
(* must give one), or for another reason.  To delete no row is no error:     *)
(* SQL_NO_DATA is not -1.                                                    *)
FriendDelete(w, from, nick) ==
  /\ stepOf[w] = "idle" /\ from \in Users
  /\ \/ /\ ~Ambiguous(nick)
        /\ cso_relation' = cso_relation \ DeletedRows(from, nick)
        /\ friends' = {f \in friends : ~(f[1] = from /\ f[2] \in Named(nick))}
     \/ UNCHANGED <<cso_relation, friends>>
  /\ UNCHANGED <<cso_id, logins, now, stepOf, inserting, created, entered>>

-----------------------------------------------------------------------------
Tick ==
  /\ now < MaxDate
  /\ now' = now + 1
  /\ UNCHANGED <<tables, logins, stepOf, inserting, history>>

AccountsNext ==
  \/ Tick
  \/ \E w \in Callers :
       \/ \E id \in Ids, account \in Account : UserMake(w, id, account)
       \/ \E id \in Ids, password \in Passwords : UserEnter(w, id, password)
       \/ \E from \in Ids, nick \in Nicks : FriendAdd(w, from, nick) \/ FriendDelete(w, from, nick)
       \/ InsertUser(w) \/ UpdateUser(w) \/ InsertLogin(w) \/ InsertRelation(w)

AccountsSpec == AccountsInit /\ [][AccountsNext]_accountsVars

-----------------------------------------------------------------------------
(* Properties.                                                               *)

(* Whoever was let in once is still let in: the text an id was let in with   *)
(* is what selectUser reads back of the stored password, whatever accounts   *)
(* are made at the same time, also under ids that are cut to the same one.   *)
AccountsStay == \A e \in entered : LetsIn(e[1], e[2])

(* findUserId reads this id back whole, and no other account's as this one.  *)
ReadsBack(to) == Cut9[to] = to /\ \A t \in Ids : Exists(t) /\ Cut9[t] = to => t = to

(* What FriendAdd and FriendDelete have told users is what FriendInfo shows, *)
(* for friends whose id is not confused with another by the cut: two equal   *)
(* FriendAdds, or one and a FriendDelete between its two statements, leave   *)
(* the answers, the rows and the accounts in agreement.                      *)
FriendsAsTold ==
  \A from, to \in Ids :
    ReadsBack(to) => (to \in selectFriends(from) <=> <<from, to>> \in friends)

(* The login log is not behind the last-login date once nobody is logging    *)
(* in: InitUser writes the two in two statements with a date each, other     *)
(* logins of the account fall between them, and the key refuses rows.        *)
LastLoginIsLogged ==
  \A id \in Ids :
    \/ lastlogdate[id] = None
    \/ \E date \in Dates : date >= lastlogdate[id] /\ <<id, date>> \in cso_login
    \/ \E w \in Callers : stepOf[w] = "insertLogin" /\ inserting[w] = id

(* Every account is one that a client asked for and was told of, as far as   *)
(* the table keeps what it gave, and each stands for one client's request: of *)
(* two clients that make one id at once, or ids that are cut to one, both    *)
(* are told so, and the account is one of the two, never a mixture.          *)
StoredWasCreated ==
  \A id \in Ids : Exists(id) =>
    \E c \in created : Cut10[c[1]] = id /\ StoredAccount(c[2]) = cso_id[id]
=============================================================================
