-------------------------------- MODULE Accounts --------------------------------
(***************************************************************************)
(* Accounts, invitations and refresh tokens: AuthService, and what         *)
(* UsersService does for administrators.                                   *)
(*                                                                         *)
(* What makes an account checks its address and its role first, hashes the *)
(* password, and then makes the user, the role, the acceptance and the     *)
(* token in one transaction, which a unique or a foreign key may refuse.   *)
(* An administrator is authorised when the request arrives and writes      *)
(* later.  "snags" of this module: "rename" lets administrators change     *)
(* addresses, "rival" lets their requests overlap and be about themselves. *)
(*                                                                         *)
(* Left out: passwords, profiles, mails, departments; the time an access   *)
(* token lasts; the roles and permissions given later, which are           *)
(* AccessControl's: here only the seed's administrators are allowed to     *)
(* invite, to change users and to delete roles, while their role is there. *)
(*                                                                         *)
(* A definition marked "Fault" is no part of the model: it is the          *)
(* definition after it with a mistake, which the properties must notice.   *)
(***************************************************************************)
EXTENDS Naturals, FiniteSets

CONSTANTS
    People,         \* who registers, or accepts; the accounts have numbers
    Emails,         \* addresses, as they are written
    LowerCase,      \* an address as inviteUser writes it
    InvitedRoles,   \* roles to invite for
    MaxAccounts,    \* bound
    MaxInvitations, \* bound
    MaxSeconds,     \* bound: of the clock
    AccountSnags    \* the sets of mishaps to look at

ASSUME AccountsAssumption == LowerCase \in [Emails -> Emails]
ASSUME RolesAssumption == "none" \notin InvitedRoles
ASSUME MaxSecondsAssumption == MaxSeconds \in Nat

VARIABLES
    accounts,       \* users: email, account_status, roles; what made it
    invitations,    \* email, role_id, accepted_at is set, expired
    tokens,         \* refresh_tokens: whose, and the second that is signed in it
    roleRows,       \* the rows of roles
    joining,        \* the requests that make accounts
    changing,       \* the requests of administrators
    second,
    snags           \* the mishaps

accountVars == <<accounts, invitations, tokens, roleRows, joining, changing, second, snags>>

Administrators == {1, 2}
NotJoining == [at |-> "idle", email |-> "none", invitation |-> 0, role |-> "none"]
NotChanging == [at |-> "idle", user |-> 0, status |-> "none"]
UserIds == DOMAIN accounts
FindByEmail(email) == {u \in UserIds : accounts[u].email = email}
RowOf(f, x) == [i \in 1..(Cardinality(DOMAIN f) + 1) |-> IF i \in DOMAIN f THEN f[i] ELSE x]

\* generateTokens: a refresh token is signed for whom and when, in seconds, without anything
\* random.
Token(u) == <<u, second>>

\* JwtStrategy.validate: the account as it is now, whatever it was when the token was signed.
Validate(u) == u \in UserIds /\ accounts[u].status = "active"

\* AccessGuard: the roles as they are now.
Authorised(a) == Validate(a) /\ "SYSTEM_ADMIN" \in accounts[a].roles

-----------------------------------------------------------------------------
(* register and acceptInvitation *)

\* What the invitation's page is shown; nothing for an invitation that is of no use.
GetInvitationDetails(i) ==
    {d \in {invitations[i]} : ~d.accepted /\ ~d.expired /\ d.role # "none"}

Register(p, email) ==
    /\ joining[p] = NotJoining
    /\ FindByEmail(email) = {}
    /\ "STUDENT" \in roleRows
    /\ joining' = [joining EXCEPT ![p] = [at |-> "make", email |-> email, invitation |-> 0,
                                          role |-> "STUDENT"]]
    /\ UNCHANGED <<accounts, invitations, tokens, roleRows, changing, second, snags>>

AcceptInvitation(p, i) ==
    /\ joining[p] = NotJoining
    /\ \E d \in GetInvitationDetails(i) :
        /\ FindByEmail(d.email) = {}
        /\ joining' = [joining EXCEPT ![p] = [at |-> "make", email |-> d.email, invitation |-> i,
                                              role |-> d.role]]
    /\ UNCHANGED <<accounts, invitations, tokens, roleRows, changing, second, snags>>

\* The account, its role, the acceptance and its first token.
Made(p, roles) ==
    LET j == joining[p]
        u == Cardinality(UserIds) + 1
    IN  /\ j.at = "make"
        /\ u <= MaxAccounts
        /\ FindByEmail(j.email) = {}
        /\ accounts' = RowOf(accounts,
               [email |-> j.email, roles |-> roles, by |-> j.invitation,
                status |-> IF j.invitation = 0 THEN "deactive" ELSE "active"])
        /\ invitations' = [i \in DOMAIN invitations |->
               IF i = j.invitation THEN [invitations[i] EXCEPT !.accepted = TRUE]
               ELSE invitations[i]]
        /\ tokens' = tokens \cup {Token(u)}
        /\ joining' = [joining EXCEPT ![p] = NotJoining]
        /\ UNCHANGED <<roleRows, changing, second, snags>>

\* Fault: without the transaction, the server stops before the role is given.
MakeAccountFirst(p) == joining[p].role \in roleRows /\ \E roles \in {{}, {joining[p].role}} : Made(p, roles)

\* The transaction, if the keys of users and user_roles allow it.
MakeAccount(p) ==
    /\ joining[p].role \in roleRows
    /\ Made(p, {joining[p].role})

\* They do not, or the server stops: nothing is left of it.
FailToJoin(p) ==
    /\ joining[p] # NotJoining
    /\ joining' = [joining EXCEPT ![p] = NotJoining]
    /\ UNCHANGED <<accounts, invitations, tokens, roleRows, changing, second, snags>>

\* login: whatever the status.  refresh_tokens.token is unique.
Login(u) ==
    /\ Token(u) \notin tokens
    /\ tokens' = tokens \cup {Token(u)}
    /\ UNCHANGED <<accounts, invitations, roleRows, joining, changing, second, snags>>

Tick ==
    /\ second < MaxSeconds
    /\ second' = second + 1
    /\ UNCHANGED <<accounts, invitations, tokens, roleRows, joining, changing, snags>>

-----------------------------------------------------------------------------
(* Administrators *)

\* inviteUser: the addresses in use are searched as they are written.
InviteUser(a, email, role) ==
    /\ Authorised(a)
    /\ Cardinality(DOMAIN invitations) < MaxInvitations
    /\ FindByEmail(LowerCase[email]) = {}
    /\ role \in roleRows
    /\ invitations' = RowOf(invitations, [email |-> LowerCase[email], role |-> role,
                                          accepted |-> FALSE, expired |-> FALSE])
    /\ UNCHANGED <<accounts, tokens, roleRows, joining, changing, second, snags>>

Expire(i) ==
    /\ ~invitations[i].expired
    /\ invitations' = [invitations EXCEPT ![i].expired = TRUE]
    /\ UNCHANGED <<accounts, tokens, roleRows, joining, changing, second, snags>>

\* updateUserStatus: the administrator is authorised and the user found.
UpdateUserStatus(a, u, status) ==
    /\ Authorised(a)
    /\ changing[a] = NotChanging
    /\ "rival" \in snags \/ (a # u /\ \A b \in Administrators : changing[b] = NotChanging)
    /\ changing' = [changing EXCEPT ![a] = [at |-> "status", user |-> u, status |-> status]]
    /\ UNCHANGED <<accounts, invitations, tokens, roleRows, joining, second, snags>>

SetStatus(a) ==
    LET c == changing[a]
    IN  /\ c.at = "status"
        /\ accounts' = [accounts EXCEPT ![c.user].status = c.status]
        /\ changing' = [changing EXCEPT ![a] = NotChanging]
        /\ UNCHANGED <<invitations, tokens, roleRows, joining, second, snags>>

\* updateUserByAdmin, of an address
UpdateUserByAdmin(a, u, email) ==
    /\ "rename" \in snags
    /\ Authorised(a)
    /\ FindByEmail(email) = {}
    /\ accounts' = [accounts EXCEPT ![u].email = email]
    /\ UNCHANGED <<invitations, tokens, roleRows, joining, changing, second, snags>>

\* deleteRole: any, also the administrators'; user_roles goes with it, and invitations lose it.
DeleteRoleRow(a, role) ==
    /\ Authorised(a)
    /\ role \in roleRows
    /\ roleRows' = roleRows \ {role}
    /\ accounts' = [u \in UserIds |-> [accounts[u] EXCEPT !.roles = @ \ {role}]]
    /\ invitations' = [i \in DOMAIN invitations |->
           IF invitations[i].role = role THEN [invitations[i] EXCEPT !.role = "none"]
           ELSE invitations[i]]
    /\ UNCHANGED <<tokens, joining, changing, second, snags>>

-----------------------------------------------------------------------------

\* As the seed makes it, with a second administrator.
AccountsInit ==
    /\ accounts = [u \in Administrators |->
           [email |-> IF u = 1 THEN "admin" ELSE "deputy", status |-> "active",
            roles |-> {"SYSTEM_ADMIN"}, by |-> 0]]
    /\ invitations = << >>
    /\ tokens = Administrators \X (0..MaxSeconds)     \* they log in all the time
    /\ roleRows = InvitedRoles \cup {"STUDENT", "SYSTEM_ADMIN"}
    /\ joining = [p \in People |-> NotJoining]
    /\ changing = [a \in Administrators |-> NotChanging]
    /\ second = 0
    /\ snags \in AccountSnags

JoinNext ==
    \/ Tick
    \/ \E p \in People :
        \/ \E email \in Emails : Register(p, email)
        \/ \E i \in DOMAIN invitations : AcceptInvitation(p, i)
        \/ MakeAccount(p)
        \/ FailToJoin(p)
    \/ \E u \in UserIds : Login(u)
    \/ \E i \in DOMAIN invitations : Expire(i)
    \/ \E a \in Administrators :
        \/ \E email \in Emails, role \in InvitedRoles : InviteUser(a, email, role)
        \/ \E u \in UserIds, email \in Emails : UpdateUserByAdmin(a, u, email)
        \/ \E role \in roleRows : DeleteRoleRow(a, role)

StatusNext ==
    \E a \in Administrators :
        \/ \E u \in UserIds, status \in {"active", "suspended"} : UpdateUserStatus(a, u, status)
        \/ SetStatus(a)

AccountsNext == JoinNext \/ StatusNext

AccountsSpec == AccountsInit /\ [][AccountsNext]_accountVars
=============================================================================
