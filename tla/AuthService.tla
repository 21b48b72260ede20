----------------------------- MODULE AuthService -----------------------------
(***************************************************************************)
(* register, login and refresh of the marketplace.  Each request is one    *)
(* READ COMMITTED transaction over users and refresh_tokens.  It ends by   *)
(* inserting a refresh token and committing (_issue_token_pair); a refresh *)
(* first revokes the token it was given, with an UPDATE that waits for     *)
(* whoever is revoking the same row.  No operation deletes an account or   *)
(* changes one, so the refresh of a user who is gone is left out.          *)
(***************************************************************************)
EXTENDS Naturals, FiniteSets

CONSTANTS
    Emails,         \* what clients type
    Addresses,      \* what users.email holds
    Lower,          \* email.lower()
    Passwords, Roles,
    Forms,          \* what they fill in to register and, but for the role, to log in
    Requests,       \* the HTTP requests; each inserts one refresh token at most, which
                    \* it gives its name
    NoOne           \* nobody, nothing

ASSUME AuthAssumption ==
    /\ Lower \in [Emails -> Addresses]
    /\ Forms \subseteq [email : Emails, password : Passwords, role : Roles]
    /\ NoOne \notin Addresses \cup Passwords \cup Roles \cup Requests \cup Emails

VARIABLES
    users,      \* table users: committed rows, by address
    tokens,     \* table refresh_tokens: committed rows, by the request that inserted them
    req,        \* what each request carries
    pc,         \* where it is
    answer,     \* the HTTP status it was answered with
    grant,      \* the pair of tokens it was answered with
    before      \* (history) the requests that had ended when this refresh began

vars == <<users, tokens, req, pc, answer, grant, before>>

-----------------------------------------------------------------------------
UserRows == [password : Passwords, role : Roles]

NoUser == [password |-> NoOne, role |-> NoOne]

\* parent is history: the token that was traded in.
TokenRows == [user : Addresses, parent : Requests \cup {NoOne}, revoked : BOOLEAN,
              expired : BOOLEAN]

NoToken == [user |-> NoOne, parent |-> NoOne, revoked |-> FALSE, expired |-> FALSE]

RequestRecords == [op : {"none", "register", "login", "refresh"}, email : Emails \cup {NoOne},
                   password : Passwords \cup {NoOne}, role : Roles \cup {NoOne},
                   token : Requests \cup {NoOne}]

NoRequest == [op |-> "none", email |-> NoOne, password |-> NoOne, role |-> NoOne,
              token |-> NoOne]

\* The claims of the access token, and the jti of the refresh token.
Grants == [user : Addresses, role : Roles, token : Requests]

NoGrant == [user |-> NoOne, role |-> NoOne, token |-> NoOne]

Init ==
    /\ users = [a \in Addresses |-> NoUser]
    /\ tokens = [k \in Requests |-> NoToken]
    /\ req = [r \in Requests |-> NoRequest]
    /\ pc = [r \in Requests |-> "new"]
    /\ answer = [r \in Requests |-> "none"]
    /\ grant = [r \in Requests |-> NoGrant]
    /\ before = [r \in Requests |-> {}]

\* (Here and below, the version with a prefix such as Hasty_ has a defect that the
\* properties are to notice.)

-----------------------------------------------------------------------------
Done == {r \in Requests : pc[r] = "done"}

Running == {r \in Requests : pc[r] \notin {"new", "done"}}

Stored(k) == tokens[k] # NoToken

\* The refresh tokens that clients hold; what was lost on the way nobody can present.
Handed == {grant[r].token : r \in Requests} \ {NoOne}

Address(r) == Lower[req[r].email]

Start(r, rec, label) ==
    /\ pc[r] = "new"
    /\ req' = [req EXCEPT ![r] = rec]
    /\ pc' = [pc EXCEPT ![r] = label]
    /\ before' = IF rec.op = "refresh" THEN [before EXCEPT ![r] = Done] ELSE before
    /\ UNCHANGED <<users, tokens, answer, grant>>

StartRegister(r, f) ==
    Start(r, [op |-> "register", email |-> f.email, password |-> f.password,
              role |-> f.role, token |-> NoOne], "insert")

StartLogin(r, f) ==
    Start(r, [op |-> "login", email |-> f.email, password |-> f.password,
              role |-> NoOne, token |-> NoOne], "lookup")

\* With NoOne for whatever is not a refresh JWT of this service.
StartRefresh(r, k) ==
    Start(r, [op |-> "refresh", email |-> NoOne, password |-> NoOne, role |-> NoOne,
              token |-> k], "select")

GoTo(r, label) ==
    /\ pc' = [pc EXCEPT ![r] = label]
    /\ UNCHANGED <<users, tokens, req, answer, grant, before>>

\* Answered with an error; whatever the session has written is rolled back.
Reject(r, status) ==
    /\ pc' = [pc EXCEPT ![r] = "done"]
    /\ answer' = [answer EXCEPT ![r] = status]
    /\ UNCHANGED <<users, tokens, req, grant, before>>

-----------------------------------------------------------------------------
(* What waits in the database: a row that an open transaction inserted or  *)
(* updated                                                                 *)

Inserting(a) ==
    {r \in Requests : pc[r] = "commit" /\ req[r].op = "register" /\ Address(r) = a}

Revoking(k) ==
    {r \in Requests : pc[r] = "commit" /\ req[r].op = "refresh" /\ req[r].token = k}

Hasty_AddressFree(a) == TRUE

AddressFree(a) == Inserting(a) = {}

RowFree(k) == Revoking(k) = {}

-----------------------------------------------------------------------------
Exact_Taken(r) ==
    \E q \in Requests : answer[q] = "201" /\ req[q].email = req[r].email

Taken(r) == users[Address(r)] # NoUser

\* The INSERT meets the unique index on email, after waiting for a rival's commit.
InsertUser(r) ==
    /\ pc[r] = "insert"
    /\ AddressFree(Address(r))
    /\ \/ Taken(r) /\ Reject(r, "409")
       \/ ~Taken(r) /\ GoTo(r, "commit")

Lax_Verified(r) == users[Address(r)] # NoUser

Verified(r) == /\ users[Address(r)] # NoUser
               /\ req[r].password = users[Address(r)].password

LookUpUser(r) ==
    /\ pc[r] = "lookup"
    /\ \/ ~Verified(r) /\ Reject(r, "401")
       \/ Verified(r) /\ GoTo(r, "commit")

Forgiving_Valid(k) == k \in Requests /\ Stored(k) /\ ~tokens[k].expired

Valid(k) == k \in Requests /\ Stored(k) /\ ~tokens[k].revoked /\ ~tokens[k].expired

SelectToken(r) ==
    /\ pc[r] = "select"
    /\ \/ ~Valid(req[r].token) /\ Reject(r, "401")
       \/ Valid(req[r].token) /\ GoTo(r, "revoke")

\* UPDATE ... SET revoked, flushed before the user is selected.  Its WHERE names the id
\* alone: a rival's commit does not stop it.
Revoke(r) ==
    /\ pc[r] = "revoke"
    /\ RowFree(req[r].token)
    /\ GoTo(r, "commit")

-----------------------------------------------------------------------------
(* _issue_token_pair and COMMIT                                            *)

Account(r) == IF req[r].op = "refresh" THEN tokens[req[r].token].user ELSE Address(r)

Registered(r) == [password |-> req[r].password, role |-> req[r].role]

NewUsers(r) ==
    IF req[r].op = "register" THEN [users EXCEPT ![Address(r)] = Registered(r)] ELSE users

Issued(r) == [user |-> Account(r), parent |-> req[r].token, revoked |-> FALSE,
              expired |-> FALSE]

Unrotated_NewTokens(r) == [tokens EXCEPT ![r] = Issued(r)]

NewTokens(r) ==
    [k \in Requests |-> IF k = r THEN Issued(r)
                        ELSE IF k = req[r].token THEN [tokens[k] EXCEPT !.revoked = TRUE]
                        ELSE tokens[k]]

Status(r) == IF req[r].op = "register" THEN "201" ELSE "200"

\* The answer may be lost although the transaction is committed.
Commit(r) ==
    /\ pc[r] = "commit"
    /\ users' = NewUsers(r)
    /\ tokens' = NewTokens(r)
    /\ pc' = [pc EXCEPT ![r] = "done"]
    /\ \/ /\ answer' = [answer EXCEPT ![r] = Status(r)]
          /\ grant' = [grant EXCEPT ![r] = [user |-> Account(r), token |-> r,
                                            role |-> NewUsers(r)[Account(r)].role]]
       \/ /\ answer' = [answer EXCEPT ![r] = "lost"]
          /\ UNCHANGED grant
    /\ UNCHANGED <<req, before>>

\* The process dies or the connection breaks before the commit.
Fail(r) == r \in Running /\ Reject(r, "500")

\* refresh_token_expire_days have passed.  The JWT's exp lies a moment after the row's.
Expire(k) ==
    /\ Stored(k) /\ ~tokens[k].expired
    /\ tokens' = [tokens EXCEPT ![k].expired = TRUE]
    /\ UNCHANGED <<users, req, pc, answer, grant, before>>

Next ==
    \/ \E r \in Requests :
          \/ \E f \in Forms : StartRegister(r, f) \/ StartLogin(r, f)
          \/ \E k \in Handed \cup {NoOne} : StartRefresh(r, k)
          \/ InsertUser(r) \/ LookUpUser(r) \/ SelectToken(r) \/ Revoke(r)
          \/ Commit(r) \/ Fail(r)
    \/ \E k \in Requests : Expire(k)

Spec == Init /\ [][Next]_vars

-----------------------------------------------------------------------------
TypeOK ==
    /\ users \in [Addresses -> UserRows \cup {NoUser}]
    /\ tokens \in [Requests -> TokenRows \cup {NoToken}]
    /\ req \in [Requests -> RequestRecords]
    /\ pc \in [Requests -> {"new", "insert", "lookup", "select", "revoke", "commit", "done"}]
    /\ answer \in [Requests -> {"none", "201", "200", "401", "409", "500", "lost"}]
    /\ grant \in [Requests -> Grants \cup {NoGrant}]
    /\ before \in [Requests -> SUBSET Requests]

\* register, IntegrityError: of all registrations for one address, spelled in any case,
\* one is answered 201, and the account stays the one that it asked for.
RegistrationHolds ==
    \A r \in Requests : answer[r] = "201" => users[Address(r)] = Registered(r)

Backed(r, g) ==
    /\ g.token = r /\ tokens[r].user = g.user
    /\ users[g.user] # NoUser /\ users[g.user].role = g.role
    /\ IF req[r].op = "refresh"
       THEN tokens[req[r].token].user = g.user
       ELSE Address(r) = g.user /\ users[g.user].password = req[r].password

\* login, refresh: whoever was given tokens has an account of the role they claim, knew
\* its password or traded in a token of the same account; the refresh token is stored.
GrantsBacked == \A r \in Requests : grant[r] # NoGrant => Backed(r, grant[r])

\* "Revoke the old token (rotation)": a token is revoked if and only if a successor of it
\* is stored, whichever step failed and whichever answer was lost.
RotationAtomic ==
    \A k \in Requests : Stored(k) =>
        (tokens[k].revoked <=> \E j \in Requests : Stored(j) /\ tokens[j].parent = k)

\* A refresh token is traded in twice by refreshes that overlapped, never by one that
\* began after the other had ended.
RotatedOnce ==
    \A j, k \in Requests : Stored(j) /\ Stored(k) /\ j # k /\ tokens[j].parent # NoOne
        /\ tokens[j].parent = tokens[k].parent => j \notin before[k]

-----------------------------------------------------------------------------
(* The inductive invariant                                                 *)

\* Where a request is, and what it may rely on there.
RequestsOk ==
    \A r \in Requests :
        /\ before[r] \subseteq Done
        /\ pc[r] = "new" => req[r] = NoRequest
        /\ pc[r] = "insert" => req[r].op = "register"
        /\ pc[r] = "lookup" => req[r].op = "login"
        /\ pc[r] \in {"select", "revoke"} => req[r].op = "refresh"
        /\ pc[r] \in {"commit", "done"} => req[r].op # "none"
        /\ req[r].op \in {"register", "login"} =>
              req[r].email \in Emails /\ req[r].password \in Passwords
        /\ req[r].op = "register" => req[r].role \in Roles
        /\ req[r].op # "refresh" => req[r].token = NoOne
        /\ answer[r] = "201" => req[r].op = "register" /\ pc[r] = "done"
        /\ grant[r] # NoGrant => pc[r] = "done"
        /\ pc[r] = "commit" /\ req[r].op = "register" => users[Address(r)] = NoUser
        /\ pc[r] = "commit" /\ req[r].op = "login" => Verified(r)
        /\ (pc[r] \in {"revoke", "commit"} \/ grant[r] # NoGrant) /\ req[r].op = "refresh" =>
              req[r].token \in Requests /\ Stored(req[r].token)
        /\ pc[r] \in {"revoke", "commit"} /\ req[r].op = "refresh" =>
              \A k \in Requests : Stored(k) /\ tokens[k].parent = req[r].token
                 => k \notin before[r]

OneInserts ==
    \A q, r \in Requests : pc[q] = "commit" /\ pc[r] = "commit" /\ req[q].op = "register"
        /\ req[r].op = "register" /\ Address(q) = Address(r) => q = r

TokenOk(k) ==
    /\ users[tokens[k].user] # NoUser
    /\ pc[k] = "done"
    /\ tokens[k].parent # NoOne =>
          Stored(tokens[k].parent) /\ tokens[tokens[k].parent].user = tokens[k].user

TokensOk == \A k \in Requests : Stored(k) => TokenOk(k)

IInv ==
    /\ TypeOK /\ RequestsOk /\ OneInserts /\ TokensOk
    /\ RegistrationHolds /\ GrantsBacked /\ RotationAtomic /\ RotatedOnce
=============================================================================
