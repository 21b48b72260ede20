-------------------------- MODULE AuthServiceProofs --------------------------
(***************************************************************************)
(* Proofs about AuthService, for any number of requests, addresses and     *)
(* passwords.  The invariant rests on two facts: a row of users is written *)
(* once, by the one register that inserts it; and a refresh that found its *)
(* token not revoked began before any other refresh of that token ended.   *)
(***************************************************************************)
EXTENDS AuthService, TLAPS

LEMMA NoNames == /\ NoOne \notin Requests /\ NoOne \notin Addresses
                 /\ NoOne \notin Passwords /\ NoOne \notin Roles
                 /\ \A e \in Emails : Lower[e] \in Addresses
  BY AuthAssumption DEF AuthAssumption

\* A stored row has a user, an absent one has none.
LEMMA StoredRows ==
    ASSUME TypeOK, NEW k \in Requests
    PROVE  /\ Stored(k) => tokens[k] \in TokenRows
           /\ Stored(k) <=> tokens[k].user \in Addresses
           /\ ~Stored(k) => tokens[k].user = NoOne /\ tokens[k].parent = NoOne
                            /\ tokens[k].revoked = FALSE
  BY NoNames DEF TypeOK, Stored, TokenRows, NoToken

LEMMA InitInv == Init => IInv
  <1> SUFFICES ASSUME Init PROVE IInv
    OBVIOUS
  <1>1. TypeOK
    BY DEF Init, TypeOK, NoUser, NoToken, NoRequest, NoGrant, UserRows, TokenRows,
           RequestRecords, Grants
  <1>2. \A k \in Requests : ~Stored(k)
    BY DEF Init, Stored
  <1>3. RequestsOk
    BY DEF Init, RequestsOk, NoRequest, Done
  <1>4. OneInserts /\ TokensOk /\ RegistrationHolds /\ GrantsBacked /\ RotationAtomic
        /\ RotatedOnce
    BY <1>2 DEF Init, OneInserts, TokensOk, TokenOk, RegistrationHolds, GrantsBacked, Backed,
                RotationAtomic, RotatedOnce
  <1> QED
    BY <1>1, <1>3, <1>4 DEF IInv

-----------------------------------------------------------------------------
(* Requests begin                                                          *)

Beginning(rec, label) ==
    /\ rec \in RequestRecords
    /\ \/ /\ rec.op = "register" /\ label = "insert" /\ rec.role \in Roles
          /\ rec.email \in Emails /\ rec.password \in Passwords /\ rec.token = NoOne
       \/ /\ rec.op = "login" /\ label = "lookup"
          /\ rec.email \in Emails /\ rec.password \in Passwords /\ rec.token = NoOne
       \/ rec.op = "refresh" /\ label = "select"

LEMMA StartInv ==
    ASSUME IInv, NEW r \in Requests, NEW rec, NEW label, Beginning(rec, label),
           Start(r, rec, label)
    PROVE  IInv'
  <1> USE DEF IInv
  <1>1. TypeOK'
    BY DEF Beginning, Start, TypeOK, Done
  <1>2. /\ pc[r] = "new" /\ req'[r] = rec /\ pc'[r] = label /\ label \notin {"new", "done", "commit", "revoke"}
        /\ \A q \in Requests \ {r} : req'[q] = req[q] /\ pc'[q] = pc[q] /\ before'[q] = before[q]
        /\ users' = users /\ tokens' = tokens /\ answer' = answer /\ grant' = grant
        /\ Done' = Done /\ (before'[r] = Done \/ before'[r] = before[r])
    BY DEF Beginning, Start, TypeOK, Done
  <1>3. answer[r] # "201" /\ grant[r] = NoGrant /\ ~Stored(r)
    BY <1>2 DEF RequestsOk, TokensOk, TokenOk
  <1>4. RequestsOk'
    <2> SUFFICES ASSUME NEW q \in Requests PROVE RequestsOk!(q)'
      BY DEF RequestsOk
    <2>1. CASE q = r
      BY <1>2, <1>3, <2>1 DEF RequestsOk, Beginning
    <2>2. CASE q # r
      BY <1>2, <2>2 DEF RequestsOk, Address, Verified, Stored
    <2> QED
      BY <2>1, <2>2
  <1>5. OneInserts' /\ TokensOk'
    BY <1>2 DEF OneInserts, TokensOk, TokenOk, Address, Stored
  <1>6. RegistrationHolds' /\ GrantsBacked'
    BY <1>2, <1>3 DEF RegistrationHolds, GrantsBacked, Backed, Address, Registered
  <1>7. RotationAtomic'
    BY <1>2 DEF RotationAtomic, Stored
  <1>8. RotatedOnce'
    BY <1>2, <1>3 DEF RotatedOnce, Stored
  <1> QED
    BY <1>1, <1>4, <1>5, <1>6, <1>7, <1>8

-----------------------------------------------------------------------------
(* Requests that only read, wait or fail                                   *)

\* All the invariant says of a request that moves on, with nothing written.
LEMMA GoToInv ==
    ASSUME IInv, NEW r \in Requests, NEW label, GoTo(r, label),
           label \in {"revoke", "commit"}, pc[r] # "done", pc[r] # "new",
           label = "revoke" => req[r].op = "refresh",
           req[r].op \in {"register", "login", "refresh"},
           label = "commit" /\ req[r].op = "register" =>
              users[Address(r)] = NoUser /\ Inserting(Address(r)) = {},
           label = "commit" /\ req[r].op = "login" => Verified(r),
           req[r].op = "refresh" =>
              /\ req[r].token \in Requests /\ Stored(req[r].token)
              /\ \A k \in Requests : Stored(k) /\ tokens[k].parent = req[r].token
                    => k \notin before[r]
    PROVE  IInv'
  <1> USE DEF IInv
  <1>1. /\ pc'[r] = label
        /\ \A q \in Requests \ {r} : pc'[q] = pc[q]
        /\ users' = users /\ tokens' = tokens /\ answer' = answer /\ grant' = grant
        /\ req' = req /\ before' = before /\ Done' = Done
    BY DEF GoTo, TypeOK, Done
  <1>2. TypeOK'
    BY DEF GoTo, TypeOK
  <1>3. answer[r] # "201" /\ grant[r] = NoGrant
    BY DEF RequestsOk
  <1>4. RequestsOk'
    <2> SUFFICES ASSUME NEW q \in Requests PROVE RequestsOk!(q)'
      BY DEF RequestsOk
    <2>1. CASE q = r
      BY <1>1, <1>3, <2>1 DEF RequestsOk, Address, Verified, Stored
    <2>2. CASE q # r
      BY <1>1, <2>2 DEF RequestsOk, Address, Verified, Stored
    <2> QED
      BY <2>1, <2>2
  <1>5. OneInserts'
    BY <1>1 DEF OneInserts, Address, Inserting
  <1>6. TokensOk'
    BY <1>1 DEF TokensOk, TokenOk, Stored
  <1>7. RegistrationHolds' /\ GrantsBacked'
    BY <1>1 DEF RegistrationHolds, GrantsBacked, Backed, Address, Registered
  <1>8. RotationAtomic' /\ RotatedOnce'
    BY <1>1 DEF RotationAtomic, RotatedOnce, Stored
  <1> QED
    BY <1>2, <1>4, <1>5, <1>6, <1>7, <1>8

LEMMA RejectInv ==
    ASSUME IInv, NEW r \in Requests, NEW status, Reject(r, status),
           status \in {"401", "409", "500"}, r \in Running
    PROVE  IInv'
  <1> USE DEF IInv
  <1>1. /\ pc'[r] = "done" /\ answer'[r] = status /\ req[r].op # "none"
        /\ \A q \in Requests \ {r} : pc'[q] = pc[q] /\ answer'[q] = answer[q]
        /\ users' = users /\ tokens' = tokens /\ grant' = grant
        /\ req' = req /\ before' = before /\ Done' = Done \cup {r}
    BY DEF Reject, TypeOK, Done, Running, RequestsOk
  <1>2. TypeOK'
    BY DEF Reject, TypeOK
  <1>3. RequestsOk'
    <2> SUFFICES ASSUME NEW q \in Requests PROVE RequestsOk!(q)'
      BY DEF RequestsOk
    <2>1. CASE q = r
      BY <1>1, <2>1 DEF RequestsOk, Stored
    <2>2. CASE q # r
      BY <1>1, <2>2 DEF RequestsOk, Address, Verified, Stored
    <2> QED
      BY <2>1, <2>2
  <1>4. OneInserts' /\ TokensOk'
    BY <1>1 DEF OneInserts, TokensOk, TokenOk, Address, Stored
  <1>5. RegistrationHolds' /\ GrantsBacked'
    BY <1>1 DEF RegistrationHolds, GrantsBacked, Backed, Address, Registered
  <1>6. RotationAtomic' /\ RotatedOnce'
    BY <1>1 DEF RotationAtomic, RotatedOnce, Stored
  <1> QED
    BY <1>2, <1>3, <1>4, <1>5, <1>6

LEMMA ExpireInv ==
    ASSUME IInv, NEW k \in Requests, Expire(k)
    PROVE  IInv'
  <1> USE DEF IInv
  <1>1. /\ users' = users /\ req' = req /\ pc' = pc /\ answer' = answer /\ grant' = grant
        /\ before' = before /\ Done' = Done
        /\ \A j \in Requests : /\ tokens'[j].user = tokens[j].user
                               /\ tokens'[j].parent = tokens[j].parent
                               /\ tokens'[j].revoked = tokens[j].revoked
    BY DEF Expire, TypeOK, Done, TokenRows, NoToken
  <1>2. TypeOK'
    BY StoredRows DEF Expire, TypeOK, TokenRows
  <1>3. \A j \in Requests : Stored(j)' <=> Stored(j)
    <2> TAKE j \in Requests
    <2>1. Stored(j)' <=> tokens'[j].user \in Addresses
      BY <1>2, NoNames DEF TypeOK, Stored, TokenRows, NoToken
    <2> QED
      BY <1>1, <2>1, StoredRows
  <1>4. RequestsOk'
    BY <1>1, <1>3 DEF RequestsOk, Address, Verified
  <1>5. OneInserts' /\ TokensOk'
    BY <1>1, <1>3, NoNames DEF OneInserts, TokensOk, TokenOk, Address, TypeOK, TokenRows, NoToken
  <1>6. RegistrationHolds' /\ GrantsBacked'
    BY <1>1 DEF RegistrationHolds, GrantsBacked, Backed, Address, Registered, RequestsOk
  <1>7. RotationAtomic' /\ RotatedOnce'
    BY <1>1, <1>3 DEF RotationAtomic, RotatedOnce
  <1> QED
    BY <1>2, <1>4, <1>5, <1>6, <1>7

-----------------------------------------------------------------------------
(* Commits                                                                 *)

\* What a commit changes: one new token, its parent revoked, and for register one new
\* account.
TokenEffect(r) ==
    /\ ~Stored(r) /\ Account(r) \in Addresses /\ grant[r] = NoGrant
    /\ tokens'[r].user = Account(r) /\ tokens'[r].parent = req[r].token
    /\ tokens'[r].revoked = FALSE
    /\ \A k \in Requests : Stored(k)' <=> Stored(k) \/ k = r
    /\ \A k \in Requests \ {r} :
          /\ tokens'[k].user = tokens[k].user /\ tokens'[k].parent = tokens[k].parent
          /\ tokens'[k].revoked = IF k = req[r].token THEN TRUE ELSE tokens[k].revoked
    /\ tokens' \in [Requests -> TokenRows \cup {NoToken}]
    /\ req[r].op \in {"register", "login", "refresh"}
    /\ req[r].op = "refresh" =>
          /\ req[r].token \in Requests /\ Stored(req[r].token) /\ req[r].token # r
          /\ tokens[req[r].token].user = Account(r)
    /\ req[r].op # "refresh" => req[r].token = NoOne /\ Account(r) = Address(r)

RequestEffect(r) ==
    /\ pc[r] = "commit" /\ pc'[r] = "done" /\ Done' = Done \cup {r}
    /\ \A q \in Requests \ {r} :
          pc'[q] = pc[q] /\ answer'[q] = answer[q] /\ grant'[q] = grant[q]
    /\ req' = req /\ before' = before

UserEffect(r) ==
    /\ \A a \in Addresses : users[a] # NoUser => users'[a] = users[a]
    /\ req[r].op = "register" =>
          users'[Address(r)] = Registered(r) /\ Registered(r) \in UserRows
    /\ \A a \in Addresses : users'[a] # users[a] => req[r].op = "register" /\ a = Address(r)
    /\ users' \in [Addresses -> UserRows \cup {NoUser}]
    /\ users'[Account(r)] \in UserRows
    /\ req[r].op # "refresh" => users'[Account(r)].password = req[r].password

LEMMA CommitEffect ==
    ASSUME IInv, NEW r \in Requests, Commit(r)
    PROVE  TokenEffect(r) /\ RequestEffect(r)
  <1> USE DEF IInv
  <1>1. /\ pc[r] = "commit" /\ pc'[r] = "done" /\ Done' = Done \cup {r}
        /\ \A q \in Requests \ {r} :
              pc'[q] = pc[q] /\ answer'[q] = answer[q] /\ grant'[q] = grant[q]
        /\ req' = req /\ before' = before
    BY DEF Commit, TypeOK, Done
  <1>2. ~Stored(r) /\ grant[r] = NoGrant
    BY <1>1 DEF TokensOk, TokenOk, RequestsOk
  <1>3. /\ req[r].op \in {"register", "login", "refresh"}
        /\ req[r].op = "refresh" => req[r].token \in Requests /\ Stored(req[r].token)
        /\ req[r].op # "refresh" => req[r].token = NoOne
    BY <1>1 DEF RequestsOk, TypeOK, RequestRecords
  <1>4. /\ Account(r) \in Addresses
        /\ req[r].op = "refresh" => tokens[req[r].token].user = Account(r)
        /\ req[r].op # "refresh" => Account(r) = Address(r)
    BY <1>3, StoredRows, NoNames DEF Account, Address, RequestsOk
  <1>5. Issued(r) \in TokenRows
    BY <1>3, <1>4 DEF Issued, TokenRows
  <1>6. tokens' = NewTokens(r)
    BY DEF Commit
  <1>7. /\ tokens'[r] = Issued(r) /\ tokens'[r].user = Account(r)
        /\ tokens'[r].parent = req[r].token /\ tokens'[r].revoked = FALSE
    BY <1>6 DEF NewTokens, Issued
  <1>8. ASSUME NEW k \in Requests, k # r
        PROVE  /\ tokens'[k].user = tokens[k].user
               /\ tokens'[k].parent = tokens[k].parent
               /\ tokens'[k].revoked = IF k = req[r].token THEN TRUE ELSE tokens[k].revoked
               /\ tokens'[k] \in TokenRows \cup {NoToken}
               /\ Stored(k)' <=> Stored(k)
    <2>1. CASE k # req[r].token
      <3>1. tokens'[k] = tokens[k]
        BY <1>6, <1>8, <2>1 DEF NewTokens
      <3> QED
        BY <2>1, <3>1 DEF TypeOK, Stored
    <2>2. CASE k = req[r].token
      <3>1. tokens[k] \in TokenRows /\ Stored(k)
        BY <1>3, <2>2, StoredRows, NoNames
      <3>2. tokens'[k] = [tokens[k] EXCEPT !.revoked = TRUE]
        BY <1>6, <1>8, <2>2 DEF NewTokens
      <3>3. /\ tokens'[k].user = tokens[k].user
            /\ tokens'[k].parent = tokens[k].parent
            /\ tokens'[k].revoked = TRUE
            /\ tokens'[k] \in TokenRows
        BY <3>1, <3>2 DEF TokenRows
      <3>4. Stored(k)'
        BY <3>3, NoNames DEF Stored, TokenRows, NoToken
      <3> QED
        BY <2>2, <3>1, <3>3, <3>4
    <2> QED
      BY <2>1, <2>2
  <1>9. Stored(r)'
    BY <1>5, <1>7, NoNames DEF Stored, NoToken, TokenRows
  <1>10. tokens' \in [Requests -> TokenRows \cup {NoToken}]
    <2>1. \A k \in Requests : tokens'[k] \in TokenRows \cup {NoToken}
      BY <1>5, <1>7, <1>8
    <2> QED
      BY <1>6, <2>1 DEF NewTokens
  <1>11. TokenEffect(r)
    BY <1>2, <1>3, <1>4, <1>7, <1>8, <1>9, <1>10 DEF TokenEffect
  <1> QED
    BY <1>1, <1>11 DEF RequestEffect

\* An account that exists stays as it is; only a register writes its own.
LEMMA CommitUsers ==
    ASSUME IInv, NEW r \in Requests, Commit(r)
    PROVE  UserEffect(r)
  <1> USE DEF IInv
  <1>1. pc[r] = "commit" /\ users' = NewUsers(r)
    BY DEF Commit
  <1>2. TokenEffect(r)
    BY CommitEffect
  <1>3. CASE req[r].op = "register"
    <2>1. Registered(r) \in UserRows /\ Address(r) \in Addresses /\ users[Address(r)] = NoUser
      BY <1>1, <1>3, NoNames DEF RequestsOk, Registered, UserRows, Address
    <2>2. users' = [users EXCEPT ![Address(r)] = Registered(r)] /\ Account(r) = Address(r)
      BY <1>1, <1>3 DEF NewUsers, Account
    <2>3. Registered(r).password = req[r].password
      BY DEF Registered
    <2> QED
      BY <1>3, <2>1, <2>2, <2>3 DEF UserEffect, TypeOK
  <1>4. CASE req[r].op # "register"
    <2>1. users' = users
      BY <1>1, <1>4 DEF NewUsers
    <2>2. req[r].op = "login" =>
             users[Account(r)].password = req[r].password /\ users[Account(r)] # NoUser
      BY <1>1 DEF RequestsOk, Verified, Account
    <2>3. req[r].op = "refresh" => users[Account(r)] # NoUser
      BY <1>2 DEF TokensOk, TokenOk, TokenEffect
    <2>4. users[Account(r)] # NoUser /\ users[Account(r)] \in UserRows
      BY <1>2, <1>4, <2>2, <2>3 DEF TypeOK, TokenEffect
    <2> QED
      BY <1>2, <1>4, <2>1, <2>2, <2>4 DEF UserEffect, TokenEffect, TypeOK
  <1> QED
    BY <1>3, <1>4

LEMMA CommitInv ==
    ASSUME IInv, NEW r \in Requests, Commit(r)
    PROVE  IInv'
  <1> USE DEF IInv
  <1>a. TokenEffect(r)
    BY CommitEffect
  <1>b. RequestEffect(r)
    BY CommitEffect
  <1>c. UserEffect(r)
    BY CommitUsers
  <1> DEFINE g == [user |-> Account(r), token |-> r, role |-> users'[Account(r)].role]
  <1>d. /\ answer' \in [Requests -> {"none", "201", "200", "401", "409", "500", "lost"}]
        /\ answer'[r] = "201" => req[r].op = "register"
    BY DEF Commit, Status, TypeOK
  <1>e. grant' = grant \/ grant' = [grant EXCEPT ![r] = g]
    BY DEF Commit
  <1>f. grant'[r] # NoGrant => grant'[r] = g
    BY <1>a, <1>e DEF TokenEffect, TypeOK
  <1>1. TypeOK'
    <2>1. g \in Grants
      BY <1>a, <1>c DEF Grants, UserRows, TokenEffect, UserEffect
    <2>2. grant' \in [Requests -> Grants \cup {NoGrant}]
      BY <1>e, <2>1 DEF TypeOK
    <2>3. pc' \in [Requests -> {"new", "insert", "lookup", "select", "revoke", "commit", "done"}]
      BY DEF TypeOK, Commit
    <2> QED
      BY <1>a, <1>b, <1>c, <1>d, <2>2, <2>3 DEF TypeOK, TokenEffect, RequestEffect, UserEffect
  <1>2. \A q \in Requests \ {r} : pc[q] = "commit" /\ req[q].op = "register"
           /\ req[r].op = "register" => Address(q) # Address(r)
    BY <1>b DEF OneInserts, RequestEffect
  <1>3. RequestsOk'
    <2> SUFFICES ASSUME NEW q \in Requests PROVE RequestsOk!(q)'
      BY DEF RequestsOk
    <2>1. CASE q = r
      BY <1>a, <1>b, <1>d, <2>1 DEF RequestsOk, TokenEffect, RequestEffect
    <2>2. CASE q # r
      <3>1. pc[q] = "commit" /\ req[q].op = "register" => users'[Address(q)] = NoUser
        BY <1>2, <1>c, <2>2, NoNames DEF RequestsOk, Address, UserEffect
      <3>2. pc[q] = "commit" /\ req[q].op = "login" => Verified(q)'
        <4> SUFFICES ASSUME pc[q] = "commit", req[q].op = "login" PROVE Verified(q)'
          OBVIOUS
        <4>1. Verified(q) /\ Address(q) \in Addresses
          BY NoNames DEF RequestsOk, Address
        <4>2. users'[Address(q)] = users[Address(q)]
          BY <1>c, <4>1 DEF UserEffect, Verified
        <4>3. req' = req
          BY <1>b DEF RequestEffect
        <4> QED
          BY <4>1, <4>2, <4>3 DEF Verified, Address
      <3>3. (pc[q] \in {"revoke", "commit"} \/ grant[q] # NoGrant) /\ req[q].op = "refresh" =>
               req[q].token \in Requests /\ Stored(req[q].token)'
        BY <1>a, <1>b DEF RequestsOk, TokenEffect, RequestEffect
      <3>4. r \notin before[q] /\ before[q] \subseteq Done'
        BY <1>b DEF RequestsOk, RequestEffect, Done
      <3>5. pc[q] \in {"revoke", "commit"} /\ req[q].op = "refresh" =>
               \A k \in Requests : Stored(k)' /\ tokens'[k].parent = req[q].token
                  => k \notin before[q]
        BY <1>a, <3>4 DEF RequestsOk, TokenEffect
      <3> QED
        BY <1>b, <2>2, <3>1, <3>2, <3>3, <3>4, <3>5 DEF RequestsOk, Address, RequestEffect
    <2> QED
      BY <2>1, <2>2
  <1>4. OneInserts'
    BY <1>b DEF OneInserts, Address, RequestEffect
  <1>5. TokensOk'
    <2> SUFFICES ASSUME NEW k \in Requests, Stored(k)' PROVE TokenOk(k)'
      BY DEF TokensOk
    <2>1. CASE k = r
      <3>1. users'[Account(r)] # NoUser
        BY <1>c, NoNames DEF UserEffect, UserRows, NoUser
      <3>2. /\ tokens'[r].user = Account(r) /\ tokens'[r].parent = req[r].token
            /\ req[r].token # NoOne =>
                  Stored(req[r].token)' /\ tokens'[req[r].token].user = Account(r)
        BY <1>a, <1>b DEF TokenEffect, RequestEffect
      <3>3. pc'[r] = "done" /\ req'[r] = req[r]
        BY <1>b DEF RequestEffect
      <3> QED
        BY <2>1, <3>1, <3>2, <3>3 DEF TokenOk, Stored
    <2>2. CASE k # r
      <3>1. Stored(k) /\ TokenOk(k) /\ tokens'[k].user = tokens[k].user
            /\ tokens'[k].parent = tokens[k].parent
        BY <1>a, <2>2 DEF TokensOk, TokenEffect
      <3>2. tokens[k].user \in Addresses
        BY <3>1, StoredRows
      <3>3. users'[tokens[k].user] # NoUser /\ pc'[k] = "done"
        BY <1>b, <1>c, <2>2, <3>1, <3>2 DEF TokenOk, UserEffect, RequestEffect
      <3>4. tokens[k].parent # NoOne =>
               /\ tokens[k].parent \in Requests /\ tokens[k].parent # r
               /\ Stored(tokens[k].parent)' /\ tokens'[tokens[k].parent].user = tokens[k].user
        BY <1>a, <3>1, StoredRows DEF TokenOk, TokenEffect, TypeOK, TokenRows
      <3> QED
        BY <3>1, <3>3, <3>4 DEF TokenOk
    <2> QED
      BY <2>1, <2>2
  <1>6. RegistrationHolds'
    <2> SUFFICES ASSUME NEW q \in Requests, answer'[q] = "201"
                 PROVE  users'[Address(q)] = Registered(q)
      BY <1>b DEF RegistrationHolds, RequestEffect, Address, Registered
    <2>1. CASE q = r
      BY <1>c, <1>d, <2>1 DEF UserEffect
    <2>2. CASE q # r
      <3>1. answer[q] = "201" /\ users[Address(q)] = Registered(q)
        BY <1>b, <2>2 DEF RegistrationHolds, RequestEffect
      <3>2. req[q].password \in Passwords /\ Address(q) \in Addresses
        BY <3>1, NoNames DEF RequestsOk, Address
      <3>3. Registered(q) # NoUser
        BY <3>2, NoNames DEF Registered, NoUser
      <3> QED
        BY <1>c, <3>1, <3>2, <3>3 DEF UserEffect
    <2> QED
      BY <2>1, <2>2
  <1>7. GrantsBacked'
    <2> SUFFICES ASSUME NEW q \in Requests, grant'[q] # NoGrant
                 PROVE  Backed(q, grant[q])'
      BY DEF GrantsBacked
    <2>1. CASE q = r
      <3>1. /\ grant'[r].user = Account(r) /\ grant'[r].token = r
            /\ grant'[r].role = users'[Account(r)].role
        BY <1>f, <2>1
      <3>2. users'[Account(r)] # NoUser
        BY <1>c, NoNames DEF UserEffect, UserRows, NoUser
      <3> QED
        BY <1>a, <1>b, <1>c, <2>1, <3>1, <3>2
           DEF Backed, TokenEffect, RequestEffect, UserEffect, Address
    <2>2. CASE q # r
      <3>1. grant[q] \in Grants /\ Backed(q, grant[q]) /\ grant'[q] = grant[q] /\ req'[q] = req[q]
        BY <1>b, <2>2 DEF GrantsBacked, RequestEffect, TypeOK
      <3>2. users'[grant[q].user] = users[grant[q].user]
        BY <1>c, <3>1 DEF UserEffect, Backed, Grants
      <3>3. tokens'[q].user = tokens[q].user
        BY <1>a, <2>2 DEF TokenEffect
      <3>4. req[q].op = "refresh" => tokens'[req[q].token].user = tokens[req[q].token].user
        BY <1>a, <1>b, <2>2 DEF TokenEffect, RequestEffect, RequestsOk
      <3> QED
        BY <1>b, <3>1, <3>2, <3>3, <3>4 DEF Backed, Address, RequestEffect
    <2> QED
      BY <2>1, <2>2
  <1>8. RotationAtomic'
    <2> SUFFICES ASSUME NEW k \in Requests, Stored(k)'
                 PROVE  tokens'[k].revoked
                           <=> \E j \in Requests : Stored(j)' /\ tokens'[j].parent = k
      BY DEF RotationAtomic
    <2>1. CASE k = r
      <3>1. tokens'[r].revoked = FALSE /\ tokens'[r].parent # r
        BY <1>a, NoNames DEF TokenEffect
      <3>2. \A j \in Requests \ {r} : Stored(j) => tokens[j].parent # r
        BY <1>a, NoNames DEF TokensOk, TokenOk, TokenEffect
      <3>3. \A j \in Requests : Stored(j)' => tokens'[j].parent # r
        BY <1>a, <3>1, <3>2 DEF TokenEffect
      <3> QED
        BY <2>1, <3>1, <3>3
    <2>2. CASE k # r /\ k = req[r].token
      <3>1. tokens'[k].revoked = TRUE /\ Stored(r)' /\ tokens'[r].parent = k
        BY <1>a, <2>2 DEF TokenEffect
      <3> QED
        BY <3>1
    <2>3. CASE k # r /\ k # req[r].token
      <3>1. Stored(k) /\ tokens'[k].revoked = tokens[k].revoked
        BY <1>a, <2>3 DEF TokenEffect
      <3>2. \A j \in Requests : Stored(j)' /\ tokens'[j].parent = k
                                <=> Stored(j) /\ tokens[j].parent = k
        BY <1>a, <2>3 DEF TokenEffect
      <3> QED
        BY <3>1, <3>2 DEF RotationAtomic
    <2> QED
      BY <2>1, <2>2, <2>3
  <1>9. RotatedOnce'
    <2> SUFFICES ASSUME NEW j \in Requests, NEW k \in Requests, Stored(j)', Stored(k)', j # k,
                        tokens'[j].parent # NoOne, tokens'[j].parent = tokens'[k].parent
                 PROVE  j \notin before[k]
      BY <1>b DEF RotatedOnce, RequestEffect
    <2>1. CASE j = r
      BY <1>b, <2>1 DEF RequestsOk, Done, RequestEffect
    <2>2. CASE k = r
      <3>1. Stored(j) /\ tokens[j].parent = req[r].token /\ req[r].op = "refresh"
        BY <1>a, <2>2 DEF TokenEffect
      <3> QED
        BY <1>b, <2>2, <3>1 DEF RequestsOk, RequestEffect
    <2>3. CASE j # r /\ k # r
      BY <1>a, <2>3 DEF RotatedOnce, TokenEffect
    <2> QED
      BY <2>1, <2>2, <2>3
  <1> QED
    BY <1>1, <1>3, <1>4, <1>5, <1>6, <1>7, <1>8, <1>9

-----------------------------------------------------------------------------
LEMMA NextInv == IInv /\ [Next]_vars => IInv'
  <1> SUFFICES ASSUME IInv, [Next]_vars PROVE IInv'
    OBVIOUS
  <1> USE DEF IInv
  <1>1. ASSUME NEW r \in Requests, NEW f \in Forms, StartRegister(r, f) \/ StartLogin(r, f)
        PROVE  IInv'
    <2>1. f.email \in Emails /\ f.password \in Passwords /\ f.role \in Roles
      BY AuthAssumption DEF AuthAssumption
    <2>2. CASE StartRegister(r, f)
      <3> DEFINE rec == [op |-> "register", email |-> f.email, password |-> f.password,
                         role |-> f.role, token |-> NoOne]
      <3>1. Beginning(rec, "insert")
        BY <2>1 DEF Beginning, RequestRecords
      <3>2. Start(r, rec, "insert")
        BY <2>2 DEF StartRegister
      <3> QED
        BY <3>1, <3>2, StartInv
    <2>3. CASE StartLogin(r, f)
      <3> DEFINE rec == [op |-> "login", email |-> f.email, password |-> f.password,
                         role |-> NoOne, token |-> NoOne]
      <3>1. Beginning(rec, "lookup")
        BY <2>1 DEF Beginning, RequestRecords
      <3>2. Start(r, rec, "lookup")
        BY <2>3 DEF StartLogin
      <3> QED
        BY <3>1, <3>2, StartInv
    <2> QED
      BY <1>1, <2>2, <2>3
  <1>2. ASSUME NEW r \in Requests, NEW k \in Handed \cup {NoOne}, StartRefresh(r, k)
        PROVE  IInv'
    <2> DEFINE rec == [op |-> "refresh", email |-> NoOne, password |-> NoOne,
                       role |-> NoOne, token |-> k]
    <2>1. k \in Requests \cup {NoOne}
      BY DEF Handed, TypeOK, Grants, NoGrant
    <2>2. Beginning(rec, "select")
      BY <2>1 DEF Beginning, RequestRecords
    <2>3. Start(r, rec, "select")
      BY <1>2 DEF StartRefresh
    <2> QED
      BY <2>2, <2>3, StartInv
  <1>3. ASSUME NEW r \in Requests, InsertUser(r) PROVE IInv'
    <2>1. pc[r] = "insert" /\ r \in Running /\ req[r].op = "register"
      BY <1>3 DEF InsertUser, Running, RequestsOk
    <2>2. CASE Reject(r, "409")
      BY <2>1, <2>2, RejectInv
    <2>3. CASE ~Taken(r) /\ GoTo(r, "commit")
      <3>1. users[Address(r)] = NoUser /\ Inserting(Address(r)) = {}
        BY <1>3, <2>3 DEF InsertUser, AddressFree, Taken
      <3> QED
        BY <2>1, <2>3, <3>1, GoToInv
    <2> QED
      BY <1>3, <2>2, <2>3 DEF InsertUser
  <1>4. ASSUME NEW r \in Requests, LookUpUser(r) PROVE IInv'
    <2>1. pc[r] = "lookup" /\ r \in Running /\ req[r].op = "login"
      BY <1>4 DEF LookUpUser, Running, RequestsOk
    <2>2. CASE Reject(r, "401")
      BY <2>1, <2>2, RejectInv
    <2>3. CASE Verified(r) /\ GoTo(r, "commit")
      BY <2>1, <2>3, GoToInv
    <2> QED
      BY <1>4, <2>2, <2>3 DEF LookUpUser
  <1>5. ASSUME NEW r \in Requests, SelectToken(r) PROVE IInv'
    <2>1. pc[r] = "select" /\ r \in Running /\ req[r].op = "refresh"
      BY <1>5 DEF SelectToken, Running, RequestsOk
    <2>2. CASE Reject(r, "401")
      BY <2>1, <2>2, RejectInv
    <2>3. CASE Valid(req[r].token) /\ GoTo(r, "revoke")
      <3>1. req[r].token \in Requests /\ Stored(req[r].token) /\ ~tokens[req[r].token].revoked
        BY <2>3 DEF Valid
      <3>2. ~\E k \in Requests : Stored(k) /\ tokens[k].parent = req[r].token
        BY <3>1 DEF RotationAtomic
      <3> QED
        BY <2>1, <2>3, <3>1, <3>2, GoToInv
    <2> QED
      BY <1>5, <2>2, <2>3 DEF SelectToken
  <1>6. ASSUME NEW r \in Requests, Revoke(r) PROVE IInv'
    <2>1. pc[r] = "revoke" /\ GoTo(r, "commit") /\ req[r].op = "refresh"
      BY <1>6 DEF Revoke, RequestsOk
    <2> QED
      BY <2>1, GoToInv DEF RequestsOk
  <1>7. ASSUME NEW r \in Requests, Fail(r) PROVE IInv'
    BY <1>7, RejectInv DEF Fail
  <1>8. CASE UNCHANGED vars
    <2>1. /\ TypeOK' /\ RequestsOk' /\ OneInserts' /\ TokensOk'
      BY <1>8 DEF vars, TypeOK, RequestsOk, OneInserts, TokensOk, TokenOk, Stored, Address,
                  Verified, Done
    <2>2. RegistrationHolds' /\ GrantsBacked' /\ RotationAtomic' /\ RotatedOnce'
      BY <1>8 DEF vars, RegistrationHolds, GrantsBacked, Backed, RotationAtomic, RotatedOnce,
                  Stored, Address, Registered
    <2> QED
      BY <2>1, <2>2
  <1> QED
    BY <1>1, <1>2, <1>3, <1>4, <1>5, <1>6, <1>7, <1>8, CommitInv, ExpireInv DEF Next

\* The invariant of register, login and refresh, however requests overlap, fail and lose
\* their answers.
THEOREM AuthInvariant == Spec => []IInv
  BY InitInv, NextInv, PTL DEF Spec

\* One registration of an address is answered 201, and its account stays as it is.
THEOREM RegistrationsHold == Spec => []RegistrationHolds
  <1>1. IInv => RegistrationHolds
    BY DEF IInv
  <1> QED
    BY <1>1, AuthInvariant, PTL

\* Tokens are handed out for stored sessions of the account that the client proved.
THEOREM GrantsAreBacked == Spec => []GrantsBacked
  <1>1. IInv => GrantsBacked
    BY DEF IInv
  <1> QED
    BY <1>1, AuthInvariant, PTL

\* A refresh revokes its token if and only if it stores the successor.
THEOREM RotationIsAtomic == Spec => []RotationAtomic
  <1>1. IInv => RotationAtomic
    BY DEF IInv
  <1> QED
    BY <1>1, AuthInvariant, PTL

\* A token is not traded in by a refresh that began after another had done so.
THEOREM TokensRotateOnce == Spec => []RotatedOnce
  <1>1. IInv => RotatedOnce
    BY DEF IInv
  <1> QED
    BY <1>1, AuthInvariant, PTL
=============================================================================
