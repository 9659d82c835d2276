------------------------------ MODULE Identity ------------------------------
(***************************************************************************)
(* Who a request speaks for: password logins, API keys and Mini App        *)
(* launches, and the rows each is resolved through (middleware/auth.go,    *)
(* application/apitoken, application/auth, infrastructure/tgauth,          *)
(* telegram_repository.go, cmd/createuser). A signature is kept or not     *)
(* kept, a token or a launch stale or not; the texts are left out.         *)
(***************************************************************************)
EXTENDS LedgerReports

CONSTANTS Logins, Keys, Chats

ASSUME IdentityAssumption == None \notin Logins \cup Keys \cup Chats \cup Clients

VARIABLES
    users,    \* users: login -> [role, advocate]
    keys,     \* api_tokens: key -> [user, revoked]
    active,   \* advocates.is_active
    advChat,  \* advocates.telegram_chat_id
    cliChat,  \* clients.telegram_chat_id
    stale     \* the tokens past their expiry, the launches past maxAge

identity == <<users, keys, active, advChat, cliChat, stale>>

Session(u) == [kind |-> "session", of |-> u]
Key(k) == [kind |-> "key", of |-> k]
Launch(chat) == [kind |-> "launch", of |-> chat]

\* Login hands a session to whoever knows the password; it names the login only.
Sessions == {Session(u) : u \in DOMAIN users}

\* What can be presented: a session, a key made, a launch.
Issued == Sessions \cup {Key(k) : k \in DOMAIN keys} \cup {Launch(x) : x \in Chats}

IdentityTypeOK ==
    /\ \A u \in DOMAIN users :
          users[u].role \in {"admin", "advocate"} /\ users[u].advocate \in Advocates \cup {None}
    /\ \A k \in DOMAIN keys : keys[k].user \in DOMAIN users
    /\ active \in [Advocates -> BOOLEAN]
    /\ advChat \in [Advocates -> Chats \cup {None}]
    /\ cliChat \in [Clients -> Chats \cup {None}]
    /\ stale \subseteq Issued

-----------------------------------------------------------------------------
(* The rows change. *)

\* createuser refuses a role it does not know, an advocate without a roster row
\* and an admin with one.
CreateUser(u, role, a) ==
    /\ u \notin DOMAIN users
    /\ role \in {"admin", "advocate"}
    /\ (role = "advocate") <=> (a # None)
    /\ users' = Put(users, u, [role |-> role, advocate |-> a])
    /\ UNCHANGED <<keys, active, advChat, cliChat, stale>>

\* No operation changes a role: it is the operator's own statement on the table,
\* which checks only that an advocate has a roster row.
ChangeRole(u, role, a) ==
    /\ u \in DOMAIN users
    /\ (role = "advocate") => (a # None)
    /\ users' = [users EXCEPT ![u] = [role |-> role, advocate |-> a]]
    /\ UNCHANGED <<keys, active, advChat, cliChat, stale>>

DeactivateAdvocate(a) ==
    /\ active' = [active EXCEPT ![a] = FALSE]
    /\ UNCHANGED <<users, keys, advChat, cliChat, stale>>

\* The index on the chat refuses a second advocate.
SetAdvocateTelegram(a, chat) ==
    /\ \A b \in Advocates \ {a} : advChat[b] # chat
    /\ advChat' = [advChat EXCEPT ![a] = chat]
    /\ UNCHANGED <<users, keys, active, cliChat, stale>>

\* Mutant: the new row takes the chat, the old one keeps it.
ChatCopied(c, chat) == [cliChat EXCEPT ![c] = chat]

\* One transaction: the chat leaves the row it was on for the one it is on now.
ChatMoved(c, chat) ==
    [d \in Clients |-> IF d = c THEN chat ELSE IF cliChat[d] = chat THEN None ELSE cliChat[d]]

SetClientTelegram(c, chat) ==
    /\ cliChat' = ChatMoved(c, chat)
    /\ UNCHANGED <<users, keys, active, advChat, stale>>

\* A token's exp or a launch's maxAge passes; a key has neither.
GrowStale ==
    /\ \E cred \in {x \in Issued : x.kind # "key"} \ stale : stale' = stale \cup {cred}
    /\ UNCHANGED <<users, keys, active, advChat, cliChat>>

InsertKey(k, user) == keys' = Put(keys, k, [user |-> user, revoked |-> FALSE])

\* Mutant: anybody's key.
RevokeAny(k, user) ==
    /\ k \in DOMAIN keys /\ ~keys[k].revoked
    /\ keys' = [keys EXCEPT ![k].revoked = TRUE]

\* Only one's own key, once.
RevokeKey(k, user) ==
    /\ k \in DOMAIN keys /\ keys[k].user = user /\ ~keys[k].revoked
    /\ keys' = [keys EXCEPT ![k].revoked = TRUE]

-----------------------------------------------------------------------------
(* A credential is verified, then looked up. *)

\* Mutant: without revoked_at IS NULL.
AnyByHash(k) == keys[k].user

UserByHash(k) == IF keys[k].revoked THEN None ELSE keys[k].user

\* The keys a user sees, and so can revoke.
ListByUser(u) == {k \in DOMAIN keys : keys[k].user = u /\ ~keys[k].revoked}

AuthenticateKey(k) == UserByHash(k)

\* jwt.Parse: the signature and the expiry, and the subject the token carries.
ParseToken(cred) == IF cred \in stale THEN None ELSE cred.of

\* compositeVerifier: the prefix tells a key from a session.
VerifyToken(cred) == IF cred.kind = "key" THEN AuthenticateKey(cred.of) ELSE ParseToken(cred)

VerifyLaunch(cred) == IF cred \in stale THEN None ELSE cred.of

\* The login or the chat a credential names, None when it is refused.
Verified(cred) == IF cred.kind = "launch" THEN VerifyLaunch(cred) ELSE VerifyToken(cred)

Principal(user, role, a, c, chat) ==
    [user |-> user, role |-> role, advocate |-> a, client |-> c, chat |-> chat]

FindByID(u) == Principal(u, users[u].role, users[u].advocate, None, None)

\* Mutant: someone who left the firm still is its advocate.
AnyWithChat(chat) == {a \in Advocates : advChat[a] = chat}

ActiveWithChat(chat) == {a \in Advocates : advChat[a] = chat /\ active[a]}

\* The roster before the client list; a launch of neither is a guest's.
FindByTelegramID(chat) ==
    LET advocates == ActiveWithChat(chat)
        clients == {c \in Clients : cliChat[c] = chat}
    IN  IF advocates # {} THEN Principal(None, "advocate", CHOOSE a \in advocates : TRUE, None, chat)
        ELSE IF clients # {} THEN Principal(None, "client", None, CHOOSE c \in clients : TRUE, chat)
        ELSE Principal(None, "guest", None, None, chat)

FromToken(user) == FindByID(user)

FromLaunch(chat) == FindByTelegramID(chat)

Profile(c) == [notificationsOn |-> cliChat[c] # None, consults |-> {i \in DOMAIN consults : consults[i].client = c}]

Subject(p) ==
    CASE p.user # None -> <<"user", p.user>>
      [] p.client # None -> <<"client", p.client>>
      [] p.advocate # None -> <<"advocate", p.advocate>>
      [] OTHER -> <<"guest", p.chat>>

\* Mutant: a password is enough.
AnyLogin(role, scopes) == role \in {"admin", "advocate"} \/ role \in scopes

\* An operation that names no role is the admin's.
AllowedByScopes(role, scopes) == IF scopes = {} THEN role = "admin" ELSE role \in scopes

-----------------------------------------------------------------------------
Fresh == <<"fresh", None>>

\* What a credential says by itself at this moment: that it is fresh, and the login
\* it names, a key while it is not revoked.
Bears(cred) ==
    (IF cred \in stale THEN {} ELSE {Fresh})
    \cup (IF cred.kind = "session" THEN {<<"user", cred.of>>} ELSE {})
    \cup {<<"user", keys[k].user>> : k \in {j \in DOMAIN keys : cred = Key(j) /\ ~keys[j].revoked}}

\* What the rows say at this moment of who bears s: which login is an admin, whom on
\* the roster a login speaks for, the active advocate and the client of a chat.
StandsFor(cred, s) ==
    LET logins == {u \in DOMAIN users : <<"user", u>> \in s} IN
    {<<"admin", u>> : u \in {v \in logins : users[v].role = "admin"}}
    \cup {<<"advocate", users[u].advocate>> : u \in {v \in logins : users[v].advocate # None}}
    \cup {<<"advocate", a>> : a \in {b \in Advocates : active[b] /\ cred = Launch(advChat[b])}}
    \cup {<<"client", c>> : c \in {d \in Clients : cred = Launch(cliChat[d])}}

\* A chat is one client's at most and one advocate's at most, whoever submitted
\* with which number (migration 57, SetClientTelegram): a launch, and a reminder
\* sent to the chat, reach one row.
OneRowPerChat ==
    \A x \in Chats :
        Cardinality({c \in Clients : cliChat[c] = x}) <= 1 /\ Cardinality(AnyWithChat(x)) <= 1

\* The keys that still open a door are those their owner can see and close, and
\* a client who can open the app is one reminders reach (ListByUser, Me).
NothingHidden ==
    /\ \A u \in DOMAIN users : ListByUser(u) = {k \in DOMAIN keys : AuthenticateKey(k) = u}
    /\ \A x \in Chats : LET p == FindByTelegramID(x)
                         IN  p.client # None => Profile(p.client).notificationsOn

\* Well typed, nobody answers for another's chat, no way in is out of sight.
IdentityOK == IdentityTypeOK /\ OneRowPerChat /\ NothingHidden

-----------------------------------------------------------------------------
(* The inductive invariant behind it. *)

\* One row per chat, without counting.
ChatsApart(S, chatOf) ==
    \A i, j \in S : chatOf[i] = chatOf[j] /\ chatOf[i] # None => i = j

\* An advocate's login has a roster row; a key is a login's and never expires.
IdentityInv ==
    /\ IdentityTypeOK
    /\ DOMAIN users \subseteq Logins
    /\ \A u \in DOMAIN users : users[u].role = "advocate" => users[u].advocate # None
    /\ keys \in [DOMAIN keys -> [user : DOMAIN users, revoked : BOOLEAN]]
    /\ \A cred \in stale : cred.kind # "key"
    /\ ChatsApart(Advocates, advChat) /\ ChatsApart(Clients, cliChat)
=============================================================================
