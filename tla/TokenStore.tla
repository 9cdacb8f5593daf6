----------------------------- MODULE TokenStore -----------------------------
(***************************************************************************)
(* The OAuth tokens of a source and the unattended connections that use    *)
(* and renew them (integrator/credentials.py, client.py connect): workers  *)
(* of the server and CLI commands, each with its own copy of one secret.   *)
(* A connection that is refused before its session is open marks the       *)
(* stored token expired and connects once more; a request that needs a     *)
(* browser raises NeedsAuthorization.  A write of the secret loads the     *)
(* document, changes fields and saves it, and is cut between the two.  A   *)
(* parameter is saved at once; a file is saved by truncating one temporary *)
(* name, writing it and moving it over the secret (core/secrets.py), which *)
(* connections that save at the same time share.                           *)
(*                                                                         *)
(* External, as the SDK and a provider behave: a token taken for expired   *)
(* is refreshed when there is a refresh token; a refused refresh drops the *)
(* tokens and sends the request without one; a request answered 401 asks   *)
(* for a login.  The provider may rotate the refresh token or omit it, may *)
(* not say how long a token lives, and may withdraw a token it accepted,   *)
(* early or late - but never the grant itself.                             *)
(***************************************************************************)
EXTENDS Integers, FiniteSets

CONSTANTS
    Connections,
    MaxTokens    \* bound: access tokens issued

ASSUME TokenAssumption == MaxTokens \in Nat \ {0}

VARIABLES
    medium,    \* what the reference names: "ssm", a parameter, or "file"
    provider,  \* the access tokens it accepts, the refresh token it takes, the last issued
    stored,    \* the secret: access and refresh token, and when the access token expires
    draft,     \* what has the temporary name, of a file
    fd,        \* the file a saving connection has open, by the name it has now
    link,      \* each connection
    accepted,  \* access tokens that a request was answered for
    raced,     \* history: a rotation that another connection did not see, or was lost, or
               \* two saves of a file at once
    refused    \* history: connections that ended with NeedsAuthorization, not to be explained

fileVars == <<medium, draft, fd>>
tokenVars == <<provider, stored, link, accepted, raced, refused, fileVars>>

\* expires: "later" (a time the client knows), "past", or "never" (NULL, and 0 for the SDK).
Document == [access: 0..MaxTokens, refresh: 0..MaxTokens, expires: {"later", "past", "never"}]
NoTokens == [access |-> 0, refresh |-> 0, expires |-> "never"]

\* Not a document: no file, an empty one, and one document over the end of another.
Absent == [NoTokens EXCEPT !.expires = "absent"]
Empty == [NoTokens EXCEPT !.expires = "empty"]
Torn == [NoTokens EXCEPT !.expires = "torn"]

Unreadable == {Empty, Torn}
Contents == Document \cup Unreadable

Closed == [pc |-> "closed", try |-> 1, entered |-> FALSE, tokens |-> NoTokens, doc |-> NoTokens,
           answer |-> NoTokens, hit |-> FALSE]

\* After the authorization.
TokenInit ==
    /\ medium \in {"ssm", "file"} /\ draft = Absent /\ fd = [c \in Connections |-> "none"]
    /\ provider = [access |-> {1}, refresh |-> 1, issued |-> 1]
    /\ stored \in [access: {1}, refresh: {1}, expires: {"later", "never"}]
    /\ link = [c \in Connections |-> Closed]
    /\ accepted = {1} /\ raced = FALSE /\ refused = {}

Link(c, fields) == link' = [link EXCEPT ![c] = fields]

\* A token is withdrawn: its time is over, which a client that knows the time sees too, or
\* early.
Aged(t, n, early) ==
    IF ~early /\ t.access = n /\ t.expires = "later" THEN [t EXCEPT !.expires = "past"] ELSE t

Withdraw(n, early) ==
    /\ n \in provider.access \cap accepted
    /\ provider' = [provider EXCEPT !.access = @ \ {n}]
    /\ stored' = Aged(stored, n, early) /\ draft' = Aged(draft, n, early)
    /\ link' = [c \in Connections |->
         [link[c] EXCEPT !.tokens = Aged(@, n, early), !.doc = Aged(@, n, early),
                         !.answer = Aged(@, n, early), !.hit = @ \/ link[c].try = 2]]
    /\ UNCHANGED <<accepted, raced, refused, medium, fd>>

-------------------------------------------------------------------------------
\* A connection reads the secret once (_initialize) and sends requests.

Open(c) ==
    /\ link[c].pc \in {"closed", "again"} /\ stored \notin Unreadable
    /\ Link(c, [link[c] EXCEPT !.pc = "request", !.tokens = stored])
    /\ raced' = (raced \/ \E d \in Connections : link[d].answer.refresh # 0)
    /\ UNCHANGED <<provider, stored, accepted, refused, fileVars>>

\* force_refresh is asked for: the first try was refused before its session was open.
TriesAgain(l) == l.pc = "unauthorized" /\ ~l.entered /\ l.try = 1

\* A secret that is not JSON raises, for whoever reads it; nobody is told to authorize.
Misread(c) ==
    /\ stored \in Unreadable /\ (link[c].pc \in {"again", "load"} \/ TriesAgain(link[c]))
    /\ Link(c, Closed)
    /\ UNCHANGED <<provider, stored, accepted, raced, refused, fileVars>>

Expired(t) == t.access = 0 \/ t.expires = "past"

\* The request goes out with its token.
Send(c) ==
    LET l == link[c]
        ok == l.tokens.access \in provider.access
    IN /\ l.pc = "request" /\ (Expired(l.tokens) => l.tokens.refresh = 0)
       /\ accepted' = IF ok THEN accepted \cup {l.tokens.access} ELSE accepted
       /\ Link(c, [l EXCEPT !.pc = IF ok THEN "open" ELSE "unauthorized",
                            !.entered = @ \/ ok])
       /\ UNCHANGED <<provider, stored, raced, refused, fileVars>>

\* The SDK refreshes first; the answer may bring another refresh token, and a lifetime.
Refresh(c) ==
    LET l == link[c] IN
    /\ l.pc = "request" /\ Expired(l.tokens) /\ l.tokens.refresh # 0
    /\ provider.issued < MaxTokens
    /\ IF l.tokens.refresh # provider.refresh
       THEN /\ Link(c, [l EXCEPT !.tokens = NoTokens])
            /\ UNCHANGED <<provider, raced>>
       ELSE \E rotates \in BOOLEAN, expires \in {"later", "never"} :
            LET n == provider.issued + 1 IN
            /\ provider' = [access |-> provider.access \cup {n}, issued |-> n,
                            refresh |-> IF rotates THEN n ELSE provider.refresh]
            /\ Link(c, [l EXCEPT !.pc = "load",
                   !.answer = [access |-> n, refresh |-> IF rotates THEN n ELSE 0,
                               expires |-> expires]])
            /\ raced' = (raced \/ (rotates /\ \E d \in Connections \ {c} : link[d].pc # "closed"))
    /\ UNCHANGED <<stored, accepted, refused, fileVars>>

\* set_tokens reads the secret and saves it.
LoadTokens(c) ==
    /\ link[c].pc = "load" /\ stored \notin Unreadable
    /\ Link(c, [link[c] EXCEPT !.pc = "save", !.doc = stored])
    /\ UNCHANGED <<provider, stored, accepted, raced, refused, fileVars>>

\* A refresh token the answer omits is kept.
Kept(answer, previous) ==
    IF answer.refresh = 0 THEN [answer EXCEPT !.refresh = previous.refresh] ELSE answer

\* 401: unattended, the login raises NeedsAuthorization.  Before the session was open
\* connect() calls force_refresh, which wants a refresh token in the secret, and tries again.
Reject(c) ==
    LET l == link[c] IN
    /\ l.pc = "unauthorized" /\ (TriesAgain(l) => stored \notin Unreadable)
    /\ IF TriesAgain(l) /\ stored.refresh # 0
       THEN Link(c, [l EXCEPT !.pc = "mark", !.try = 2, !.doc = stored]) /\ UNCHANGED refused
       ELSE /\ Link(c, Closed)
            /\ refused' = IF raced \/ l.entered \/ l.hit THEN refused ELSE refused \cup {c}
    /\ UNCHANGED <<provider, stored, accepted, raced, fileVars>>

\* Mutant of Forced: the time it sets means "never" to the SDK.
Forced_Zero(doc) == [doc EXCEPT !.expires = "never"]

Forced(doc) == [doc EXCEPT !.expires = "past"]

-------------------------------------------------------------------------------
\* set_tokens and force_refresh save what they made of the document they loaded, and go on.
Saving(c) == link[c].pc \in {"save", "mark"}
Written(l) == IF l.pc = "save" THEN Kept(l.answer, l.doc) ELSE Forced(l.doc)
Saved(l) ==
    IF l.pc = "save"
    THEN [l EXCEPT !.pc = "request", !.tokens = l.answer, !.doc = NoTokens, !.answer = NoTokens]
    ELSE [l EXCEPT !.pc = "again", !.doc = NoTokens]

PutParameter(c) ==
    /\ medium = "ssm" /\ Saving(c)
    /\ stored' = Written(link[c]) /\ Link(c, Saved(link[c]))
    /\ UNCHANGED <<provider, accepted, raced, refused, fileVars>>

\* O_TRUNC: the file that has the temporary name is emptied, whoever else is writing it.
OpenTmp(c) ==
    /\ medium = "file" /\ Saving(c) /\ fd[c] = "none"
    /\ draft' = Empty /\ fd' = [fd EXCEPT ![c] = "tmp"]
    /\ raced' = (raced \/ \E d \in Connections : fd[d] # "none")
    /\ UNCHANGED <<medium, provider, stored, link, accepted, refused>>

\* The document goes to the start of the file that was opened, by now the secret or none.
WriteTmp(c) ==
    LET over(t) == {Written(link[c])} \cup IF t = Empty THEN {} ELSE {Torn} IN
    /\ fd[c] \in {"tmp", "secret", "gone"}
    /\ draft' \in IF fd[c] = "tmp" THEN over(draft) ELSE {draft}
    /\ stored' \in IF fd[c] = "secret" THEN over(stored) ELSE {stored}
    /\ fd' = [fd EXCEPT ![c] = "written"]
    /\ UNCHANGED <<medium, provider, link, accepted, raced, refused>>

\* What others have open under the names that the move takes.
Moved(file) == CASE file = "tmp" -> "secret" [] file = "secret" -> "gone" [] OTHER -> file

\* Whatever has the temporary name becomes the secret; without any FileNotFoundError is raised.
ReplaceTmp(c) ==
    /\ fd[c] = "written"
    /\ IF draft = Absent
       THEN /\ Link(c, Closed) /\ fd' = [fd EXCEPT ![c] = "none"]
            /\ UNCHANGED <<stored, draft>>
       ELSE /\ stored' = draft /\ draft' = Absent /\ Link(c, Saved(link[c]))
            /\ fd' = [d \in Connections |-> IF d = c THEN "none" ELSE Moved(fd[d])]
    /\ UNCHANGED <<medium, provider, accepted, raced, refused>>

-------------------------------------------------------------------------------
\* The session goes on with another request, or ends.
Use(c) ==
    /\ link[c].pc = "open" /\ Link(c, [link[c] EXCEPT !.pc = "request"])
    /\ UNCHANGED <<provider, stored, accepted, raced, refused, fileVars>>

\* The process ends, in the middle of things or not.
Leave(c) ==
    /\ link[c].pc # "closed" /\ Link(c, Closed) /\ fd' = [fd EXCEPT ![c] = "none"]
    /\ raced' = (raced \/ (link[c].pc \in {"load", "save"} /\ link[c].answer.refresh # 0))
    /\ UNCHANGED <<medium, provider, stored, draft, accepted, refused>>

TokenNext ==
    \/ \E n \in provider.access, early \in BOOLEAN : Withdraw(n, early)
    \/ \E c \in Connections : \/ Open(c) \/ Misread(c) \/ Send(c) \/ Refresh(c) \/ LoadTokens(c)
                              \/ Reject(c) \/ Use(c) \/ Leave(c)
                              \/ PutParameter(c) \/ OpenTmp(c) \/ WriteTmp(c) \/ ReplaceTmp(c)

TokenSpec == TokenInit /\ [][TokenNext]_tokenVars

-------------------------------------------------------------------------------
\* The tokens keep working unattended: as long as no refresh token was rotated while another
\* connection was under way, nor lost with the process that had just been given it, nor two
\* connections saved the same file at once - which tears it, or makes one of them fail -
\* a connection is opened whatever the provider withdrew before its second try, and the
\* secret holds the refresh token the provider takes, wherever a process died in a save.
WorksUnattended ==
    /\ refused = {}
    /\ ~raced /\ (\A c \in Connections : link[c].pc \notin {"load", "save"})
         => stored.refresh = provider.refresh
===============================================================================
