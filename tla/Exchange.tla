------------------------------ MODULE Exchange ------------------------------
(***************************************************************************)
(* What a kept-alive connection answers.  A session object reads a request *)
(* into request_, lets the handler of its route fill response_, writes     *)
(* response_ and reads again.  response_ is a member: a handler finds in   *)
(* it what the previous answer of the connection left, and not every       *)
(* handler sets every part of it.                                          *)
(*                                                                         *)
(* A request names the handler its route leads to, the method, what the    *)
(* target turns out to be, the token it carries and the content its answer *)
(* would show (the text of the echo, a file, an item, a listing).  The     *)
(* store behind the API is ApiHandler's; here it only yields content.      *)
(***************************************************************************)
EXTENDS Integers

CONSTANTS
    Connection,  \* connections, one session object each at a time
    Content      \* texts that answers show

Method == {"GET", "POST", "PUT", "DELETE", "HEAD", "BREW"}

\* HEAD stands for the methods the API knows and refuses with 405 (CONNECT,
\* OPTIONS, TRACE and PATCH are the others), BREW for those nobody knows.
Unsupported == {"HEAD"}

Handler == {"none", "EchoHandler", "HealthHandler", "StaticHandler", "NotFoundHandler",
            "APIHandler", "SecureAPIHandler", "SleepHandler", "LoginHandler"}

\* "bad": parse_url_target fails; "missing": not on the disk, or not a path
\* this method takes; "good": anything else.  The files of StaticHandler and
\* LoginHandler are there or not: "good" or either of the others.
Request == [handler : Handler, method : Method, target : {"bad", "missing", "good"},
            token : {"none", "invalid", "valid"}, content : Content]

Pages == {"empty", "OK", "Slept", "NoTokenFound", "InvalidToken", "page400", "page404", "page405"}

ASSUME ContentAssumption == Content \cap Pages = {}

Response == [code : {0, 200, 201, 400, 401, 404, 405},
             content_type : {"unset", "text_plain", "text_html", "by_extension"},
             body : Content \cup Pages]

VARIABLES
    session,    \* "closed", "reading", "writing" or "stranded"
    response_,  \* session::response_
    answers,    \* auxiliary: the request response_ answers, by kind
    entitled    \* auxiliary: the content the connection's requests may see

vars == <<session, response_, answers, entitled>>

-----------------------------------------------------------------------------
(* The handlers: the response they leave, from the request and the response *)
(* they find.                                                               *)

Filled(code, type, body) == [code |-> code, content_type |-> type, body |-> body]

\* A new session object.
Fresh == Filled(0, "unset", "empty")

BadRequest == Filled(400, "text_html", "page400")
NotAllowed == Filled(405, "text_html", "page405")

\* Mutant: the body is not assigned.
NotFoundHeadOnly(old) == [old EXCEPT !.code = 404, !.content_type = "text_html"]

NotFound(old) == Filled(404, "text_html", "page404")

Echo(q) == Filled(200, "text_plain", q.content)

Health == Filled(200, "text_plain", "OK")

Sleep == Filled(200, "text_html", "Slept")

\* RequestHandlerStatic
ServeFile(q, old) ==
    IF q.method # "GET" THEN IF q.method = "BREW" THEN BadRequest ELSE NotAllowed
    ELSE IF q.target # "good" THEN NotFound(old)
    ELSE Filled(200, "by_extension", q.content)

\* RequestHandlerLogin: the same on a fixed file.
Login(q, old) == ServeFile(q, old)

\* RequestHandlerAPI.  POST sets no content type, PUT and DELETE neither
\* content type nor body.
Api(q, old) ==
    IF q.target = "bad" THEN NotFound(old)
    ELSE CASE q.method = "POST" ->
                  IF q.target = "missing" THEN BadRequest
                  ELSE Filled(201, old.content_type, q.content)
           [] q.method = "GET" ->
                  IF q.target = "missing" THEN NotFound(old)
                  ELSE Filled(200, "by_extension", q.content)
           [] q.method = "PUT" ->
                  IF q.target = "missing" THEN BadRequest ELSE [old EXCEPT !.code = 200]
           [] q.method = "DELETE" ->
                  IF q.target = "missing" THEN NotFound(old) ELSE [old EXCEPT !.code = 200]
           [] q.method \in Unsupported -> NotAllowed
           [] OTHER -> BadRequest

\* Mutant: a token that is not valid is reported, and the request served.
SecureFallsThrough(q, old) ==
    IF q.token = "none" THEN Filled(401, "text_plain", "NoTokenFound") ELSE Api(q, old)

\* SecureRequestHandlerAPI: the token first, then the handler for private or
\* public users, which differ in where they keep the items.
Secure(q, old) ==
    CASE q.token = "none" -> Filled(401, "text_plain", "NoTokenFound")
      [] q.token = "invalid" -> Filled(401, "text_plain", "InvalidToken")
      [] q.token = "valid" -> Api(q, old)

\* handle_read: the handler the route leads to, 400 without one.
Respond(q, old) ==
    CASE q.handler = "none" -> BadRequest
      [] q.handler = "EchoHandler" -> Echo(q)
      [] q.handler = "HealthHandler" -> Health
      [] q.handler = "StaticHandler" -> ServeFile(q, old)
      [] q.handler = "LoginHandler" -> Login(q, old)
      [] q.handler = "NotFoundHandler" -> NotFound(old)
      [] q.handler = "APIHandler" -> Api(q, old)
      [] q.handler = "SecureAPIHandler" -> Secure(q, old)
      [] q.handler = "SleepHandler" -> Sleep

-----------------------------------------------------------------------------

Init ==
    /\ session = [c \in Connection |-> "closed"]
    /\ response_ = [c \in Connection |-> Fresh]
    /\ answers = [c \in Connection |-> "nothing"]
    /\ entitled = [c \in Connection |-> {}]

Goto(c, state) == session' = [session EXCEPT ![c] = state]

\* A new session object, accepted and its handshake done.
Connect(c) ==
    /\ session[c] = "closed"
    /\ Goto(c, "reading")
    /\ response_' = [response_ EXCEPT ![c] = Fresh]
    /\ entitled' = [entitled EXCEPT ![c] = {}]
    /\ UNCHANGED answers

\* Whether the request may see its content: the secure API wants a valid token.
MaySee(q) == q.handler = "SecureAPIHandler" => q.token = "valid"

Kind(q) ==
    IF q.handler \in {"APIHandler", "SecureAPIHandler"} /\ q.method \in {"PUT", "DELETE"}
    THEN "modification" ELSE "other"

\* handle_read without error.
HandleRead(c, q) ==
    /\ session[c] = "reading"
    /\ Goto(c, "writing")
    /\ response_' = [response_ EXCEPT ![c] = Respond(q, @)]
    /\ answers' = [answers EXCEPT ![c] = Kind(q)]
    /\ entitled' = [entitled EXCEPT ![c] = IF MaySee(q) THEN @ \cup {q.content} ELSE @]

\* handle_read with an error after bytes came in: 400, and reading goes on.
HandleReadPartial(c) ==
    /\ session[c] = "reading"
    /\ Goto(c, "writing")
    /\ response_' = [response_ EXCEPT ![c] = BadRequest]
    /\ answers' = [answers EXCEPT ![c] = "other"]
    /\ UNCHANGED entitled

\* handle_read with an error and no byte: the session is left as it is, for ever.
HandleReadSilent(c) ==
    /\ session[c] = "reading"
    /\ Goto(c, "stranded")
    /\ UNCHANGED <<response_, answers, entitled>>

\* handle_write: read the next request, or delete the session.
HandleWrite(c) ==
    /\ session[c] = "writing"
    /\ Goto(c, "reading") \/ Goto(c, "closed")
    /\ answers' = [answers EXCEPT ![c] = "nothing"]
    /\ UNCHANGED <<response_, entitled>>

Next ==
    \/ \E c \in Connection : Connect(c)
    \/ \E c \in Connection, q \in Request : HandleRead(c, q)
    \/ \E c \in Connection : HandleReadPartial(c)
    \/ \E c \in Connection : HandleReadSilent(c)
    \/ \E c \in Connection : HandleWrite(c)

Spec == Init /\ [][Next]_vars

-----------------------------------------------------------------------------

TypeOK ==
    /\ session \in [Connection -> {"closed", "reading", "writing", "stranded"}]
    /\ response_ \in [Connection -> Response]
    /\ answers \in [Connection -> {"nothing", "modification", "other"}]
    /\ entitled \in [Connection -> SUBSET Content]

\* Content in an answer was asked for on this very connection, by a request
\* with the right to see it: what response_ keeps between requests, through
\* error pages, refused tokens and broken requests, is never someone else's.
OnlyEntitledContent ==
    \A c \in Connection : session[c] = "writing" /\ response_[c].body \in Content
        => response_[c].body \in entitled[c]

\* A refusal shows no content, whatever the connection was sent before it.
RefusalsShowNothing ==
    \A c \in Connection : response_[c].code >= 400 => response_[c].body \notin Content

\* "HTTP/1.1 200 OK, Content-Length: 0" (tests/expected_api_200_2, compared
\* with the answers to PUT and DELETE): these answers have no body.
ModificationsAnswerEmpty ==
    \A c \in Connection :
        session[c] = "writing" /\ answers[c] = "modification" /\ response_[c].code = 200
            => response_[c].body = "empty"
=============================================================================
