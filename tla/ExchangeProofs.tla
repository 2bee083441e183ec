--------------------------- MODULE ExchangeProofs ---------------------------
(***************************************************************************)
(* What response_ keeps from one request of a connection to the next is    *)
(* harmless, for any number of connections and any content.                *)
(***************************************************************************)
EXTENDS Exchange, TLAPS

USE ContentAssumption

\* The content response_ holds, also between two requests, is content the
\* connection was entitled to: what a modification leaves in the answer.
KeptIsEntitled ==
    \A c \in Connection : session[c] # "closed" /\ response_[c].body \in Content
        => response_[c].body \in entitled[c]

ExchangeInv == TypeOK /\ KeptIsEntitled /\ RefusalsShowNothing

Codes == {0, 200, 201, 400, 401, 404, 405}
Types == {"unset", "text_plain", "text_html", "by_extension"}

\* The parts of a response, and of one assembled from parts.
LEMMA FilledFacts ==
    ASSUME NEW code \in Codes, NEW type \in Types, NEW body \in Content \cup Pages
    PROVE  /\ Filled(code, type, body) \in Response
           /\ Filled(code, type, body).code = code
           /\ Filled(code, type, body).body = body
BY DEF Filled, Response, Codes, Types

\* A response without content, which may be a refusal.
LEMMA PageFacts ==
    ASSUME NEW code \in Codes, NEW type \in Types, NEW page \in Pages
    PROVE  /\ Filled(code, type, page) \in Response
           /\ Filled(code, type, page).body \notin Content
<1>1. page \in Content \cup Pages /\ page \notin Content
  OBVIOUS
<1> QED
  BY <1>1, FilledFacts

\* What a handler may leave: the content of its request if it may be seen, or
\* what it found; and no content with a refusal.
Harmless(q, old, new) ==
    /\ new \in Response
    /\ new.body \in Content => new.body = old.body \/ new.body = q.content
    /\ new.code >= 400 => new.body \notin Content

LEMMA ShownFacts ==
    ASSUME NEW q \in Request, NEW old \in Response,
           NEW type \in {"unset", "text_plain", "text_html", "by_extension"}
    PROVE  Harmless(q, old, Filled(200, type, q.content))
BY DEF Filled, Response, Request, Harmless

LEMMA RefusedFacts ==
    ASSUME NEW q \in Request, NEW old \in Response
    PROVE  /\ Harmless(q, old, BadRequest)
           /\ Harmless(q, old, NotAllowed)
           /\ Harmless(q, old, NotFound(old))
BY DEF Filled, Response, Harmless, BadRequest, NotAllowed, NotFound, Pages

LEMMA ApiFacts ==
    ASSUME NEW q \in Request, NEW old \in Response
    PROVE  Harmless(q, old, Api(q, old))
<1>1. Harmless(q, old, Filled(201, old.content_type, q.content))
  <2>1. q.content \in Content /\ old.content_type \in Types
    BY DEF Request, Response, Types
  <2> QED
    BY <2>1, FilledFacts DEF Harmless, Codes
<1>2. Harmless(q, old, [old EXCEPT !.code = 200])
  BY DEF Response, Harmless
<1>3. Harmless(q, old, Filled(200, "by_extension", q.content))
  BY ShownFacts
<1>4. \/ Api(q, old) = BadRequest
      \/ Api(q, old) = NotAllowed
      \/ Api(q, old) = NotFound(old)
      \/ Api(q, old) = Filled(201, old.content_type, q.content)
      \/ Api(q, old) = [old EXCEPT !.code = 200]
      \/ Api(q, old) = Filled(200, "by_extension", q.content)
  BY DEF Api, Request, Method
<1> QED
  BY <1>1, <1>2, <1>3, <1>4, RefusedFacts

LEMMA ServeFileFacts ==
    ASSUME NEW q \in Request, NEW old \in Response
    PROVE  Harmless(q, old, ServeFile(q, old))
BY ShownFacts, RefusedFacts DEF ServeFile

\* Content that handle_read adds to response_ may be seen by the request.
LEMMA RespondFacts ==
    ASSUME NEW q \in Request, NEW old \in Response
    PROVE  /\ Respond(q, old) \in Response
           /\ Respond(q, old).body \in Content =>
                 \/ Respond(q, old).body = old.body
                 \/ Respond(q, old).body = q.content /\ MaySee(q)
           /\ Respond(q, old).code >= 400 => Respond(q, old).body \notin Content
<1> DEFINE Goal(new) == /\ new \in Response
                        /\ new.body \in Content =>
                              new.body = old.body \/ (new.body = q.content /\ MaySee(q))
                        /\ new.code >= 400 => new.body \notin Content
<1>1. ASSUME NEW new, Harmless(q, old, new), MaySee(q)
      PROVE  Goal(new)
  BY <1>1 DEF Harmless
<1>2. CASE q.handler = "none"
  BY <1>2, <1>1, RefusedFacts DEF Respond, MaySee
<1>3. CASE q.handler = "EchoHandler"
  <2>1. Respond(q, old) = Filled(200, "text_plain", q.content)
    BY <1>3 DEF Respond, Echo
  <2> QED
    BY <1>1, <1>3, <2>1, ShownFacts DEF MaySee
<1>4. CASE q.handler \in {"HealthHandler", "SleepHandler"}
  <2>1. Respond(q, old) \in {Health, Sleep}
    BY <1>4 DEF Respond
  <2>2. Goal(Health) /\ Goal(Sleep)
    BY PageFacts DEF Health, Sleep, Pages, Codes, Types
  <2> QED
    BY <2>1, <2>2
<1>5. CASE q.handler \in {"StaticHandler", "LoginHandler"}
  <2>1. Respond(q, old) = ServeFile(q, old)
    BY <1>5 DEF Respond, Login
  <2> QED
    BY <1>1, <1>5, <2>1, ServeFileFacts DEF MaySee
<1>6. CASE q.handler = "NotFoundHandler"
  BY <1>6, <1>1, RefusedFacts DEF Respond, MaySee
<1>7. CASE q.handler = "APIHandler"
  BY <1>7, <1>1, ApiFacts DEF Respond, MaySee
<1>8. CASE q.handler = "SecureAPIHandler"
  <2>1. Respond(q, old) = Secure(q, old)
    BY <1>8 DEF Respond
  <2>2. CASE q.token = "valid"
    BY <1>1, <2>1, <2>2, ApiFacts DEF Secure, MaySee
  <2>3. CASE q.token = "none"
    <3>1. Respond(q, old) = Filled(401, "text_plain", "NoTokenFound")
      BY <2>1, <2>3 DEF Secure
    <3> QED
      BY <3>1, PageFacts DEF Pages, Codes, Types
  <2>4. CASE q.token = "invalid"
    <3>1. Respond(q, old) = Filled(401, "text_plain", "InvalidToken")
      BY <2>1, <2>4 DEF Secure
    <3> QED
      BY <3>1, PageFacts DEF Pages, Codes, Types
  <2> QED
    BY <2>2, <2>3, <2>4 DEF Request
<1> QED
  BY <1>2, <1>3, <1>4, <1>5, <1>6, <1>7, <1>8 DEF Request, Handler

LEMMA InitInv == Init => ExchangeInv
<1>1. Fresh \in Response /\ Fresh.body \notin Content
  BY PageFacts DEF Fresh, Pages, Codes, Types
<1> QED
  BY <1>1 DEF Init, ExchangeInv, TypeOK, KeptIsEntitled, RefusalsShowNothing

LEMMA HandleReadInv ==
    ASSUME ExchangeInv, NEW c \in Connection, NEW q \in Request, HandleRead(c, q)
    PROVE  ExchangeInv'
<1> DEFINE old == response_[c]
           new == Respond(q, old)
<1>1. old \in Response /\ q.content \in Content
  BY DEF ExchangeInv, TypeOK, Request
<1>2. /\ new \in Response
      /\ new.body \in Content => new.body = old.body \/ (new.body = q.content /\ MaySee(q))
      /\ new.code >= 400 => new.body \notin Content
  <2> HIDE DEF old
  <2> QED
    BY <1>1, RespondFacts
<1>3. /\ session[c] = "reading"
      /\ session' = [session EXCEPT ![c] = "writing"]
      /\ response_' = [response_ EXCEPT ![c] = new]
      /\ answers' = [answers EXCEPT ![c] = Kind(q)]
      /\ entitled' = [entitled EXCEPT ![c] = IF MaySee(q) THEN @ \cup {q.content} ELSE @]
  BY DEF HandleRead, Goto
<1> HIDE DEF old, new
<1>4. TypeOK'
  BY <1>1, <1>2, <1>3 DEF ExchangeInv, TypeOK, Kind
<1>5. KeptIsEntitled'
  <2> SUFFICES ASSUME NEW d \in Connection, session'[d] # "closed",
                      response_'[d].body \in Content
               PROVE  response_'[d].body \in entitled'[d]
    BY DEF KeptIsEntitled
  <2>1. CASE d = c
    BY <1>2, <1>3, <2>1 DEF ExchangeInv, TypeOK, KeptIsEntitled, old
  <2>2. CASE d # c
    BY <1>3, <2>2 DEF ExchangeInv, TypeOK, KeptIsEntitled
  <2> QED
    BY <2>1, <2>2
<1>6. RefusalsShowNothing'
  BY <1>2, <1>3 DEF ExchangeInv, TypeOK, RefusalsShowNothing
<1> QED
  BY <1>4, <1>5, <1>6 DEF ExchangeInv

\* The other actions leave a page in response_, or what is there.
LEMMA OtherInv ==
    ASSUME ExchangeInv, NEW c \in Connection,
           Connect(c) \/ HandleReadPartial(c) \/ HandleReadSilent(c) \/ HandleWrite(c)
    PROVE  ExchangeInv'
<1>1. /\ Fresh \in Response /\ Fresh.body \notin Content
      /\ BadRequest \in Response /\ BadRequest.body \notin Content
  BY PageFacts DEF Fresh, BadRequest, Pages, Codes, Types
<1>2. CASE Connect(c)
  BY <1>1, <1>2 DEF ExchangeInv, TypeOK, KeptIsEntitled, RefusalsShowNothing, Connect, Goto
<1>3. CASE HandleReadPartial(c)
  BY <1>1, <1>3 DEF ExchangeInv, TypeOK, KeptIsEntitled, RefusalsShowNothing,
                    HandleReadPartial, Goto
<1>4. CASE HandleReadSilent(c)
  BY <1>4 DEF ExchangeInv, TypeOK, KeptIsEntitled, RefusalsShowNothing, HandleReadSilent, Goto
<1>5. CASE HandleWrite(c)
  BY <1>5 DEF ExchangeInv, TypeOK, KeptIsEntitled, RefusalsShowNothing, HandleWrite, Goto
<1> QED
  BY <1>2, <1>3, <1>4, <1>5

LEMMA NextInv == ExchangeInv /\ [Next]_vars => ExchangeInv'
<1>1. ExchangeInv /\ UNCHANGED vars => ExchangeInv'
  BY DEF vars, ExchangeInv, TypeOK, KeptIsEntitled, RefusalsShowNothing
<1> QED
  BY <1>1, HandleReadInv, OtherInv DEF Next

\* The responses stay those the handlers build, for every connection.
THEOREM ExchangeTypeCorrect == Spec => []TypeOK
<1>1. ExchangeInv => TypeOK
  BY DEF ExchangeInv
<1> QED
  BY <1>1, InitInv, NextInv, PTL DEF Spec

\* An answer shows content only to a connection that asked for it and was
\* entitled to it, although handlers leave parts of response_ as they are.
THEOREM NothingLeaks == Spec => []OnlyEntitledContent
<1>1. ExchangeInv => OnlyEntitledContent
  BY DEF ExchangeInv, KeptIsEntitled, OnlyEntitledContent
<1> QED
  BY <1>1, InitInv, NextInv, PTL DEF Spec

\* Error pages replace whatever the connection was sent before.
THEOREM RefusalsAreBare == Spec => []RefusalsShowNothing
<1>1. ExchangeInv => RefusalsShowNothing
  BY DEF ExchangeInv
<1> QED
  BY <1>1, InitInv, NextInv, PTL DEF Spec
=============================================================================
