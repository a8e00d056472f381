-------------------------------- MODULE Auth --------------------------------
(* The authentication of libgfarm by a shared secret: a client, either the  *)
(* straight-line gfarm_auth_request or the callbacks of                     *)
(* gfarm_auth_request_multiplexed (auth_client.c), a server,                *)
(* gfarm_authorize (auth_server.c), the two directions of their connection, *)
(* and the key file both read (auth_common.c), whose key may expire or be   *)
(* replaced by another client in between.                                   *)
EXTENDS Integers, Sequences, FiniteSets

CONSTANTS Kinds,       \* clients to check: "sync", "mux"
          RetryMax,    \* GFARM_AUTH_RETRY_MAX
          MaxEvents    \* bound: keys that expire or are replaced

ASSUME AuthAssumption == /\ Kinds \subseteq {"sync", "mux"}
                         /\ RetryMax \in Nat \ {0}
                         /\ MaxEvents \in Nat

VARIABLES cl,   \* the client: kind, methods, the event it waits for ("read", "write"), the
                \* callbacks of its events, try, key, error_save, proto_error, result, and
                \* whether it has sent a key type again (again, a history variable)
          sv,   \* the server: where it is (pc), its methods, whether it knows the user,
                \* try, result
          c2s,  \* what is sent to the server and not yet received
          s2c,  \* ... and to the client
          keys  \* the key file: readable, key (0: no file), expired keys, events left

authvars == <<cl, sv, c2s, s2c, keys>>

Code(v) == [t |-> "code", v |-> v]

CSend(m) == c2s' = Append(c2s, m)
SSend(ms) == s2c' = s2c \o ms

(***************************************************************************)
(* The key file                                                            *)
(***************************************************************************)
\* gfarm_auth_shared_key_get for a client: a key that is expired, or whose
\* replacement is forced, is replaced.
SharedKeyGet(create) ==
  IF ~keys.readable THEN [e |-> "keyfile", keys |-> keys, key |-> 0]
  ELSE IF keys.key = 0 \/ keys.key \in keys.expired \/ create = "force"
       THEN [e |-> "ok", keys |-> [keys EXCEPT !.key = keys.last + 1, !.last = @ + 1],
             key |-> keys.last + 1]
  ELSE [e |-> "ok", keys |-> keys, key |-> keys.key]

\* The key in use expires, or another client of the user replaces it.
Expire == /\ keys.events > 0 /\ keys.key \notin keys.expired /\ keys.key # 0
          /\ keys' = [keys EXCEPT !.expired = @ \cup {keys.key}, !.events = @ - 1]
          /\ UNCHANGED <<cl, sv, c2s, s2c>>

Replace == /\ keys.events > 0 /\ keys.readable
           /\ keys' = [keys EXCEPT !.key = keys.last + 1, !.last = @ + 1,
                                   !.events = @ - 1, !.replaced = TRUE]
           /\ UNCHANGED <<cl, sv, c2s, s2c>>

(***************************************************************************)
(* The client                                                              *)
(***************************************************************************)
\* The client returns e; unless it succeeded it closes the connection.
ClientEnds(c, e) == [c EXCEPT !.result = e, !.wait = "none"]

\* It waits for a message, to be received by the callback cb.
Await(c, cb) == [c EXCEPT !.wait = "read", !.readable = cb]

\* It waits until it can write, and cb writes.
Write(c, cb) == [c EXCEPT !.wait = "write", !.writable = cb]

\* The errors after which gfarm_auth_request tries the next method.
TryNext == {"not_supported", "expired", "authentication"}

\* gfarm_auth_request_next_method: after sharedsecret, the table has NONE left.
NextMethod(c, e) == IF e \in TryNext THEN Write([c EXCEPT !.last_error = e, !.index = 2], "ask_method")
                    ELSE ClientEnds(c, e)

Waits(event, cb) == cl.wait = event /\ (IF event = "read" THEN cl.readable ELSE cl.writable) = cb

\* A message is there, for the callback cb, and is of the expected type.
Receives(cb, t) == Waits("read", cb) /\ s2c # <<>> /\ Head(s2c).t = t /\ s2c' = Tail(s2c)

\* gfarm_auth_request_receive_server_methods.
ReceiveMethods ==
  /\ Receives("receive_methods", "methods")
  /\ cl' = Write([cl EXCEPT !.server_methods = Head(s2c).v, !.index = 1], "ask_method")
  /\ UNCHANGED <<sv, c2s, keys>>

\* gfarm_auth_request_loop_ask_method: sharedsecret if both can, else NONE.
AskMethod ==
  /\ Waits("write", "ask_method")
  /\ LET m == IF cl.index = 1 /\ "sharedsecret" \in cl.methods \cap cl.server_methods THEN "sharedsecret" ELSE "none"
     IN  /\ CSend([t |-> "method", v |-> m])
         /\ cl' = Await([cl EXCEPT !.method = m], "dispatch_method")
  /\ UNCHANGED <<sv, s2c, keys>>

\* gfarm_auth_request_dispatch_method.
DispatchMethod ==
  /\ Receives("dispatch_method", "code")
  /\ IF Head(s2c).v # "no_error"
     THEN cl' = ClientEnds(cl, "protocol") /\ UNCHANGED c2s
     ELSE IF cl.method # "none"
     THEN /\ CSend([t |-> "user", v |-> 0])
          /\ cl' = Write([cl EXCEPT !.readable = "receive_keytype"], "send_keytype")
     ELSE /\ cl' = ClientEnds(cl, IF cl.server_methods = {} THEN "denied"
                                  ELSE IF cl.methods \cap cl.server_methods = {} THEN "not_supported"
                                  ELSE cl.last_error)
          /\ UNCHANGED c2s
  /\ UNCHANGED <<sv, keys>>

\* Mutant: at a retry the callback of the readable event is left as it is.
SendKeytypeStale ==
  /\ Waits("write", "send_keytype")
  /\ LET k == SharedKeyGet(IF cl.try = 0 THEN "create" ELSE "force")
     IN  /\ keys' = k.keys
         /\ IF k.e = "ok"
            THEN /\ CSend([t |-> "request", v |-> "md5"])
                 /\ cl' = Await([cl EXCEPT !.key = k.key, !.again = @ \/ cl.try > 0], cl.readable)
            ELSE /\ CSend([t |-> "request", v |-> "giveup"])
                 /\ cl' = Await([cl EXCEPT !.error_save = k.e], "receive_fin")
  /\ UNCHANGED <<sv, s2c>>

\* gfarm_auth_request_sharedsecret_send_keytype: the multiplexed one leaves the
\* callback of the readable event as it is.  Without a key it gives up.
SendKeytype ==
  /\ Waits("write", "send_keytype")
  /\ LET k == SharedKeyGet(IF cl.try = 0 THEN "create" ELSE "force")
     IN  /\ keys' = k.keys
         /\ IF k.e = "ok"
            THEN /\ CSend([t |-> "request", v |-> "md5"])
                 /\ cl' = Await([cl EXCEPT !.key = k.key, !.again = @ \/ cl.try > 0],
                                IF cl.kind = "mux" THEN cl.readable ELSE "receive_keytype")
            ELSE /\ CSend([t |-> "request", v |-> "giveup"])
                 /\ cl' = Await([cl EXCEPT !.error_save = k.e], "receive_fin")
  /\ UNCHANGED <<sv, s2c>>

\* gfarm_auth_request_sharedsecret_receive_keytype.
ReceiveKeytype ==
  /\ Receives("receive_keytype", "code")
  /\ cl' = IF Head(s2c).v = "no_error" THEN Await(cl, "receive_challenge")
           ELSE Write([cl EXCEPT !.proto_error = Head(s2c).v], "send_giveup")
  /\ UNCHANGED <<sv, c2s, keys>>

\* gfarm_auth_request_sharedsecret_receive_challenge: the response is made of the key.
ReceiveChallenge ==
  /\ Receives("receive_challenge", "challenge")
  /\ CSend([t |-> "response", v |-> cl.key])
  /\ cl' = Await(cl, "receive_result")
  /\ UNCHANGED <<sv, keys>>

\* Mutant: an expired key is not tried again.
ReceiveResultOnce ==
  /\ Receives("receive_result", "code")
  /\ LET v == Head(s2c).v
         c == [cl EXCEPT !.proto_error = v, !.try = @ + 1]
     IN  cl' = IF v = "no_error" THEN ClientEnds(cl, "ok") ELSE Write(c, "send_giveup")
  /\ UNCHANGED <<sv, c2s, keys>>

\* gfarm_auth_request_sharedsecret_receive_result: an expired key is tried again.
ReceiveResult ==
  /\ Receives("receive_result", "code")
  /\ LET v == Head(s2c).v
         c == [cl EXCEPT !.proto_error = v, !.try = @ + 1]
     IN  cl' = IF v = "no_error" THEN ClientEnds(cl, "ok")
               ELSE Write(c, IF c.try < RetryMax /\ v = "expired" THEN "send_keytype"
                             ELSE "send_giveup")
  /\ UNCHANGED <<sv, c2s, keys>>

\* gfarm_auth_request_sharedsecret_send_giveup.
SendGiveup ==
  /\ Waits("write", "send_giveup")
  /\ CSend([t |-> "request", v |-> "giveup"])
  /\ cl' = Await(cl, "receive_fin")
  /\ UNCHANGED <<sv, s2c, keys>>

\* gfarm_auth_request_sharedsecret_receive_fin: the answer is ignored, the
\* method has failed.
ReceiveFin ==
  /\ Receives("receive_fin", "code")
  /\ cl' = NextMethod(cl, IF cl.error_save # "ok" THEN cl.error_save
                          ELSE IF cl.proto_error \in {"not_supported", "expired"}
                          THEN cl.proto_error ELSE "authentication")
  /\ UNCHANGED <<sv, c2s, keys>>

\* The server has closed the connection.
ReceiveEof == /\ cl.wait = "read" /\ s2c = <<>> /\ sv.result \notin {"none", "ok"}
              /\ cl' = ClientEnds(cl, "protocol")
              /\ UNCHANGED <<sv, c2s, s2c, keys>>

\* GFARM_AUTH_TIMEOUT of a readable event.
TimeOut == /\ cl.kind = "mux" /\ cl.wait = "read"
           /\ cl' = ClientEnds(cl, "timed_out")
           /\ UNCHANGED <<sv, c2s, s2c, keys>>

\* The loop of gfarm_auth_request_sharedsecret, and its callbacks.
SharedSecret == \/ SendKeytype \/ ReceiveKeytype \/ ReceiveChallenge \/ ReceiveResult
                \/ SendGiveup \/ ReceiveFin

gfarm_auth_request_sharedsecret == cl.kind = "sync" /\ SharedSecret

gfarm_auth_request_sharedsecret_multiplexed == cl.kind = "mux" /\ SharedSecret

RequestLoop == ReceiveMethods \/ AskMethod \/ DispatchMethod \/ ReceiveEof

gfarm_auth_request == cl.kind = "sync" /\ RequestLoop

gfarm_auth_request_multiplexed == cl.kind = "mux" /\ RequestLoop

(***************************************************************************)
(* The server                                                              *)
(***************************************************************************)
ServerEnds(s, e) == [s EXCEPT !.result = e, !.pc = "end"]

Takes(pc) == sv.pc = pc /\ c2s # <<>> /\ c2s' = Tail(c2s)

\* gfarm_authorize tells its methods.
SendMethods == /\ sv.pc = "start"
               /\ SSend(<<[t |-> "methods", v |-> sv.methods]>>)
               /\ sv' = [sv EXCEPT !.pc = "method"]
               /\ UNCHANGED <<cl, c2s, keys>>

\* gfarm_authorize is asked for a method, or the client gives up.
TakeMethod ==
  /\ Takes("method")
  /\ LET m == Head(c2s).v
         ok == m = "none" \/ m \in sv.methods
         e == IF sv.methods = {} THEN "denied" ELSE IF sv.try = 0 THEN "not_supported"
              ELSE "authentication"
     IN  /\ SSend(<<Code(IF ok THEN "no_error" ELSE "denied")>>)
         /\ sv' = IF ~ok THEN ServerEnds(sv, "protocol")
                  ELSE IF m = "none" THEN ServerEnds(sv, e)
                  ELSE [sv EXCEPT !.pc = "user", !.try = @ + 1]
  /\ UNCHANGED <<cl, keys>>

\* gfarm_authorize_sharedsecret; an unknown user is refused later.
TakeUser == /\ Takes("user")
            /\ sv' = [sv EXCEPT !.pc = "request"]
            /\ UNCHANGED <<cl, s2c, keys>>

\* Mutant: the answer to giving up is not flushed.
TakeRequestUnflushed ==
  /\ Takes("request")
  /\ IF Head(c2s).v = "giveup"
     THEN sv' = [sv EXCEPT !.pc = "method"] /\ UNCHANGED s2c
     ELSE /\ SSend(<<Code("no_error"), [t |-> "challenge", v |-> 0]>>)
          /\ sv' = [sv EXCEPT !.pc = "response"]
  /\ UNCHANGED <<cl, keys>>

\* gfarm_auth_sharedsecret_response: the answer and the challenge are sent at
\* once; giving up ends the method (gfarm_auth_sharedsecret_giveup_response),
\* with an error that makes gfarm_authorize wait for the next one.
TakeRequest ==
  /\ Takes("request")
  /\ LET giveup == Head(c2s).v = "giveup"
     IN  /\ SSend(<<Code("no_error")>>
                  \o IF giveup THEN <<>> ELSE <<[t |-> "challenge", v |-> 0]>>)
         /\ sv' = [sv EXCEPT !.pc = IF giveup THEN "method" ELSE "response"]
  /\ UNCHANGED <<cl, keys>>

\* gfarm_auth_sharedsecret_md5_response: the key file is read now.
TakeResponse ==
  /\ Takes("response")
  /\ LET k == Head(c2s).v
         error == IF ~sv.known \/ ~keys.readable THEN "invalid"
                  ELSE IF k \in keys.expired THEN "expired"
                  ELSE IF k # keys.key THEN "invalid"
                  ELSE "no_error"
     IN  /\ SSend(<<Code(error)>>)
         /\ sv' = IF error = "no_error" THEN ServerEnds(sv, "ok") ELSE [sv EXCEPT !.pc = "request"]
  /\ UNCHANGED <<cl, keys>>

\* The client has closed the connection, or sends something else.
ServerEof == /\ sv.pc \in {"method", "user", "request", "response"}
             /\ c2s = <<>> /\ cl.result \notin {"none", "ok"}
             /\ sv' = ServerEnds(sv, "protocol")
             /\ UNCHANGED <<cl, c2s, s2c, keys>>

gfarm_authorize == \/ SendMethods \/ TakeMethod \/ TakeUser \/ TakeRequest \/ TakeResponse
                   \/ ServerEof

AuthInit ==
  /\ \E k \in Kinds, m \in SUBSET {"sharedsecret"} :
       cl = [kind |-> k, methods |-> m, wait |-> IF m = {} THEN "none" ELSE "read", readable |-> "receive_methods",
             writable |-> "ask_method", server_methods |-> {}, index |-> 1, method |-> "none",
             try |-> 0, key |-> 0, again |-> FALSE, error_save |-> "ok", proto_error |-> "no_error",
             last_error |-> "ok",
             result |-> IF m = {} THEN "not_available" ELSE "none"]
  /\ \E m \in SUBSET {"sharedsecret", "gsi"}, known \in BOOLEAN :
       sv = [pc |-> "start", methods |-> m, known |-> known, try |-> 0,
             result |-> "none"]
  /\ c2s = <<>> /\ s2c = <<>>
  /\ \E r \in BOOLEAN, k \in {0, 1} :
       keys = [readable |-> r, key |-> k, last |-> 1, expired |-> {}, events |-> MaxEvents,
               replaced |-> FALSE]

AuthClient == \/ gfarm_auth_request \/ gfarm_auth_request_sharedsecret
              \/ gfarm_auth_request_multiplexed \/ gfarm_auth_request_sharedsecret_multiplexed

AuthNext == AuthClient \/ gfarm_authorize \/ TimeOut \/ Expire \/ Replace

AuthFairness == WF_authvars(AuthClient) /\ WF_authvars(gfarm_authorize)

AuthSpec == AuthInit /\ [][AuthNext]_authvars /\ AuthFairness

(***************************************************************************)
(* Properties                                                              *)
(***************************************************************************)
\* A client that takes itself for authenticated is: the server has accepted
\* it, and nothing is left in the connection that the first remote procedure
\* call would take for its answer.
Agreement == cl.result = "ok" => sv.result = "ok" /\ s2c = <<>> /\ c2s = <<>>

\* A multiplexed client whose key expired: it should "go to
\* gfarm_auth_request_sharedsecret_receive_keytype()" (auth_client.c:497), but the
\* callback of its readable event is still receive_result, which takes the answer to
\* the key type for the answer to the response.
Retried == cl.kind = "mux" /\ cl.again

\* Both sides have come to an end, and a client that the server has accepted knows
\* so unless it has given up waiting.  A client that Retried takes itself for
\* authenticated while the server still waits for its response.
AuthEnded == /\ cl.result # "none"
             /\ \/ Retried /\ cl.result = "ok"
                \/ /\ sv.result # "none"
                   /\ sv.result = "ok" => cl.result \in {"ok", "timed_out"}

\* One expired key is not a reason to fail: the retry makes a new one, which
\* the server reads after it has received the response.
ExpiryForgiven ==
  cl.result \notin {"none", "timed_out"} /\ sv.known /\ keys.readable /\ ~keys.replaced
    /\ "sharedsecret" \in cl.methods \cap sv.methods /\ Cardinality(keys.expired) < RetryMax
    => cl.result = "ok"

\* The two sides come to the same result, and to the right one: a client is not
\* authenticated alone, unless it is multiplexed and Retried, nor refused for a key
\* that it could have renewed.
AuthAgrees == (Retried \/ Agreement) /\ ExpiryForgiven
=============================================================================
