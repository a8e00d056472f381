----------------------------- MODULE EventProofs -----------------------------
(* Theorems about the authentication of a client, by itself and as one of   *)
(* the requests of an event queue.                                          *)
EXTENDS Auth, EventQueue, FiniteSetTheorems, SequenceTheorems, WellFoundedInduction, TLAPS

(***************************************************************************)
(* Auth: a client that takes itself for authenticated is, and a key that   *)
(* expires is renewed, for any number of retries and whatever happens to   *)
(* the key file.  The invariant says, for every place of the client, what  *)
(* is under way and where the server is, and that every retry has used up  *)
(* a key.  A multiplexed client that has Retried is beyond it: an          *)
(* invariant of its own says how it goes on (auth_client.c:495).           *)
(***************************************************************************)
(***************************************************************************)
(* The invariant                                                           *)
(***************************************************************************)
Codes     == {"no_error", "denied", "expired", "invalid"}
Readables == {"receive_methods", "dispatch_method", "receive_keytype", "receive_challenge",
              "receive_result", "receive_fin"}
Writables == {"ask_method", "send_keytype", "send_giveup"}
Results   == TryNext \cup {"none", "ok", "not_available", "protocol", "denied", "keyfile",
                           "timed_out"}

ClientStates ==
  [kind : Kinds, methods : SUBSET {"sharedsecret"}, wait : {"none", "read", "write"},
   readable : Readables, writable : Writables, server_methods : SUBSET {"sharedsecret", "gsi"},
   index : {1, 2}, method : {"none", "sharedsecret"}, try : Nat, key : Nat,
   again : BOOLEAN, error_save : {"ok", "keyfile"}, proto_error : Codes,
   last_error : {"ok"} \cup TryNext,
   result : Results]

ClientType == cl \in ClientStates /\ (cl.result = "none" <=> cl.wait # "none")

ServerStates ==
  [pc : {"start", "method", "user", "request", "response", "end"},
   methods : SUBSET {"sharedsecret", "gsi"}, known : BOOLEAN, try : Nat, result : Results]

ServerType == sv \in ServerStates /\ (sv.result = "none" <=> sv.pc # "end")

KeysType ==
  /\ keys \in [readable : BOOLEAN, key : Nat, last : Nat, expired : SUBSET Nat, events : Nat,
               replaced : BOOLEAN]
  /\ keys.key <= keys.last /\ cl.key <= keys.last
  /\ IsFiniteSet(keys.expired)

AuthTypeOK == ClientType /\ ServerType /\ KeysType

\* The client waits to read or to write, and cb will do it.
At(cb) == Waits("read", cb) \/ Waits("write", cb)

\* The server is at pc, and this is under way.
Facing(pc, up, down) == sv.pc = pc /\ c2s = up /\ s2c = down

Message(type, v) == [t |-> type, v |-> v]

\* The choice of a method.
Choosing ==
  /\ At("receive_methods") =>
       \/ Facing("start", <<>>, <<>>)
       \/ Facing("method", <<>>, <<Message("methods", sv.methods)>>)
  /\ At("ask_method") => Facing("method", <<>>, <<>>)
  /\ At("dispatch_method") =>
       \/ Facing("method", <<Message("method", cl.method)>>, <<>>)
       \/ /\ Facing(IF cl.method = "none" THEN "end" ELSE "user", <<>>, <<Code("no_error")>>)
          /\ sv.result # "ok"

\* The server has not read the name of the user yet, or awaits the request.
Asking(m) == \/ Facing("user", <<Message("user", 0), m>>, <<>>)
             \/ Facing("request", <<m>>, <<>>)

\* The shared secret.
Proving ==
  /\ At("send_keytype") => \/ Facing("user", <<Message("user", 0)>>, <<>>)
                         \/ Facing("request", <<>>, <<>>)
  /\ At("receive_keytype") =>
       \/ Asking(Message("request", "md5"))
       \/ Facing("response", <<>>, <<Code("no_error"), Message("challenge", 0)>>)
  /\ At("receive_challenge") => Facing("response", <<>>, <<Message("challenge", 0)>>)
  /\ At("receive_result") =>
       \/ Facing("response", <<Message("response", cl.key)>>, <<>>)
       \/ Facing("end", <<>>, <<Code("no_error")>>) /\ sv.result = "ok"
       \/ Facing("request", <<>>, <<Code("expired")>>)
       \/ Facing("request", <<>>, <<Code("invalid")>>)
  /\ At("send_giveup") => Facing("request", <<>>, <<>>)
  /\ At("receive_fin") =>
       \/ Asking(Message("request", "giveup"))
       \/ Facing("method", <<>>, <<Code("no_error")>>)

BothCan == "sharedsecret" \in cl.methods \cap sv.methods

\* What the client knows of the methods.
Knowing ==
  /\ cl.result # "none" \/ At("receive_methods") \/ cl.server_methods = sv.methods
  /\ At("dispatch_method") =>
       (cl.method = "sharedsecret" <=> cl.index = 1 /\ BothCan)
  /\ \A cb \in {"send_keytype", "receive_keytype", "receive_challenge", "receive_result",
                "send_giveup", "receive_fin"} : At(cb) => BothCan
  /\ cl.result # "none" \/ At("receive_fin") \/ cl.error_save = "ok"
  /\ At("send_keytype") /\ cl.kind = "mux" =>
       cl.readable = IF cl.try = 0 THEN "receive_keytype" ELSE "receive_result"
  /\ cl.index = 2 => BothCan /\ cl.last_error # "ok"
  /\ \/ At("receive_methods")
     \/ cl.index = 1 /\ (At("ask_method") \/ At("dispatch_method"))
     => cl.try = 0

\* A client may fail although both sides can: the user or the key file is not known,
\* another client replaced the key, or the key expired too often.
Excused == \/ ~sv.known \/ ~keys.readable \/ keys.replaced
           \/ Cardinality(keys.expired) >= RetryMax

Before(S, n) == {k \in S : k < n}

\* The expired keys before key n.
Spent(n) == Before(keys.expired, n)

\* Every retry has used up an expired key, and the client fails when it is excused.
Counting ==
  /\ cl.error_save = "keyfile" => ~keys.readable
  /\ At("send_keytype") => cl.try <= Cardinality(Spent(cl.key + 1))
  /\ At("receive_keytype") \/ At("receive_challenge") \/ At("receive_result") =>
       /\ cl.try <= Cardinality(Spent(cl.key))
       /\ keys.replaced \/ cl.key = keys.key
  /\ At("receive_result") /\ s2c = <<Code("expired")>> => cl.key \in keys.expired
  /\ At("receive_result") /\ s2c = <<Code("invalid")>> => Excused
  /\ At("send_giveup") \/ At("receive_fin") => Excused
  /\ cl.index = 2 => Excused

Agreed == Agreement /\ ExpiryForgiven

AuthInv == AuthTypeOK /\ Choosing /\ Proving /\ Knowing /\ Counting /\ Agreed

USE AuthAssumption

(***************************************************************************)
(* Facts about messages and keys                                           *)
(***************************************************************************)
LEMMA Messages ==
  /\ \A a : Append(<<>>, a) = <<a>> /\ Head(<<a>>) = a /\ Tail(<<a>>) = <<>> /\ <<a>> # <<>>
  /\ \A a, b : /\ Append(<<a>>, b) = <<a, b>> /\ <<a, b>> # <<>>
               /\ Head(<<a, b>>) = a /\ Tail(<<a, b>>) = <<b>>
  /\ \A a : <<>> \o <<a>> = <<a>> /\ <<a>> \o <<>> = <<a>>
  /\ \A a, b : <<a>> \o <<b>> = <<a, b>> /\ <<>> \o <<a, b>> = <<a, b>>
<1>1. ASSUME NEW a PROVE <<>> \o <<a>> = <<a>> /\ <<a>> \o <<>> = <<a>>
  BY ConcatEmptySeq, <<a>> \in Seq({a})
<1>2. ASSUME NEW a, NEW b PROVE <<a>> \o <<b>> = <<a, b>> /\ <<>> \o <<a, b>> = <<a, b>>
  <2>1. <<a>> \in Seq({a, b}) /\ <<b>> \in Seq({a, b}) /\ <<a, b>> \in Seq({a, b})
    OBVIOUS
  <2>2. /\ <<a>> \o <<b>> \in Seq({a, b}) /\ Len(<<a>> \o <<b>>) = 2
        /\ (<<a>> \o <<b>>)[1] = a /\ (<<a>> \o <<b>>)[2] = b
    BY <2>1, ConcatProperties
  <2>3. <<a>> \o <<b>> = <<a, b>>
    <3>1. Len(<<a, b>>) = 2 /\ <<a, b>>[1] = a /\ <<a, b>>[2] = b
      OBVIOUS
    <3>2. \A i \in 1 .. Len(<<a>> \o <<b>>) : (<<a>> \o <<b>>)[i] = <<a, b>>[i]
      BY <2>2, <3>1
    <3> QED
      BY <2>1, <2>2, <3>1, <3>2, SeqEqual
  <2> QED
    BY <2>1, <2>3, ConcatEmptySeq
<1>3. \A a : Append(<<>>, a) = <<a>> /\ Head(<<a>>) = a /\ Tail(<<a>>) = <<>> /\ <<a>> # <<>>
  OBVIOUS
<1>4. ASSUME NEW a, NEW b PROVE /\ Append(<<a>>, b) = <<a, b>> /\ <<a, b>> # <<>>
                                /\ Head(<<a, b>>) = a
  <2>1. <<a>> \in Seq({a, b}) /\ Len(<<a>>) = 1 /\ b \in {a, b}
    OBVIOUS
  <2>2. <<a, b>> \in Seq({a, b}) /\ Len(<<a, b>>) = 2
    OBVIOUS
  <2>3. /\ Append(<<a>>, b) \in Seq({a, b}) /\ Len(Append(<<a>>, b)) = 2
        /\ Append(<<a>>, b)[1] = a /\ Append(<<a>>, b)[2] = b
    BY <2>1, AppendProperties
  <2>4. \A i \in 1 .. Len(Append(<<a>>, b)) : Append(<<a>>, b)[i] = <<a, b>>[i]
    BY <2>2, <2>3
  <2>5. Append(<<a>>, b) = <<a, b>>
    BY <2>2, <2>3, <2>4, SeqEqual
  <2>6. <<a, b>> # <<>> /\ Head(<<a, b>>) = a
    OBVIOUS
  <2> QED
    BY <2>5, <2>6
<1>5. ASSUME NEW a, NEW b PROVE Tail(<<a, b>>) = <<b>>
  <2>1. <<a, b>> \in Seq({a, b}) /\ <<a, b>> # <<>> /\ <<b>> \in Seq({a, b}) /\ Len(<<a, b>>) = 2
    OBVIOUS
  <2>2. Tail(<<a, b>>) \in Seq({a, b}) /\ Len(Tail(<<a, b>>)) = 1 /\ Tail(<<a, b>>)[1] = b
    BY <2>1, HeadTailProperties
  <2> QED
    BY <2>1, <2>2, SeqEqual
<1> QED
  BY <1>1, <1>2, <1>3, <1>4, <1>5

LEMMA SpentGrows ==
  ASSUME NEW S, S \subseteq Nat, NEW T, T \subseteq Nat, IsFiniteSet(T), S \subseteq T,
         NEW m \in Nat, NEW n \in Nat, m <= n
  PROVE  Cardinality(Before(S, m)) <= Cardinality(Before(T, n))
<1> DEFINE A == Before(S, m)
           B == Before(T, n)
<1>1. B \subseteq T
  BY DEF Before
<1>2. A \subseteq B
  <2> SUFFICES ASSUME NEW k \in S, k < m PROVE k \in T /\ k < n
    BY DEF Before
  <2> QED
    OBVIOUS
<1>3. IsFiniteSet(B)
  BY <1>1, FS_Subset
<1> QED
  BY <1>2, <1>3, FS_Subset

LEMMA SpentIsNat ==
  ASSUME NEW S, IsFiniteSet(S), NEW n PROVE Cardinality(Before(S, n)) \in Nat
<1>1. Before(S, n) \subseteq S
  BY DEF Before
<1> QED
  BY <1>1, FS_Subset, FS_CardinalityType

LEMMA SpentOne ==
  ASSUME NEW S, S \subseteq Nat, IsFiniteSet(S), NEW n \in S
  PROVE  Cardinality(Before(S, n + 1)) = Cardinality(Before(S, n)) + 1
<1> DEFINE A == Before(S, n)
           B == Before(S, n + 1)
<1>1. A \subseteq S /\ n \notin A
  BY DEF Before
<1>2. B = A \cup {n}
  <2>1. ASSUME NEW k \in S PROVE k < n + 1 <=> k < n \/ k = n
    OBVIOUS
  <2> QED
    BY <2>1 DEF Before
<1>3. IsFiniteSet(A)
  BY <1>1, FS_Subset
<1> QED
  BY <1>1, <1>2, <1>3, FS_AddElement

(***************************************************************************)
(* The client                                                              *)
(***************************************************************************)
LEMMA EndKeeps ==
  ASSUME AuthInv, NEW e \in Results \ {"none"}, cl' = ClientEnds(cl, e), UNCHANGED <<sv, keys>>,
         e = "ok" => sv.result = "ok" /\ s2c' = <<>> /\ c2s' = <<>>,
         e \in {"ok", "timed_out"} \/ ~BothCan \/ Excused
  PROVE  AuthInv'
<1>1. cl' \in ClientStates
  BY DEF AuthInv, AuthTypeOK, ClientType, ClientStates, ClientEnds
<1>2. cl'.result = e /\ cl'.wait = "none"
  BY DEF AuthInv, AuthTypeOK, ClientType, ClientStates, ClientEnds
<1>3. /\ cl'.key = cl.key /\ cl'.kind = cl.kind /\ cl'.index = cl.index
      /\ cl'.methods = cl.methods /\ cl'.last_error = cl.last_error
      /\ cl'.error_save = cl.error_save
  BY DEF AuthInv, AuthTypeOK, ClientType, ClientStates, ClientEnds
<1>4. ClientType'
  BY <1>1, <1>2 DEF ClientType
<1>5. ServerType' /\ KeysType'
  BY <1>3 DEF AuthInv, AuthTypeOK, ServerType, KeysType
<1>6. \A cb : ~At(cb)'
  BY <1>2 DEF At, Waits
<1>7. Choosing' /\ Proving'
  BY <1>6 DEF Choosing, Proving
<1>8. BothCan' = BothCan /\ Excused' = Excused
  BY <1>3 DEF BothCan, Excused
<1>9. Knowing'
  BY <1>2, <1>3, <1>6, <1>8 DEF AuthInv, Knowing
<1>10. Counting'
  BY <1>3, <1>6, <1>8 DEF AuthInv, Counting
<1>11. Agreement'
  BY <1>2 DEF Agreement
<1>12. ExpiryForgiven'
  <2> SUFFICES ASSUME e \notin {"none", "timed_out"}, sv.known, keys.readable, ~keys.replaced,
                      BothCan, Cardinality(keys.expired) < RetryMax
               PROVE  e = "ok"
    BY <1>2, <1>3 DEF ExpiryForgiven, BothCan
  <2>1. Cardinality(keys.expired) \in Nat
    BY FS_CardinalityType DEF AuthInv, AuthTypeOK, KeysType
  <2> QED
    BY <2>1 DEF Excused
<1> QED
  BY <1>4, <1>5, <1>7, <1>9, <1>10, <1>11, <1>12 DEF AuthInv, AuthTypeOK, Agreed

LEMMA ReceiveMethodsKeeps == AuthInv /\ ReceiveMethods => AuthInv'
<1> SUFFICES ASSUME AuthInv, ReceiveMethods PROVE AuthInv'
  OBVIOUS
<1>1. /\ At("receive_methods") /\ Facing("method", <<>>, <<Message("methods", sv.methods)>>)
      /\ Head(s2c).v = sv.methods
  BY Messages DEF AuthInv, AuthTypeOK, ClientType, ClientStates, ServerType, ServerStates,
     ReceiveMethods, Receives, At, Waits, Choosing, Facing, Message
<1>2. /\ s2c' = <<>> /\ UNCHANGED <<sv, c2s, keys>>
      /\ cl' = [cl EXCEPT !.server_methods = sv.methods, !.index = 1, !.wait = "write",
                           !.writable = "ask_method"]
  BY <1>1, Messages DEF AuthInv, AuthTypeOK, ClientType, ClientStates, ReceiveMethods, Receives,
     Write, Facing, Message
<1>3. ClientType' /\ cl'.result = "none"
  <2>1. cl' \in ClientStates
    BY <1>1, <1>2 DEF AuthInv, AuthTypeOK, ClientType, ClientStates, KeysType, ServerType,
       ServerStates, Readables, Writables, Codes
  <2>2. cl'.result = "none" /\ cl'.wait \in {"read", "write"}
    BY <1>1, <1>2 DEF AuthInv, AuthTypeOK, ClientType, ClientStates, At, Waits
  <2> QED
    BY <2>1, <2>2 DEF ClientType
<1>4. ServerType'
  BY <1>2 DEF AuthInv, AuthTypeOK, ServerType
<1>5. KeysType'
  BY <1>2 DEF AuthInv, AuthTypeOK, ClientType, ClientStates, KeysType
<1>6. Choosing' /\ Proving'
  BY <1>1, <1>2 DEF AuthInv, AuthTypeOK, ClientType, ClientStates, Choosing, Proving, At, Waits,
     Facing, Asking
<1>7. Knowing'
  BY <1>1, <1>2 DEF AuthInv, AuthTypeOK, ClientType, ClientStates, Knowing, At, Waits, BothCan
<1>8. Counting'
  BY <1>1, <1>2 DEF AuthInv, AuthTypeOK, ClientType, ClientStates, Counting, At, Waits, Excused,
     Spent
<1>9. Agreed'
  BY <1>3 DEF Agreed, Agreement, ExpiryForgiven
<1> QED
  BY <1>3, <1>4, <1>5, <1>6, <1>7, <1>8, <1>9 DEF AuthInv, AuthTypeOK

LEMMA AskMethodKeeps == AuthInv /\ AskMethod => AuthInv'
<1> SUFFICES ASSUME AuthInv, AskMethod PROVE AuthInv'
  OBVIOUS
<1>1. At("ask_method") /\ Facing("method", <<>>, <<>>)
  BY Messages DEF AuthInv, AuthTypeOK, ClientType, ClientStates, ServerType, ServerStates,
     AskMethod, At, Choosing
<1>2. /\ c2s' = <<Message("method", cl'.method)>> /\ UNCHANGED <<sv, s2c, keys>>
      /\ cl'.method = IF cl.index = 1 /\ "sharedsecret" \in cl.methods \cap cl.server_methods
                      THEN "sharedsecret" ELSE "none"
      /\ cl' = [cl EXCEPT !.method = cl'.method, !.wait = "read", !.readable = "dispatch_method"]
  BY <1>1, Messages DEF AuthInv, AuthTypeOK, ClientType, ClientStates, AskMethod, Waits, CSend,
     Await, Facing, Message
<1>3. ClientType' /\ cl'.result = "none"
  <2>1. cl' \in ClientStates
    BY <1>1, <1>2 DEF AuthInv, AuthTypeOK, ClientType, ClientStates, KeysType, ServerType,
       ServerStates, Readables, Writables, Codes
  <2>2. cl'.result = "none" /\ cl'.wait \in {"read", "write"}
    BY <1>1, <1>2 DEF AuthInv, AuthTypeOK, ClientType, ClientStates, At, Waits
  <2> QED
    BY <2>1, <2>2 DEF ClientType
<1>4. ServerType'
  BY <1>2 DEF AuthInv, AuthTypeOK, ServerType
<1>5. KeysType'
  BY <1>2 DEF AuthInv, AuthTypeOK, ClientType, ClientStates, KeysType
<1>6. Choosing' /\ Proving'
  BY <1>1, <1>2 DEF AuthInv, AuthTypeOK, ClientType, ClientStates, Choosing, Proving, At, Waits,
     Facing, Asking
<1>7. Knowing'
  BY <1>1, <1>2 DEF AuthInv, AuthTypeOK, ClientType, ClientStates, Knowing, At, Waits, BothCan
<1>8. Counting'
  BY <1>1, <1>2 DEF AuthInv, AuthTypeOK, ClientType, ClientStates, Counting, At, Waits, Excused,
     Spent
<1>9. Agreed'
  BY <1>3 DEF Agreed, Agreement, ExpiryForgiven
<1> QED
  BY <1>3, <1>4, <1>5, <1>6, <1>7, <1>8, <1>9 DEF AuthInv, AuthTypeOK

LEMMA DispatchToSharedSecret == AuthInv /\ DispatchMethod /\ cl.method # "none" => AuthInv'
<1> SUFFICES ASSUME AuthInv, DispatchMethod, cl.method # "none" PROVE AuthInv'
  OBVIOUS
<1>1. /\ At("dispatch_method") /\ sv.result # "ok" /\ Head(s2c).v = "no_error"
      /\ Facing(IF cl.method = "none" THEN "end" ELSE "user", <<>>, <<Code("no_error")>>)
  BY Messages DEF AuthInv, AuthTypeOK, ClientType, ClientStates, ServerType, ServerStates,
     DispatchMethod, Receives, At, Waits, Choosing, Facing, Message, Code
<1>2. /\ s2c' = <<>> /\ UNCHANGED <<sv, keys>>
      /\ c2s' = <<Message("user", 0)>>
      /\ cl' = [cl EXCEPT !.wait = "write", !.writable = "send_keytype",
                           !.readable = "receive_keytype"]
  BY <1>1, Messages DEF AuthInv, AuthTypeOK, ClientType, ClientStates, DispatchMethod, Receives,
     Write, CSend, Facing, Message, Code
<1>3. ClientType' /\ cl'.result = "none"
  <2>1. cl' \in ClientStates
    BY <1>1, <1>2 DEF AuthInv, AuthTypeOK, ClientType, ClientStates, KeysType, ServerType,
       ServerStates, Readables, Writables, Codes
  <2>2. cl'.result = "none" /\ cl'.wait \in {"read", "write"}
    BY <1>1, <1>2 DEF AuthInv, AuthTypeOK, ClientType, ClientStates, At, Waits
  <2> QED
    BY <2>1, <2>2 DEF ClientType
<1>4. ServerType'
  BY <1>2 DEF AuthInv, AuthTypeOK, ServerType
<1>5. KeysType'
  BY <1>2 DEF AuthInv, AuthTypeOK, ClientType, ClientStates, KeysType
<1>6. Choosing' /\ Proving'
  BY <1>1, <1>2 DEF AuthInv, AuthTypeOK, ClientType, ClientStates, Choosing, Proving, At, Waits,
     Facing, Asking
<1>7. Knowing'
  BY <1>1, <1>2 DEF AuthInv, AuthTypeOK, ClientType, ClientStates, Knowing, At, Waits, BothCan
<1>8. Counting'
  <2>1. Cardinality(Spent(cl.key + 1)) \in Nat
    BY SpentIsNat DEF AuthInv, AuthTypeOK, KeysType, Spent
  <2>2. cl.try = 0 /\ cl'.key = cl.key
    BY <1>1, <1>2 DEF AuthInv, AuthTypeOK, ClientType, ClientStates, Knowing
  <2>3. Spent(cl.key + 1)' = Spent(cl.key + 1)
    BY <1>2, <2>2 DEF Spent
  <2> QED
    BY <1>1, <1>2, <2>1, <2>2, <2>3 DEF AuthInv, AuthTypeOK, ClientType, ClientStates, Counting,
       At, Waits, Excused
<1>9. Agreed'
  BY <1>3 DEF Agreed, Agreement, ExpiryForgiven
<1> QED
  BY <1>3, <1>4, <1>5, <1>6, <1>7, <1>8, <1>9 DEF AuthInv, AuthTypeOK

LEMMA DispatchToNone == AuthInv /\ DispatchMethod /\ cl.method = "none" => AuthInv'
<1> SUFFICES ASSUME AuthInv, DispatchMethod, cl.method = "none" PROVE AuthInv'
  OBVIOUS
<1>1. /\ At("dispatch_method") /\ sv.result # "ok" /\ Head(s2c).v = "no_error"
      /\ Facing(IF cl.method = "none" THEN "end" ELSE "user", <<>>, <<Code("no_error")>>)
  BY Messages DEF AuthInv, AuthTypeOK, ClientType, ClientStates, ServerType, ServerStates,
     DispatchMethod, Receives, At, Waits, Choosing, Facing, Message, Code
<1>2. PICK e \in Results \ {"none"} :
        /\ cl' = ClientEnds(cl, e) /\ UNCHANGED <<sv, keys>>
        /\ e = "ok" => sv.result = "ok" /\ s2c' = <<>> /\ c2s' = <<>>
        /\ e \in {"ok", "timed_out"} \/ ~BothCan \/ Excused
  BY <1>1, Messages DEF AuthInv, AuthTypeOK, ClientType, ClientStates, DispatchMethod, Receives,
     Results, TryNext, Facing, Message, Code, Knowing, Counting, BothCan, At, Waits
<1> QED
  BY <1>2, EndKeeps

LEMMA DispatchMethodKeeps == AuthInv /\ DispatchMethod => AuthInv'
  BY DispatchToSharedSecret, DispatchToNone

LEMMA ReceiveKeytypeKeeps == AuthInv /\ ReceiveKeytype => AuthInv'
<1> SUFFICES ASSUME AuthInv, ReceiveKeytype PROVE AuthInv'
  OBVIOUS
<1>1. /\ At("receive_keytype") /\ Head(s2c).v = "no_error"
      /\ Facing("response", <<>>, <<Code("no_error"), Message("challenge", 0)>>)
  BY Messages DEF AuthInv, AuthTypeOK, ClientType, ClientStates, ServerType, ServerStates,
     ReceiveKeytype, Receives, At, Waits, Proving, Facing, Asking, Message, Code
<1>2. /\ s2c' = <<Message("challenge", 0)>> /\ UNCHANGED <<sv, c2s, keys>>
      /\ cl' = [cl EXCEPT !.wait = "read", !.readable = "receive_challenge"]
  BY <1>1, Messages DEF AuthInv, AuthTypeOK, ClientType, ClientStates, ReceiveKeytype, Receives,
     Await, Facing, Message, Code
<1>3. ClientType' /\ cl'.result = "none"
  <2>1. cl' \in ClientStates
    BY <1>1, <1>2 DEF AuthInv, AuthTypeOK, ClientType, ClientStates, KeysType, ServerType,
       ServerStates, Readables, Writables, Codes
  <2>2. cl'.result = "none" /\ cl'.wait \in {"read", "write"}
    BY <1>1, <1>2 DEF AuthInv, AuthTypeOK, ClientType, ClientStates, At, Waits
  <2> QED
    BY <2>1, <2>2 DEF ClientType
<1>4. ServerType'
  BY <1>2 DEF AuthInv, AuthTypeOK, ServerType
<1>5. KeysType'
  BY <1>2 DEF AuthInv, AuthTypeOK, ClientType, ClientStates, KeysType
<1>6. Choosing' /\ Proving'
  BY <1>1, <1>2 DEF AuthInv, AuthTypeOK, ClientType, ClientStates, Choosing, Proving, At, Waits,
     Facing, Asking
<1>7. Knowing'
  BY <1>1, <1>2 DEF AuthInv, AuthTypeOK, ClientType, ClientStates, Knowing, At, Waits, BothCan
<1>8. Counting'
  BY <1>1, <1>2 DEF AuthInv, AuthTypeOK, ClientType, ClientStates, Counting, At, Waits, Excused,
     Spent
<1>9. Agreed'
  BY <1>3 DEF Agreed, Agreement, ExpiryForgiven
<1> QED
  BY <1>3, <1>4, <1>5, <1>6, <1>7, <1>8, <1>9 DEF AuthInv, AuthTypeOK

LEMMA ReceiveChallengeKeeps == AuthInv /\ ReceiveChallenge => AuthInv'
<1> SUFFICES ASSUME AuthInv, ReceiveChallenge PROVE AuthInv'
  OBVIOUS
<1>1. /\ At("receive_challenge") /\ Facing("response", <<>>, <<Message("challenge", 0)>>)
  BY Messages DEF AuthInv, AuthTypeOK, ClientType, ClientStates, ServerType, ServerStates,
     ReceiveChallenge, Receives, At, Waits, Proving, Facing, Message
<1>2. /\ c2s' = <<Message("response", cl.key)>> /\ s2c' = <<>> /\ UNCHANGED <<sv, keys>>
      /\ cl' = [cl EXCEPT !.wait = "read", !.readable = "receive_result"]
  BY <1>1, Messages DEF AuthInv, AuthTypeOK, ClientType, ClientStates, ReceiveChallenge, Receives,
     Await, CSend, Facing, Message
<1>3. ClientType' /\ cl'.result = "none"
  <2>1. cl' \in ClientStates
    BY <1>1, <1>2 DEF AuthInv, AuthTypeOK, ClientType, ClientStates, KeysType, ServerType,
       ServerStates, Readables, Writables, Codes
  <2>2. cl'.result = "none" /\ cl'.wait \in {"read", "write"}
    BY <1>1, <1>2 DEF AuthInv, AuthTypeOK, ClientType, ClientStates, At, Waits
  <2> QED
    BY <2>1, <2>2 DEF ClientType
<1>4. ServerType'
  BY <1>2 DEF AuthInv, AuthTypeOK, ServerType
<1>5. KeysType'
  BY <1>2 DEF AuthInv, AuthTypeOK, ClientType, ClientStates, KeysType
<1>6. Choosing' /\ Proving'
  BY <1>1, <1>2 DEF AuthInv, AuthTypeOK, ClientType, ClientStates, Choosing, Proving, At, Waits,
     Facing, Asking
<1>7. Knowing'
  BY <1>1, <1>2 DEF AuthInv, AuthTypeOK, ClientType, ClientStates, Knowing, At, Waits, BothCan
<1>8. Counting'
  BY <1>1, <1>2 DEF AuthInv, AuthTypeOK, ClientType, ClientStates, Counting, At, Waits, Excused,
     Spent
<1>9. Agreed'
  BY <1>3 DEF Agreed, Agreement, ExpiryForgiven
<1> QED
  BY <1>3, <1>4, <1>5, <1>6, <1>7, <1>8, <1>9 DEF AuthInv, AuthTypeOK

LEMMA SendGiveupKeeps == AuthInv /\ SendGiveup => AuthInv'
<1> SUFFICES ASSUME AuthInv, SendGiveup PROVE AuthInv'
  OBVIOUS
<1>1. /\ At("send_giveup") /\ Facing("request", <<>>, <<>>)
  BY Messages DEF AuthInv, AuthTypeOK, ClientType, ClientStates, ServerType, ServerStates,
     SendGiveup, Waits, At, Proving, Facing
<1>2. /\ c2s' = <<Message("request", "giveup")>> /\ UNCHANGED <<sv, s2c, keys>>
      /\ cl' = [cl EXCEPT !.wait = "read", !.readable = "receive_fin"]
  BY <1>1, Messages DEF AuthInv, AuthTypeOK, ClientType, ClientStates, SendGiveup, Waits, Await,
     CSend, Facing, Message
<1>3. ClientType' /\ cl'.result = "none"
  <2>1. cl' \in ClientStates
    BY <1>1, <1>2 DEF AuthInv, AuthTypeOK, ClientType, ClientStates, KeysType, ServerType,
       ServerStates, Readables, Writables, Codes
  <2>2. cl'.result = "none" /\ cl'.wait \in {"read", "write"}
    BY <1>1, <1>2 DEF AuthInv, AuthTypeOK, ClientType, ClientStates, At, Waits
  <2> QED
    BY <2>1, <2>2 DEF ClientType
<1>4. ServerType'
  BY <1>2 DEF AuthInv, AuthTypeOK, ServerType
<1>5. KeysType'
  BY <1>2 DEF AuthInv, AuthTypeOK, ClientType, ClientStates, KeysType
<1>6. Choosing' /\ Proving'
  BY <1>1, <1>2 DEF AuthInv, AuthTypeOK, ClientType, ClientStates, Choosing, Proving, At, Waits,
     Facing, Asking
<1>7. Knowing'
  BY <1>1, <1>2 DEF AuthInv, AuthTypeOK, ClientType, ClientStates, Knowing, At, Waits, BothCan
<1>8. Counting'
  BY <1>1, <1>2 DEF AuthInv, AuthTypeOK, ClientType, ClientStates, Counting, At, Waits, Excused,
     Spent
<1>9. Agreed'
  BY <1>3 DEF Agreed, Agreement, ExpiryForgiven
<1> QED
  BY <1>3, <1>4, <1>5, <1>6, <1>7, <1>8, <1>9 DEF AuthInv, AuthTypeOK

LEMMA ReceiveFinKeyfile == AuthInv /\ ReceiveFin /\ cl.error_save # "ok" => AuthInv'
<1> SUFFICES ASSUME AuthInv, ReceiveFin, cl.error_save # "ok" PROVE AuthInv'
  OBVIOUS
<1>1. /\ At("receive_fin") /\ Facing("method", <<>>, <<Code("no_error")>>)
  BY Messages DEF AuthInv, AuthTypeOK, ClientType, ClientStates, ServerType, ServerStates,
     ReceiveFin, Receives, At, Waits, Proving, Facing, Asking, Message, Code
<1>2. PICK e \in Results \ {"none"} :
        /\ cl' = ClientEnds(cl, e) /\ UNCHANGED <<sv, keys>>
        /\ e = "ok" => sv.result = "ok" /\ s2c' = <<>> /\ c2s' = <<>>
        /\ e \in {"ok", "timed_out"} \/ ~BothCan \/ Excused
  BY <1>1, Messages DEF AuthInv, AuthTypeOK, ClientType, ClientStates, ReceiveFin, Receives,
     NextMethod, Results, TryNext, Facing, Counting
<1> QED
  BY <1>2, EndKeeps

LEMMA ReceiveFinNext == AuthInv /\ ReceiveFin /\ cl.error_save = "ok" => AuthInv'
<1> SUFFICES ASSUME AuthInv, ReceiveFin, cl.error_save = "ok" PROVE AuthInv'
  OBVIOUS
<1>1. /\ At("receive_fin") /\ Facing("method", <<>>, <<Code("no_error")>>)
  BY Messages DEF AuthInv, AuthTypeOK, ClientType, ClientStates, ServerType, ServerStates,
     ReceiveFin, Receives, At, Waits, Proving, Facing, Asking, Message, Code
<1>2. /\ s2c' = <<>> /\ UNCHANGED <<sv, c2s, keys>>
      /\ cl'.last_error \in TryNext
      /\ cl' = [cl EXCEPT !.last_error = cl'.last_error, !.index = 2, !.wait = "write",
                           !.writable = "ask_method"]
  BY <1>1, Messages DEF AuthInv, AuthTypeOK, ClientType, ClientStates, ReceiveFin, Receives,
     NextMethod, TryNext, Write, Facing
<1>3. ClientType' /\ cl'.result = "none"
  <2>1. cl' \in ClientStates
    BY <1>1, <1>2 DEF AuthInv, AuthTypeOK, ClientType, ClientStates, KeysType, ServerType,
       ServerStates, Readables, Writables, Codes
  <2>2. cl'.result = "none" /\ cl'.wait \in {"read", "write"}
    BY <1>1, <1>2 DEF AuthInv, AuthTypeOK, ClientType, ClientStates, At, Waits
  <2> QED
    BY <2>1, <2>2 DEF ClientType
<1>4. ServerType'
  BY <1>2 DEF AuthInv, AuthTypeOK, ServerType
<1>5. KeysType'
  BY <1>2 DEF AuthInv, AuthTypeOK, ClientType, ClientStates, KeysType
<1>6. Choosing' /\ Proving'
  BY <1>1, <1>2 DEF AuthInv, AuthTypeOK, ClientType, ClientStates, Choosing, Proving, At, Waits,
     Facing, Asking
<1>7. Knowing'
  <2>1. BothCan
    BY <1>1 DEF AuthInv, Knowing
  <2>2. cl'.last_error # "ok" /\ BothCan'
    BY <1>2, <2>1 DEF AuthInv, AuthTypeOK, ClientType, ClientStates, BothCan, TryNext
  <2>3. cl.server_methods = sv.methods
    BY <1>1 DEF AuthInv, AuthTypeOK, ClientType, Knowing, At, Waits
  <2>4. /\ cl'.wait = "write" /\ cl'.writable = "ask_method" /\ cl'.index = 2
        /\ cl'.server_methods = cl.server_methods /\ cl'.error_save = cl.error_save
    BY <1>2 DEF AuthInv, AuthTypeOK, ClientType, ClientStates
  <2> QED
    BY <1>2, <2>2, <2>3, <2>4 DEF Knowing, At, Waits
<1>8. Counting'
  BY <1>1, <1>2 DEF AuthInv, AuthTypeOK, ClientType, ClientStates, Counting, At, Waits, Excused,
     Spent
<1>9. Agreed'
  BY <1>3 DEF Agreed, Agreement, ExpiryForgiven
<1> QED
  BY <1>3, <1>4, <1>5, <1>6, <1>7, <1>8, <1>9 DEF AuthInv, AuthTypeOK

LEMMA ReceiveFinKeeps == AuthInv /\ ReceiveFin => AuthInv'
  BY ReceiveFinKeyfile, ReceiveFinNext

LEMMA ReceiveResultAccepted == AuthInv /\ ReceiveResult /\ Head(s2c).v = "no_error" => AuthInv'
<1> SUFFICES ASSUME AuthInv, ReceiveResult, Head(s2c).v = "no_error" PROVE AuthInv'
  OBVIOUS
<1>1. c2s = <<>> /\ s2c = <<Code("no_error")>> /\ sv.result = "ok"
  BY Messages DEF AuthInv, ReceiveResult, Receives, At, Waits, Proving, Facing, Message, Code
<1>2. s2c' = <<>> /\ UNCHANGED <<sv, c2s, keys>> /\ cl' = ClientEnds(cl, "ok")
  BY <1>1, Messages DEF ReceiveResult, Receives
<1> QED
  BY <1>1, <1>2, EndKeeps DEF Results

LEMMA ReceiveResultAgain ==
  AuthInv /\ ReceiveResult /\ Head(s2c).v = "expired" /\ cl.try + 1 < RetryMax => AuthInv'
<1> SUFFICES ASSUME AuthInv, ReceiveResult, Head(s2c).v = "expired" /\ cl.try + 1 < RetryMax
             PROVE  AuthInv'
  OBVIOUS
<1>1. /\ At("receive_result") /\ sv.pc = "request" /\ c2s = <<>>
      /\ s2c = <<Code("expired")>> /\ cl.key \in keys.expired
  BY Messages DEF AuthInv, AuthTypeOK, ClientType, ClientStates, ServerType, ServerStates,
     ReceiveResult, Receives, At, Waits, Proving, Facing, Message, Code, Counting
<1>2. /\ s2c' = <<>> /\ UNCHANGED <<sv, c2s, keys>> /\ cl.try + 1 \in Nat
      /\ cl' = [cl EXCEPT !.proto_error = "expired", !.try = cl.try + 1, !.wait = "write",
                           !.writable = "send_keytype"]
  <2>1. s2c # <<>> /\ s2c' = Tail(s2c) /\ UNCHANGED <<sv, c2s, keys>>
        /\ cl' = Write([cl EXCEPT !.proto_error = Head(s2c).v, !.try = @ + 1], "send_keytype")
    BY <1>1 DEF ReceiveResult, Receives
  <2>2. s2c' = <<>>
    BY <1>1, <2>1, Messages
  <2>3. cl.try + 1 \in Nat
    BY DEF AuthInv, AuthTypeOK, ClientType, ClientStates
  <2> QED
    BY <1>1, <2>1, <2>2, <2>3 DEF Write
<1>3. ClientType' /\ cl'.result = "none"
  <2>1. cl' \in ClientStates
    BY <1>1, <1>2 DEF AuthInv, AuthTypeOK, ClientType, ClientStates, KeysType, ServerType,
       ServerStates, Readables, Writables, Codes
  <2>2. cl'.result = "none" /\ cl'.wait \in {"read", "write"}
    BY <1>1, <1>2 DEF AuthInv, AuthTypeOK, ClientType, ClientStates, At, Waits
  <2> QED
    BY <2>1, <2>2 DEF ClientType
<1>4. ServerType'
  BY <1>2 DEF AuthInv, AuthTypeOK, ServerType
<1>5. KeysType'
  BY <1>2 DEF AuthInv, AuthTypeOK, ClientType, ClientStates, KeysType
<1>6. Choosing' /\ Proving'
  BY <1>1, <1>2 DEF AuthInv, AuthTypeOK, ClientType, ClientStates, Choosing, Proving, At, Waits,
     Facing, Asking
<1>7. Knowing'
  <2>0. At("receive_result")
    BY <1>1
  <2>1. BothCan /\ cl.server_methods = sv.methods
    BY <2>0 DEF AuthInv, AuthTypeOK, ClientType, Knowing, At, Waits
  <2>2. cl.readable = "receive_result" /\ cl.try + 1 # 0
    BY <2>0 DEF AuthInv, AuthTypeOK, ClientType, ClientStates, At, Waits, Writables
  <2>3. cl.error_save = "ok" /\ (cl.index = 2 => cl.last_error # "ok")
    BY <1>1 DEF AuthInv, AuthTypeOK, ClientType, Knowing, At, Waits
  <2>4. /\ cl'.wait = "write" /\ cl'.writable = "send_keytype" /\ cl'.kind = cl.kind
        /\ cl'.index = cl.index /\ cl'.last_error = cl.last_error /\ cl'.methods = cl.methods
        /\ cl'.server_methods = cl.server_methods /\ cl'.error_save = cl.error_save
        /\ cl'.readable = cl.readable /\ cl'.try = cl.try + 1
    BY <1>2 DEF AuthInv, AuthTypeOK, ClientType, ClientStates
  <2> QED
    BY <1>2, <2>1, <2>2, <2>3, <2>4 DEF Knowing, At, Waits, BothCan
<1>8. Counting'
  <2>1. Cardinality(Spent(cl.key + 1)) = Cardinality(Spent(cl.key)) + 1
    BY <1>1, SpentOne DEF AuthInv, AuthTypeOK, KeysType, Spent
  <2>2. Cardinality(Spent(cl.key)) \in Nat
    BY SpentIsNat DEF AuthInv, AuthTypeOK, KeysType, Spent
  <2>3. cl.try <= Cardinality(Spent(cl.key))
    BY <1>1 DEF AuthInv, Counting
  <2>4. Spent(cl.key + 1)' = Spent(cl.key + 1) /\ Excused' = Excused
    BY <1>2 DEF AuthInv, AuthTypeOK, ClientType, ClientStates, Spent, Excused
  <2>5. cl'.try <= Cardinality(Spent(cl.key + 1))'
    BY <1>2, <2>1, <2>2, <2>3, <2>4 DEF AuthInv, AuthTypeOK, ClientType, ClientStates
  <2>6. /\ cl'.wait = "write" /\ cl'.writable = "send_keytype"
        /\ cl'.index = cl.index /\ cl'.error_save = cl.error_save
    BY <1>2 DEF AuthInv, AuthTypeOK, ClientType, ClientStates
  <2> QED
    BY <1>2, <2>4, <2>5, <2>6 DEF AuthInv, Counting, At, Waits
<1>9. Agreed'
  BY <1>3 DEF Agreed, Agreement, ExpiryForgiven
<1> QED
  BY <1>3, <1>4, <1>5, <1>6, <1>7, <1>8, <1>9 DEF AuthInv, AuthTypeOK

LEMMA ReceiveResultRefused ==
  /\ AuthInv /\ ReceiveResult /\ Head(s2c).v # "no_error"
  /\ ~(Head(s2c).v = "expired" /\ cl.try + 1 < RetryMax)
  => AuthInv'
<1> SUFFICES ASSUME AuthInv, ReceiveResult, Head(s2c).v # "no_error",
                    ~(Head(s2c).v = "expired" /\ cl.try + 1 < RetryMax)
             PROVE  AuthInv'
  OBVIOUS
<1>1. /\ At("receive_result") /\ sv.pc = "request" /\ c2s = <<>>
      /\ s2c \in {<<Code("expired")>>, <<Code("invalid")>>}
      /\ s2c = <<Code("expired")>> => Head(s2c).v = "expired" /\ cl.key \in keys.expired
      /\ Head(s2c).v \in Codes
      /\ s2c = <<Code("invalid")>> => Excused
  BY Messages DEF AuthInv, AuthTypeOK, ClientType, ClientStates, ServerType, ServerStates,
     ReceiveResult, Receives, At, Waits, Proving, Facing, Message, Code, Counting, Codes
<1>2. /\ s2c' = <<>> /\ UNCHANGED <<sv, c2s, keys>> /\ cl.try + 1 \in Nat
      /\ Head(s2c).v \in Codes
      /\ cl' = [cl EXCEPT !.proto_error = Head(s2c).v, !.try = cl.try + 1, !.wait = "write",
                           !.writable = "send_giveup"]
  <2>1. s2c # <<>> /\ s2c' = Tail(s2c) /\ UNCHANGED <<sv, c2s, keys>>
        /\ cl' = Write([cl EXCEPT !.proto_error = Head(s2c).v, !.try = @ + 1], "send_giveup")
    BY <1>1 DEF ReceiveResult, Receives
  <2>2. s2c' = <<>>
    BY <1>1, <2>1, Messages
  <2>3. cl.try + 1 \in Nat
    BY DEF AuthInv, AuthTypeOK, ClientType, ClientStates
  <2> QED
    BY <1>1, <2>1, <2>2, <2>3 DEF Write
<1>3. ClientType' /\ cl'.result = "none"
  <2>1. cl' \in ClientStates
    BY <1>1, <1>2 DEF AuthInv, AuthTypeOK, ClientType, ClientStates, KeysType, ServerType,
       ServerStates, Readables, Writables, Codes
  <2>2. cl'.result = "none" /\ cl'.wait \in {"read", "write"}
    BY <1>1, <1>2 DEF AuthInv, AuthTypeOK, ClientType, ClientStates, At, Waits
  <2> QED
    BY <2>1, <2>2 DEF ClientType
<1>4. ServerType'
  BY <1>2 DEF AuthInv, AuthTypeOK, ServerType
<1>5. KeysType'
  BY <1>2 DEF AuthInv, AuthTypeOK, ClientType, ClientStates, KeysType
<1>6. Choosing' /\ Proving'
  BY <1>1, <1>2 DEF AuthInv, AuthTypeOK, ClientType, ClientStates, Choosing, Proving, At, Waits,
     Facing, Asking
<1>7. Knowing'
  <2>0. At("receive_result")
    BY <1>1
  <2>1. BothCan /\ cl.server_methods = sv.methods
    BY <2>0 DEF AuthInv, AuthTypeOK, ClientType, Knowing, At, Waits
  <2>3. cl.error_save = "ok" /\ (cl.index = 2 => cl.last_error # "ok")
    BY <1>1 DEF AuthInv, AuthTypeOK, ClientType, Knowing, At, Waits
  <2>4. /\ cl'.wait = "write" /\ cl'.writable = "send_giveup"
        /\ cl'.index = cl.index /\ cl'.last_error = cl.last_error /\ cl'.methods = cl.methods
        /\ cl'.server_methods = cl.server_methods /\ cl'.error_save = cl.error_save
    BY <1>2 DEF AuthInv, AuthTypeOK, ClientType, ClientStates
  <2> QED
    BY <1>2, <2>1, <2>3, <2>4 DEF Knowing, At, Waits, BothCan
<1>8. Counting'
  <2>1. ASSUME s2c = <<Code("expired")>> PROVE Cardinality(keys.expired) >= RetryMax
    <3>1. cl.key \in keys.expired /\ cl.try + 1 >= RetryMax
      BY <1>1, <2>1 DEF AuthInv, AuthTypeOK, ClientType, ClientStates
    <3>2. Cardinality(Spent(cl.key + 1)) = Cardinality(Spent(cl.key)) + 1
      BY <3>1, SpentOne DEF AuthInv, AuthTypeOK, KeysType, Spent
    <3>3. Cardinality(Spent(cl.key)) \in Nat /\ cl.try <= Cardinality(Spent(cl.key))
      BY <1>1, SpentIsNat DEF AuthInv, AuthTypeOK, KeysType, Spent, Counting
    <3>4. Cardinality(Spent(cl.key + 1)) <= Cardinality(keys.expired)
      BY Spent(cl.key + 1) \subseteq keys.expired, FS_Subset
      DEF AuthInv, AuthTypeOK, KeysType, Spent, Before
    <3>5. Cardinality(keys.expired) \in Nat
      BY FS_CardinalityType DEF AuthInv, AuthTypeOK, KeysType
    <3> QED
      BY <3>1, <3>2, <3>3, <3>4, <3>5 DEF AuthInv, AuthTypeOK, ClientType, ClientStates
  <2>2. Excused
    BY <1>1, <2>1 DEF Excused
  <2>3. /\ cl'.wait = "write" /\ cl'.writable = "send_giveup"
        /\ cl'.index = cl.index /\ cl'.error_save = cl.error_save
    BY <1>2 DEF AuthInv, AuthTypeOK, ClientType, ClientStates
  <2>4. Excused'
    BY <1>2, <2>2 DEF Excused
  <2> QED
    BY <1>2, <2>3, <2>4 DEF AuthInv, Counting, At, Waits
<1>9. Agreed'
  BY <1>3 DEF Agreed, Agreement, ExpiryForgiven
<1> QED
  BY <1>3, <1>4, <1>5, <1>6, <1>7, <1>8, <1>9 DEF AuthInv, AuthTypeOK

LEMMA ReceiveResultKeeps == AuthInv /\ ReceiveResult => AuthInv'
  BY ReceiveResultAccepted, ReceiveResultAgain, ReceiveResultRefused

LEMMA SendKeytypeMade ==
  AuthInv /\ SendKeytype /\ keys.readable /\ ~(cl.kind = "mux" /\ cl.try # 0) => AuthInv'
<1> SUFFICES ASSUME AuthInv, SendKeytype, keys.readable, ~(cl.kind = "mux" /\ cl.try # 0)
             PROVE  AuthInv'
  OBVIOUS
<1>1. /\ At("send_keytype")
      /\ Facing("user", <<Message("user", 0)>>, <<>>) \/ Facing("request", <<>>, <<>>)
  BY Messages DEF AuthInv, AuthTypeOK, ClientType, ClientStates, ServerType, ServerStates,
     SendKeytype, Waits, At, Proving, Facing
<1>2. /\ Facing("user", c2s, s2c) => c2s' = <<Message("user", 0), Message("request", "md5")>>
      /\ Facing("request", c2s, s2c) => c2s' = <<Message("request", "md5")>>
      /\ UNCHANGED <<sv, s2c>>
      /\ keys'.key \in Nat /\ (cl.again \/ cl.try > 0) \in BOOLEAN
      /\ cl' = [cl EXCEPT !.key = keys'.key, !.again = (cl.again \/ cl.try > 0), !.wait = "read",
                           !.readable = "receive_keytype"]
      /\ \/ UNCHANGED keys /\ cl.try = 0
         \/ keys' = [keys EXCEPT !.key = keys.last + 1, !.last = @ + 1]
  <2> DEFINE k == SharedKeyGet(IF cl.try = 0 THEN "create" ELSE "force")
  <2>1. /\ k.e = "ok" /\ k.key = k.keys.key /\ k.key \in Nat
        /\ \/ k.keys = keys /\ cl.try = 0
           \/ k.keys = [keys EXCEPT !.key = keys.last + 1, !.last = @ + 1]
    BY DEF SharedKeyGet, AuthInv, AuthTypeOK, KeysType
  <2>2. /\ keys' = k.keys /\ CSend(Message("request", "md5")) /\ UNCHANGED <<sv, s2c>>
        /\ cl' = Await([cl EXCEPT !.key = k.key, !.again = (cl.again \/ cl.try > 0)],
                         IF cl.kind = "mux" THEN cl.readable ELSE "receive_keytype")
    BY <2>1 DEF SendKeytype, Message
  <2> HIDE DEF k
  <2>3. cl.kind = "mux" => cl.readable = "receive_keytype"
    BY <1>1 DEF AuthInv, Knowing
  <2>4. cl' = [cl EXCEPT !.key = keys'.key, !.again = (cl.again \/ cl.try > 0), !.wait = "read",
                         !.readable = "receive_keytype"]
    BY <2>1, <2>2, <2>3 DEF AuthInv, AuthTypeOK, ClientType, ClientStates, Await
  <2>5. /\ Facing("user", c2s, s2c) => c2s' = <<Message("user", 0), Message("request", "md5")>>
        /\ Facing("request", c2s, s2c) => c2s' = <<Message("request", "md5")>>
    <3>1. c2s' = Append(c2s, Message("request", "md5"))
      BY <2>2 DEF CSend
    <3>2. CASE Facing("user", <<Message("user", 0)>>, <<>>)
      BY <3>1, <3>2, Messages DEF Facing
    <3>3. CASE Facing("request", <<>>, <<>>)
      BY <3>1, <3>3, Messages DEF Facing
    <3> QED
      BY <1>1, <3>2, <3>3
  <2> QED
    BY <2>1, <2>2, <2>4, <2>5
<1>3. ClientType' /\ cl'.result = "none"
  <2>1. cl' \in ClientStates
    BY <1>1, <1>2 DEF AuthInv, AuthTypeOK, ClientType, ClientStates, KeysType, ServerType,
       ServerStates, Readables, Writables, Codes
  <2>2. cl'.result = "none" /\ cl'.wait \in {"read", "write"}
    BY <1>1, <1>2 DEF AuthInv, AuthTypeOK, ClientType, ClientStates, At, Waits
  <2> QED
    BY <2>1, <2>2 DEF ClientType
<1>4. ServerType'
  BY <1>2 DEF AuthInv, AuthTypeOK, ServerType
<1>5. KeysType'
  <2>1. CASE UNCHANGED keys
    BY <1>2, <2>1 DEF AuthInv, AuthTypeOK, ClientType, ClientStates, KeysType
  <2>2. CASE keys' = [keys EXCEPT !.key = keys.last + 1, !.last = @ + 1]
    <3>1. keys.last + 1 \in Nat
      BY DEF AuthInv, AuthTypeOK, KeysType
    <3>2. cl'.kind = cl.kind /\ cl'.key = keys'.key
      BY <1>2 DEF AuthInv, AuthTypeOK, ClientType, ClientStates
    <3>3. /\ keys'.expired = keys.expired /\ keys'.key = keys'.last
          /\ keys' \in [readable : BOOLEAN, key : Nat, last : Nat, expired : SUBSET Nat, events : Nat,
                        replaced : BOOLEAN]
      BY <2>2, <3>1 DEF AuthInv, AuthTypeOK, KeysType
    <3> QED
      BY <3>2, <3>3 DEF AuthInv, AuthTypeOK, KeysType
  <2> QED
    BY <1>2, <2>1, <2>2
<1>6. Choosing' /\ Proving'
  BY <1>1, <1>2 DEF AuthInv, AuthTypeOK, ClientType, ClientStates, Choosing, Proving, At, Waits,
     Facing, Asking
<1>7. Knowing'
  BY <1>1, <1>2 DEF AuthInv, AuthTypeOK, ClientType, ClientStates, Knowing, At, Waits, BothCan
<1>8. Counting'
  <2>1. /\ cl'.wait = "read" /\ cl'.readable = "receive_keytype" /\ cl'.try = cl.try
        /\ cl'.index = cl.index /\ cl'.error_save = cl.error_save
    BY <1>2 DEF AuthInv, AuthTypeOK, ClientType, ClientStates
  <2>2. /\ keys'.expired = keys.expired /\ keys'.readable = keys.readable
        /\ keys'.replaced = keys.replaced
    BY <1>2 DEF AuthInv, AuthTypeOK, KeysType
  <2>3. Excused' = Excused
    BY <1>2, <2>2 DEF Excused
  <2>4. cl.try <= Cardinality(Spent(cl.key)')
    <3>1. CASE cl.try = 0
      <4>1. Spent(cl.key)' = Before(keys.expired, cl'.key)
        BY <2>2 DEF Spent
      <4> QED
        BY <3>1, <4>1, SpentIsNat DEF AuthInv, AuthTypeOK, KeysType
    <3>2. CASE keys' = [keys EXCEPT !.key = keys.last + 1, !.last = @ + 1]
      <4>1. cl'.key = keys.last + 1 /\ cl.key \in Nat /\ keys.last \in Nat /\ cl.key <= keys.last
        BY <1>2, <3>2 DEF AuthInv, AuthTypeOK, ClientType, ClientStates, KeysType
      <4>2. /\ Spent(cl.key + 1) = Before(keys.expired, cl.key + 1)
            /\ Spent(cl.key)' = Before(keys.expired, keys.last + 1)
        BY <2>2, <4>1 DEF Spent
      <4>3. Cardinality(Spent(cl.key + 1)) <= Cardinality(Spent(cl.key)')
        BY <4>1, <4>2, SpentGrows DEF AuthInv, AuthTypeOK, KeysType
      <4>4. Cardinality(Spent(cl.key + 1)) \in Nat /\ Cardinality(Spent(cl.key)') \in Nat
        BY <4>2, SpentIsNat DEF AuthInv, AuthTypeOK, KeysType
      <4>5. cl.try <= Cardinality(Spent(cl.key + 1))
        BY <1>1 DEF AuthInv, Counting
      <4> QED
        BY <4>3, <4>4, <4>5 DEF AuthInv, AuthTypeOK, ClientType, ClientStates
    <3> QED
      BY <1>2, <3>1, <3>2
  <2>5. s2c' = <<>>
    BY <1>1, <1>2 DEF Facing
  <2> QED
    BY <1>2, <2>1, <2>2, <2>3, <2>4, <2>5, Messages DEF AuthInv, Counting, At, Waits
<1>9. Agreed'
  BY <1>3 DEF Agreed, Agreement, ExpiryForgiven
<1> QED
  BY <1>3, <1>4, <1>5, <1>6, <1>7, <1>8, <1>9 DEF AuthInv, AuthTypeOK

LEMMA SendKeytypeGivesUp == AuthInv /\ SendKeytype /\ ~keys.readable => AuthInv'
<1> SUFFICES ASSUME AuthInv, SendKeytype, ~keys.readable PROVE AuthInv'
  OBVIOUS
<1>1. /\ At("send_keytype")
      /\ Facing("user", <<Message("user", 0)>>, <<>>) \/ Facing("request", <<>>, <<>>)
  BY Messages DEF AuthInv, AuthTypeOK, ClientType, ClientStates, ServerType, ServerStates,
     SendKeytype, Waits, At, Proving, Facing
<1>2. /\ Facing("user", c2s, s2c) => c2s' = <<Message("user", 0), Message("request", "giveup")>>
      /\ Facing("request", c2s, s2c) => c2s' = <<Message("request", "giveup")>>
      /\ UNCHANGED <<sv, s2c>>
      /\ UNCHANGED keys
      /\ cl' = [cl EXCEPT !.error_save = "keyfile", !.wait = "read", !.readable = "receive_fin"]
  BY <1>1, Messages DEF AuthInv, AuthTypeOK, ClientType, ClientStates, SendKeytype, Waits, At,
     SharedKeyGet, Await, CSend, Facing, Message, Knowing
<1>3. ClientType' /\ cl'.result = "none"
  <2>1. cl' \in ClientStates
    BY <1>1, <1>2 DEF AuthInv, AuthTypeOK, ClientType, ClientStates, KeysType, ServerType,
       ServerStates, Readables, Writables, Codes
  <2>2. cl'.result = "none" /\ cl'.wait \in {"read", "write"}
    BY <1>1, <1>2 DEF AuthInv, AuthTypeOK, ClientType, ClientStates, At, Waits
  <2> QED
    BY <2>1, <2>2 DEF ClientType
<1>4. ServerType'
  BY <1>2 DEF AuthInv, AuthTypeOK, ServerType
<1>5. KeysType'
  BY <1>2 DEF AuthInv, AuthTypeOK, ClientType, ClientStates, KeysType
<1>6. Choosing' /\ Proving'
  BY <1>1, <1>2 DEF AuthInv, AuthTypeOK, ClientType, ClientStates, Choosing, Proving, At, Waits,
     Facing, Asking
<1>7. Knowing'
  BY <1>1, <1>2 DEF AuthInv, AuthTypeOK, ClientType, ClientStates, Knowing, At, Waits, BothCan
<1>8. Counting'
  BY <1>1, <1>2 DEF AuthInv, AuthTypeOK, ClientType, ClientStates, Counting, At, Waits, Excused,
     Spent
<1>9. Agreed'
  BY <1>3 DEF Agreed, Agreement, ExpiryForgiven
<1> QED
  BY <1>3, <1>4, <1>5, <1>6, <1>7, <1>8, <1>9 DEF AuthInv, AuthTypeOK

LEMMA SendKeytypeKeeps ==
  AuthInv /\ SendKeytype /\ ~(keys.readable /\ cl.kind = "mux" /\ cl.try # 0) => AuthInv'
  BY SendKeytypeMade, SendKeytypeGivesUp

LEMMA TimeOutKeeps == AuthInv /\ TimeOut => AuthInv'
<1> SUFFICES ASSUME AuthInv, TimeOut PROVE AuthInv'
  OBVIOUS
<1>1. cl' = ClientEnds(cl, "timed_out") /\ UNCHANGED <<sv, keys>>
  BY DEF TimeOut
<1> QED
  BY <1>1, EndKeeps DEF Results

LEMMA AlwaysSomewhere ==
  ASSUME AuthInv, cl.result = "none" PROVE \E cb \in Readables \cup Writables : At(cb)
  BY DEF AuthInv, AuthTypeOK, ClientType, ClientStates, At, Waits

LEMMA NoEof == AuthInv => ~ReceiveEof
<1> SUFFICES ASSUME AuthInv, ReceiveEof PROVE FALSE
  OBVIOUS
<1>1. cl.wait = "read" /\ s2c = <<>> /\ sv.result \notin {"none", "ok"} /\ cl.result = "none"
  BY DEF ReceiveEof, AuthInv, AuthTypeOK, ClientType
<1>2. sv.pc = "end" /\ sv.result # "ok"
  BY <1>1 DEF AuthInv, AuthTypeOK, ServerType, ServerStates
<1>3. PICK cb \in Readables \cup Writables : At(cb)
  BY <1>1, AlwaysSomewhere
<1> QED
  BY <1>1, <1>2, <1>3, Messages DEF AuthInv, Choosing, Proving, Facing, Asking, Readables,
     Writables

(***************************************************************************)
(* The server                                                              *)
(***************************************************************************)
LEMMA ServerKeeps ==
  ASSUME AuthInv, UNCHANGED <<cl, keys>>, ServerType', cl.result # "ok",
         sv'.methods = sv.methods, sv'.known = sv.known,
         cl.result = "none" => Choosing' /\ Proving',
         At("receive_result") => /\ s2c' = <<Code("expired")>> => cl.key \in keys.expired
                                 /\ s2c' = <<Code("invalid")>> => Excused
  PROVE  AuthInv'
<1>1. AuthTypeOK'
  BY DEF AuthInv, AuthTypeOK, ClientType, KeysType
<1>2. \A cb : At(cb)' = At(cb)
  BY DEF At, Waits
<1>3. Choosing' /\ Proving'
  <2>1. ASSUME cl.result # "none" PROVE \A cb : ~At(cb)'
    BY <1>2, <2>1 DEF AuthInv, AuthTypeOK, ClientType, At, Waits
  <2> QED
    BY <2>1 DEF Choosing, Proving
<1>4. BothCan' = BothCan /\ Excused' = Excused /\ \A n : Spent(n)' = Before(keys.expired, n)
  BY DEF BothCan, Excused, Spent
<1>5. Knowing'
  BY <1>2, <1>4 DEF AuthInv, Knowing
<1>6. Counting'
  <2>1. Spent(cl.key + 1)' = Spent(cl.key + 1) /\ Spent(cl.key)' = Spent(cl.key)
    BY DEF Spent
  <2> QED
    BY <1>2, <1>4, <2>1 DEF AuthInv, Counting
<1>7. Agreed'
  BY DEF AuthInv, Agreed, Agreement, ExpiryForgiven
<1> QED
  BY <1>1, <1>3, <1>5, <1>6, <1>7 DEF AuthInv

LEMMA SendMethodsKeeps == AuthInv /\ SendMethods => AuthInv'
<1> SUFFICES ASSUME AuthInv, SendMethods PROVE AuthInv'
  OBVIOUS
<1>1. UNCHANGED <<cl, keys>> /\ cl.result # "ok"
  BY DEF SendMethods, SSend, AuthInv, AuthTypeOK, ServerType, Agreed, Agreement
<1>2. ServerType' /\ sv'.methods = sv.methods /\ sv'.known = sv.known
  BY DEF SendMethods, SSend, AuthInv, AuthTypeOK, ServerType, ServerStates, Results, TryNext
<1>3. ASSUME cl.result = "none" PROVE At("receive_methods") /\ Facing("start", <<>>, <<>>)
  <2>1. PICK cb \in Readables \cup Writables : At(cb)
    BY <1>3, AlwaysSomewhere
  <2> QED
    BY <2>1, Messages DEF SendMethods, SSend, AuthInv, Choosing, Proving, Facing, Asking,
       Readables, Writables, Message, Code
<1>4. ASSUME cl.result = "none" PROVE Facing("method", <<>>, <<Message("methods", sv.methods)>>)'
  BY <1>2, <1>3, <1>4, Messages
  DEF SendMethods, SSend, Facing, Message, AuthInv, AuthTypeOK, ServerType, ServerStates
<1>5. cl.result = "none" => Choosing' /\ Proving' /\ ~At("receive_result")
  BY <1>1, <1>3, <1>4 DEF Choosing, Proving, At, Waits, Facing
<1> QED
  BY <1>1, <1>2, <1>5, ServerKeeps DEF AuthInv, AuthTypeOK, ClientType, At, Waits

LEMMA TakeMethodKeeps == AuthInv /\ TakeMethod => AuthInv'
<1> SUFFICES ASSUME AuthInv, TakeMethod PROVE AuthInv'
  OBVIOUS
<1>1. UNCHANGED <<cl, keys>> /\ cl.result # "ok"
  BY DEF TakeMethod, Takes, SSend, ServerEnds, AuthInv, AuthTypeOK, ServerType, Agreed,
     Agreement
<1>2. ServerType' /\ sv'.methods = sv.methods /\ sv'.known = sv.known
  <2>1. sv.try + 1 \in Nat /\ sv \in ServerStates
    BY DEF AuthInv, AuthTypeOK, ServerType, ServerStates
  <2>2. \/ \E e \in Results \ {"none"} : sv' = ServerEnds(sv, e)
        \/ sv' = [sv EXCEPT !.pc = "user", !.try = sv.try + 1]
    BY DEF TakeMethod, Results, TryNext
  <2>3. ASSUME NEW e \in Results \ {"none"}, sv' = ServerEnds(sv, e)
        PROVE  ServerType' /\ sv'.methods = sv.methods /\ sv'.known = sv.known
    BY <2>1, <2>3 DEF ServerEnds, ServerType, ServerStates
  <2>4. CASE sv' = [sv EXCEPT !.pc = "user", !.try = sv.try + 1]
    <3>1. sv.result = "none"
      BY DEF TakeMethod, Takes, AuthInv, AuthTypeOK, ServerType
    <3> QED
      BY <2>1, <2>4, <3>1 DEF ServerType, ServerStates
  <2> QED
    BY <2>2, <2>3, <2>4
<1>3. ASSUME cl.result = "none"
      PROVE  At("dispatch_method") /\ Facing("method", <<Message("method", cl.method)>>, <<>>)
  <2>1. PICK cb \in Readables \cup Writables : At(cb)
    BY <1>3, AlwaysSomewhere
  <2> QED
    BY <2>1, Messages DEF TakeMethod, Takes, SSend, ServerEnds, AuthInv, Choosing, Proving,
       Facing, Asking, Readables, Writables, Message, Code
<1>4. ASSUME cl.result = "none"
      PROVE  /\ Facing(IF cl.method = "none" THEN "end" ELSE "user", <<>>, <<Code("no_error")>>)'
             /\ sv'.result # "ok"
  <2>1. cl.method = "none" \/ (cl.method = "sharedsecret" /\ cl.method \in sv.methods)
    BY <1>3, <1>4 DEF AuthInv, AuthTypeOK, ClientType, ClientStates, Knowing, BothCan
  <2>0. c2s = <<Message("method", cl.method)>> /\ s2c = <<>> /\ c2s' = Tail(c2s)
    BY <1>3, <1>4 DEF TakeMethod, Takes, Facing
  <2>2. Head(c2s).v = cl.method /\ c2s' = <<>> /\ s2c = <<>>
    BY <2>0, Messages, Message("method", cl.method).v = cl.method DEF Message
  <2>3. s2c' = <<Code("no_error")>>
    BY <2>1, <2>2, Messages DEF TakeMethod, SSend
  <2>4. sv'.pc = (IF cl.method = "none" THEN "end" ELSE "user") /\ sv'.result # "ok"
    BY <2>1, <2>2 DEF TakeMethod, ServerEnds, AuthInv, AuthTypeOK, ServerType, ServerStates, Takes
  <2> QED
    BY <1>1, <2>2, <2>3, <2>4 DEF Facing
<1>5. cl.result = "none" => Choosing' /\ Proving' /\ ~At("receive_result")
  BY <1>1, <1>3, <1>4 DEF Choosing, Proving, At, Waits, Facing
<1> QED
  BY <1>1, <1>2, <1>5, ServerKeeps DEF AuthInv, AuthTypeOK, ClientType, At, Waits


LEMMA TakeUserKeeps == AuthInv /\ TakeUser => AuthInv'
<1> SUFFICES ASSUME AuthInv, TakeUser PROVE AuthInv'
  OBVIOUS
<1>1. UNCHANGED <<cl, keys>> /\ cl.result # "ok"
  BY DEF TakeUser, Takes, AuthInv, AuthTypeOK, ServerType, Agreed, Agreement
<1>2. ServerType' /\ sv'.methods = sv.methods /\ sv'.known = sv.known
  BY DEF TakeUser, Takes, AuthInv, AuthTypeOK, ServerType, ServerStates, Results, TryNext
<1>3. ASSUME cl.result = "none" PROVE
        /\ Facing("user", c2s, <<>>)
        /\ \/ At("send_keytype") /\ c2s = <<Message("user", 0)>>
           \/ At("receive_keytype") /\ c2s = <<Message("user", 0), Message("request", "md5")>>
           \/ At("receive_fin") /\ c2s = <<Message("user", 0), Message("request", "giveup")>>
  <2>1. PICK cb \in Readables \cup Writables : At(cb)
    BY <1>3, AlwaysSomewhere
  <2> QED
    BY <2>1, Messages DEF TakeUser, Takes, AuthInv, Choosing, Proving, Facing, Asking, Readables,
       Writables, Message, Code
<1>4. ASSUME cl.result = "none" PROVE sv'.pc = "request" /\ c2s' = Tail(c2s) /\ s2c' = <<>>
  BY <1>3, <1>4 DEF TakeUser, Takes, Facing, AuthInv, AuthTypeOK, ServerType, ServerStates
<1>5. cl.result = "none" =>
        \/ At("send_keytype") /\ c2s' = <<>>
        \/ At("receive_keytype") /\ c2s' = <<Message("request", "md5")>>
        \/ At("receive_fin") /\ c2s' = <<Message("request", "giveup")>>
  <2> SUFFICES ASSUME cl.result = "none"
      PROVE  \/ At("send_keytype") /\ c2s' = <<>>
             \/ At("receive_keytype") /\ c2s' = <<Message("request", "md5")>>
             \/ At("receive_fin") /\ c2s' = <<Message("request", "giveup")>>
    OBVIOUS
  <2>1. CASE At("send_keytype") /\ c2s = <<Message("user", 0)>>
    <3>1. Tail(<<Message("user", 0)>>) = <<>>
      BY Messages
    <3> QED
      BY <1>4, <2>1, <3>1
  <2>2. CASE At("receive_keytype") /\ c2s = <<Message("user", 0), Message("request", "md5")>>
    <3>1. Tail(<<Message("user", 0), Message("request", "md5")>>) = <<Message("request", "md5")>>
      BY Messages
    <3> QED
      BY <1>4, <2>2, <3>1
  <2>3. CASE At("receive_fin") /\ c2s = <<Message("user", 0), Message("request", "giveup")>>
    <3>1. Tail(<<Message("user", 0), Message("request", "giveup")>>)
            = <<Message("request", "giveup")>>
      BY Messages
    <3> QED
      BY <1>4, <2>3, <3>1
  <2> QED
    BY <1>3, <2>1, <2>2, <2>3
<1>6. cl.result = "none" => Choosing' /\ Proving' /\ ~At("receive_result")
  BY <1>1, <1>4, <1>5 DEF Choosing, Proving, At, Waits, Facing, Asking
<1> QED
  BY <1>1, <1>2, <1>6, ServerKeeps DEF AuthInv, AuthTypeOK, ClientType, At, Waits


LEMMA TakeRequestKeeps == AuthInv /\ TakeRequest => AuthInv'
<1> SUFFICES ASSUME AuthInv, TakeRequest PROVE AuthInv'
  OBVIOUS
<1>1. UNCHANGED <<cl, keys>> /\ cl.result # "ok"
  BY DEF TakeRequest, Takes, SSend, AuthInv, AuthTypeOK, ServerType, Agreed, Agreement
<1>2. ServerType' /\ sv'.methods = sv.methods /\ sv'.known = sv.known
  BY DEF TakeRequest, Takes, SSend, AuthInv, AuthTypeOK, ServerType, ServerStates, Results,
     TryNext
<1>3. ASSUME cl.result = "none" PROVE
        /\ Facing("request", c2s, <<>>)
        /\ \/ At("receive_keytype") /\ c2s = <<Message("request", "md5")>>
           \/ At("receive_fin") /\ c2s = <<Message("request", "giveup")>>
  <2>1. PICK cb \in Readables \cup Writables : At(cb)
    BY <1>3, AlwaysSomewhere
  <2> QED
    BY <2>1, Messages DEF TakeRequest, Takes, SSend, AuthInv, Choosing, Proving, Facing, Asking,
       Readables, Writables, Message, Code
<1>4. ASSUME cl.result = "none", At("receive_keytype")
      PROVE  sv'.pc = "response" /\ c2s' = <<>>
             /\ s2c' = <<Code("no_error"), Message("challenge", 0)>>
  <2>0. c2s = <<Message("request", "md5")>> /\ s2c = <<>> /\ c2s' = Tail(c2s)
    BY <1>3, <1>4 DEF TakeRequest, Takes, Facing, At, Waits
  <2>1. Head(c2s).v = "md5" /\ c2s' = <<>> /\ s2c = <<>>
    BY <2>0, Messages, Message("request", "md5").v = "md5" DEF Message
  <2>2. s2c' = <<Code("no_error"), Message("challenge", 0)>>
    BY <2>1, Messages DEF TakeRequest, SSend, Message
  <2> QED
    BY <2>1, <2>2 DEF TakeRequest, AuthInv, AuthTypeOK, ServerType, ServerStates
<1>5. ASSUME cl.result = "none", At("receive_fin")
      PROVE  sv'.pc = "method" /\ c2s' = <<>> /\ s2c' = <<Code("no_error")>>
  <2>0. c2s = <<Message("request", "giveup")>> /\ s2c = <<>> /\ c2s' = Tail(c2s)
    BY <1>3, <1>5 DEF TakeRequest, Takes, Facing, At, Waits
  <2>1. Head(c2s).v = "giveup" /\ c2s' = <<>> /\ s2c = <<>>
    BY <2>0, Messages, Message("request", "giveup").v = "giveup" DEF Message
  <2>2. s2c' = <<Code("no_error")>>
    BY <2>1, Messages DEF TakeRequest, SSend
  <2> QED
    BY <2>1, <2>2 DEF TakeRequest, AuthInv, AuthTypeOK, ServerType, ServerStates
<1>6. cl.result = "none" => Choosing' /\ Proving' /\ ~At("receive_result")
  BY <1>1, <1>3, <1>4, <1>5 DEF Choosing, Proving, At, Waits, Facing, Asking
<1> QED
  BY <1>1, <1>2, <1>6, ServerKeeps DEF AuthInv, AuthTypeOK, ClientType, At, Waits


LEMMA TakeResponseKeeps == AuthInv /\ TakeResponse => AuthInv'
<1> SUFFICES ASSUME AuthInv, TakeResponse PROVE AuthInv'
  OBVIOUS
<1>1. UNCHANGED <<cl, keys>> /\ cl.result # "ok"
  BY DEF TakeResponse, Takes, SSend, ServerEnds, AuthInv, AuthTypeOK, ServerType, Agreed,
     Agreement
<1>2. ServerType' /\ sv'.methods = sv.methods /\ sv'.known = sv.known
  BY DEF TakeResponse, Takes, SSend, ServerEnds, AuthInv, AuthTypeOK, ServerType, ServerStates,
     Results, TryNext
<1>3. ASSUME cl.result = "none" PROVE
        At("receive_result") /\ Facing("response", <<Message("response", cl.key)>>, <<>>)
  <2>1. PICK cb \in Readables \cup Writables : At(cb)
    BY <1>3, AlwaysSomewhere
  <2> QED
    BY <2>1, Messages DEF TakeResponse, Takes, SSend, ServerEnds, AuthInv, Choosing, Proving,
       Facing, Asking, Readables, Writables, Message, Code
<1>4. ASSUME cl.result = "none"
      PROVE  /\ c2s' = <<>>
             /\ \/ s2c' = <<Code("no_error")>> /\ sv'.pc = "end" /\ sv'.result = "ok"
                \/ s2c' = <<Code("expired")>> /\ sv'.pc = "request" /\ cl.key \in keys.expired
                \/ s2c' = <<Code("invalid")>> /\ sv'.pc = "request" /\ Excused
  <2>1. Head(c2s).v = cl.key /\ c2s' = <<>> /\ s2c = <<>>
    BY <1>3, <1>4, Messages DEF TakeResponse, Takes, Facing, Message
  <2>2. keys.replaced \/ cl.key = keys.key
    BY <1>3, <1>4 DEF AuthInv, Counting
  <2> DEFINE error == IF ~sv.known \/ ~keys.readable THEN "invalid"
                      ELSE IF cl.key \in keys.expired THEN "expired"
                      ELSE IF cl.key # keys.key THEN "invalid" ELSE "no_error"
  <2>3. /\ s2c' = <<Code(error)>>
        /\ sv' = IF error = "no_error" THEN ServerEnds(sv, "ok") ELSE [sv EXCEPT !.pc = "request"]
    BY <2>1, Messages DEF TakeResponse, SSend
  <2>4. \/ error = "no_error"
        \/ error = "expired" /\ cl.key \in keys.expired
        \/ error = "invalid" /\ Excused
    BY <2>2 DEF Excused
  <2> HIDE DEF error
  <2> QED
    BY <2>1, <2>3, <2>4 DEF ServerEnds, AuthInv, AuthTypeOK, ServerType, ServerStates
<1>5. cl.result = "none" => Choosing' /\ Proving'
  BY <1>1, <1>3, <1>4 DEF Choosing, Proving, At, Waits, Facing
<1>6. cl.result = "none" => /\ s2c' = <<Code("expired")>> => cl.key \in keys.expired
                            /\ s2c' = <<Code("invalid")>> => Excused
  <2>1. \A u, v : <<Code(u)>> = <<Code(v)>> => u = v
    BY DEF Code
  <2> QED
    BY <1>4, <2>1
<1> QED
  BY <1>1, <1>2, <1>5, <1>6, ServerKeeps DEF AuthInv, AuthTypeOK, ClientType, At, Waits


LEMMA ServerEofKeeps == AuthInv /\ ServerEof => AuthInv'
<1> SUFFICES ASSUME AuthInv, ServerEof PROVE AuthInv'
  OBVIOUS
<1>1. UNCHANGED <<cl, keys>> /\ cl.result # "ok" /\ cl.result # "none"
  BY DEF ServerEof
<1>2. ServerType' /\ sv'.methods = sv.methods /\ sv'.known = sv.known
  BY DEF ServerEof, ServerEnds, AuthInv, AuthTypeOK, ServerType, ServerStates, Results
<1> QED
  BY <1>1, <1>2, ServerKeeps DEF AuthInv, AuthTypeOK, ClientType, At, Waits

(***************************************************************************)
(* The key file                                                            *)
(***************************************************************************)
LEMMA KeysKeep ==
  ASSUME AuthInv, UNCHANGED <<cl, sv, c2s, s2c>>, KeysType', keys'.readable = keys.readable,
         keys.expired \subseteq keys'.expired, keys.replaced => keys'.replaced,
         keys'.replaced \/ keys'.key = keys.key
  PROVE  AuthInv'
<1>1. AuthTypeOK'
  BY DEF AuthInv, AuthTypeOK, ClientType, ServerType
<1>2. (\A cb : At(cb)' = At(cb)) /\ (\A pc, up, down : Facing(pc, up, down)' = Facing(pc, up, down))
  BY DEF At, Waits, Facing
<1>3. Choosing' /\ Proving' /\ Knowing'
  BY <1>2 DEF AuthInv, Choosing, Proving, Knowing, BothCan, Asking
<1>4. /\ Cardinality(keys.expired) \in Nat /\ Cardinality(keys'.expired) \in Nat
      /\ Cardinality(keys.expired) <= Cardinality(keys'.expired)
  BY <1>1, FS_Subset, FS_CardinalityType DEF AuthInv, AuthTypeOK, KeysType
<1>5. Excused => Excused'
  BY <1>4 DEF Excused
<1>6. ASSUME NEW n \in Nat
      PROVE  /\ Cardinality(Spent(n)) \in Nat /\ Cardinality(Spent(n)') \in Nat
             /\ Cardinality(Spent(n)) <= Cardinality(Spent(n)')
  <2>1. /\ IsFiniteSet(keys.expired) /\ keys.expired \subseteq Nat
        /\ IsFiniteSet(keys'.expired) /\ keys'.expired \subseteq Nat
    BY <1>1 DEF AuthInv, AuthTypeOK, KeysType
  <2>2. /\ Cardinality(Before(keys.expired, n)) \in Nat
        /\ Cardinality(Before(keys'.expired, n)) \in Nat
    BY <2>1, SpentIsNat
  <2>3. Cardinality(Before(keys.expired, n)) <= Cardinality(Before(keys'.expired, n))
    BY <2>1, n <= n, SpentGrows
  <2> QED
    BY <2>2, <2>3 DEF Spent
<1>7. Counting'
  <2>1. cl.try \in Nat /\ cl.key \in Nat /\ cl.key + 1 \in Nat
    BY DEF AuthInv, AuthTypeOK, ClientType, ClientStates
  <2>2. /\ Spent(cl.key + 1)' = Before(keys'.expired, cl.key + 1)
        /\ Spent(cl.key)' = Before(keys'.expired, cl.key)
    BY DEF Spent
  <2>3. /\ cl.try <= Cardinality(Spent(cl.key + 1)) => cl.try <= Cardinality(Spent(cl.key + 1)')
        /\ cl.try <= Cardinality(Spent(cl.key)) => cl.try <= Cardinality(Spent(cl.key)')
    <3>1. \A a, b, c \in Nat : a <= b /\ b <= c => a <= c
      OBVIOUS
    <3>2. ASSUME NEW n \in Nat
          PROVE  cl.try <= Cardinality(Spent(n))
                   => cl.try <= Cardinality(Before(keys'.expired, n))
      BY <1>6, <2>1, <3>1 DEF Spent
    <3> QED
      BY <2>1, <2>2, <3>2
  <2> QED
    BY <1>2, <1>5, <2>3 DEF AuthInv, Counting
<1>8. Agreed'
  BY <1>4, AuthAssumption DEF AuthInv, Agreed, Agreement, ExpiryForgiven
<1> QED
  BY <1>1, <1>3, <1>7, <1>8 DEF AuthInv

LEMMA ExpireKeeps == AuthInv /\ Expire => AuthInv'
<1> SUFFICES ASSUME AuthInv, Expire PROVE AuthInv'
  OBVIOUS
<1>1. /\ UNCHANGED <<cl, sv, c2s, s2c>> /\ keys.key \in Nat
      /\ keys' = [keys EXCEPT !.expired = @ \cup {keys.key}, !.events = @ - 1]
      /\ keys.events - 1 \in Nat
  BY DEF Expire, AuthInv, AuthTypeOK, KeysType
<1>2. IsFiniteSet(keys.expired \cup {keys.key}) /\ keys.expired \cup {keys.key} \subseteq Nat
  BY <1>1, FS_AddElement DEF AuthInv, AuthTypeOK, KeysType
<1>3. /\ keys'.key = keys.key /\ keys'.last = keys.last /\ keys'.readable = keys.readable
      /\ keys'.replaced = keys.replaced /\ keys'.expired = keys.expired \cup {keys.key}
      /\ keys' \in [readable : BOOLEAN, key : Nat, last : Nat, expired : SUBSET Nat, events : Nat,
                    replaced : BOOLEAN]
  BY <1>1, <1>2 DEF AuthInv, AuthTypeOK, KeysType
<1>4. KeysType'
  BY <1>1, <1>2, <1>3 DEF AuthInv, AuthTypeOK, KeysType
<1> QED
  BY <1>1, <1>3, <1>4, KeysKeep

LEMMA ReplaceKeeps == AuthInv /\ Replace => AuthInv'
<1> SUFFICES ASSUME AuthInv, Replace PROVE AuthInv'
  OBVIOUS
<1>1. /\ UNCHANGED <<cl, sv, c2s, s2c>> /\ keys.last + 1 \in Nat /\ keys.events - 1 \in Nat
      /\ keys' = [keys EXCEPT !.key = keys.last + 1, !.last = @ + 1, !.events = @ - 1,
                              !.replaced = TRUE]
  BY DEF Replace, AuthInv, AuthTypeOK, KeysType
<1>2. /\ keys'.key = keys'.last /\ keys'.last = keys.last + 1 /\ keys'.readable = keys.readable
      /\ keys'.replaced /\ keys'.expired = keys.expired
      /\ keys' \in [readable : BOOLEAN, key : Nat, last : Nat, expired : SUBSET Nat, events : Nat,
                    replaced : BOOLEAN]
  BY <1>1 DEF AuthInv, AuthTypeOK, KeysType
<1>3. KeysType'
  BY <1>1, <1>2 DEF AuthInv, AuthTypeOK, ClientType, ClientStates, KeysType
<1> QED
  BY <1>1, <1>2, <1>3, KeysKeep

(***************************************************************************)
(* A multiplexed client that has Retried                                   *)
(***************************************************************************)
\* It reads the answer to the key type as the answer to the response.
Misreading ==
  /\ cl \in ClientStates /\ sv \in ServerStates /\ Retried
  /\ cl.result = "none" /\ sv.result = "none" /\ Waits("read", "receive_result")
  /\ \/ Asking(Message("request", "md5"))
     \/ Facing("response", <<>>, <<Code("no_error"), Message("challenge", 0)>>)

\* It takes itself for authenticated or has given up waiting.
Misled == Retried /\ cl.result \in {"ok", "timed_out"} /\ cl.wait = "none"

LEMMA RetryMisreads ==
  AuthInv /\ SendKeytype /\ keys.readable /\ cl.kind = "mux" /\ cl.try # 0 => Misreading'
<1> SUFFICES ASSUME AuthInv, SendKeytype, keys.readable, cl.kind = "mux", cl.try # 0
             PROVE  Misreading'
  OBVIOUS
<1>1. /\ At("send_keytype") /\ cl.wait = "write" /\ cl.result = "none"
      /\ Facing("user", <<Message("user", 0)>>, <<>>) \/ Facing("request", <<>>, <<>>)
  BY DEF AuthInv, AuthTypeOK, ClientType, ClientStates, SendKeytype, Waits, At, Proving
<1>2. sv.result = "none" /\ sv \in ServerStates
  BY <1>1 DEF AuthInv, AuthTypeOK, ServerType, Facing
<1>3. cl.readable = "receive_result" /\ cl.try > 0
  BY <1>1 DEF AuthInv, AuthTypeOK, ClientType, ClientStates, Knowing
<1>4. PICK k \in Nat : cl' = Await([cl EXCEPT !.key = k, !.again = TRUE], cl.readable)
  <2>1. /\ SharedKeyGet("force").e = "ok" /\ SharedKeyGet("force").key = keys.last + 1
        /\ keys.last + 1 \in Nat
    BY DEF SharedKeyGet, AuthInv, AuthTypeOK, KeysType
  <2>2. cl' = Await([cl EXCEPT !.key = keys.last + 1, !.again = TRUE], cl.readable)
    BY <1>3, <2>1 DEF SendKeytype
  <2> QED
    BY <2>1, <2>2
<1>5. /\ cl' \in ClientStates /\ cl'.kind = "mux" /\ cl'.again /\ cl'.result = "none"
      /\ cl'.wait = "read" /\ cl'.readable = "receive_result"
  BY <1>1, <1>3, <1>4 DEF AuthInv, AuthTypeOK, ClientType, ClientStates, Await
<1>6. UNCHANGED <<sv, s2c>> /\ c2s' = Append(c2s, Message("request", "md5"))
  BY DEF SendKeytype, CSend, SharedKeyGet, Message
<1>7. Asking(Message("request", "md5"))'
  <2>1. CASE Facing("user", <<Message("user", 0)>>, <<>>)
    BY <1>6, <2>1, Messages DEF Facing, Asking, Message
  <2>2. CASE Facing("request", <<>>, <<>>)
    BY <1>6, <2>2, Messages DEF Facing, Asking, Message
  <2> QED
    BY <1>1, <2>1, <2>2
<1> QED
  BY <1>2, <1>5, <1>6, <1>7 DEF Misreading, Retried, Waits

LEMMA MisreadingGoesOn == Misreading /\ [AuthNext]_authvars => Misreading' \/ Misled'
<1> SUFFICES ASSUME Misreading, [AuthNext]_authvars PROVE Misreading' \/ Misled'
  OBVIOUS
<1>1. /\ cl.wait = "read" /\ cl.readable = "receive_result" /\ cl.result = "none"
      /\ sv.result = "none"
  BY DEF Misreading, Waits
<1>2. CASE UNCHANGED <<cl, sv, c2s, s2c>>
  BY <1>2 DEF Misreading, Retried, Waits, Asking, Facing
<1>3. CASE ReceiveResult
  <2>1. Facing("response", <<>>, <<Code("no_error"), Message("challenge", 0)>>)
    BY <1>3 DEF Misreading, ReceiveResult, Receives, Asking, Facing
  <2>2. Head(s2c).v = "no_error"
    BY <2>1, Messages DEF Facing, Code
  <2>3. cl' = ClientEnds(cl, "ok")
    BY <1>3, <2>2 DEF ReceiveResult
  <2> QED
    BY <2>3 DEF Misreading, Misled, Retried, ClientEnds, ClientStates
<1>4. CASE TimeOut
  BY <1>4 DEF TimeOut, Misreading, Misled, Retried, ClientEnds, ClientStates
<1>5. CASE TakeUser
  <2>1. sv.pc = "user" /\ c2s' = Tail(c2s) /\ UNCHANGED <<cl, s2c>>
        /\ sv' = [sv EXCEPT !.pc = "request"]
    BY <1>5 DEF TakeUser, Takes
  <2>2. c2s = <<Message("user", 0), Message("request", "md5")>> /\ s2c = <<>>
    BY <2>1 DEF Misreading, Asking, Facing
  <2>3. c2s' = <<Message("request", "md5")>>
    BY <2>1, <2>2, Messages
  <2>4. sv' \in ServerStates /\ sv'.pc = "request" /\ sv'.result = sv.result
    BY <2>1 DEF Misreading, ServerStates
  <2> QED
    BY <2>1, <2>2, <2>3, <2>4 DEF Misreading, Retried, Waits, Asking, Facing
<1>6. CASE TakeRequest
  <2>1. sv.pc = "request" /\ c2s' = Tail(c2s) /\ UNCHANGED cl
    BY <1>6 DEF TakeRequest, Takes
  <2>2. c2s = <<Message("request", "md5")>> /\ s2c = <<>>
    BY <2>1 DEF Misreading, Asking, Facing
  <2>3. c2s' = <<>> /\ Head(c2s).v = "md5"
    BY <2>1, <2>2, Messages, Message("request", "md5").v = "md5" DEF Message
  <2>4. s2c' = <<Code("no_error"), Message("challenge", 0)>>
    BY <1>6, <2>2, <2>3, Messages DEF TakeRequest, SSend, Message
  <2>5. sv' \in ServerStates /\ sv'.pc = "response" /\ sv'.result = sv.result
    BY <1>6, <2>3 DEF TakeRequest, Misreading, ServerStates
  <2> QED
    BY <2>1, <2>3, <2>4, <2>5 DEF Misreading, Retried, Waits, Facing
<1>7. ~ReceiveMethods /\ ~AskMethod /\ ~DispatchMethod /\ ~ReceiveEof
  BY <1>1 DEF ReceiveMethods, AskMethod, DispatchMethod, ReceiveEof, Receives, Waits
<1>8. ~SendKeytype /\ ~ReceiveKeytype /\ ~ReceiveChallenge /\ ~SendGiveup /\ ~ReceiveFin
  BY <1>1 DEF SendKeytype, ReceiveKeytype, ReceiveChallenge, SendGiveup, ReceiveFin, Receives, Waits
<1>9. ~SendMethods /\ ~TakeMethod /\ ~TakeResponse /\ ~ServerEof
  BY <1>1 DEF SendMethods, TakeMethod, TakeResponse, ServerEof, Takes, Misreading, Asking, Facing
<1>10. CASE Expire \/ Replace \/ UNCHANGED authvars
  BY <1>2, <1>10 DEF Expire, Replace, authvars
<1> QED
  BY <1>3, <1>4, <1>5, <1>6, <1>7, <1>8, <1>9, <1>10
  DEF AuthNext, AuthClient, gfarm_auth_request, gfarm_auth_request_multiplexed,
      gfarm_auth_request_sharedsecret, gfarm_auth_request_sharedsecret_multiplexed,
      RequestLoop, SharedSecret, gfarm_authorize

LEMMA MisledForGood == Misled /\ [AuthNext]_authvars => Misled'
<1> SUFFICES ASSUME Misled, [AuthNext]_authvars PROVE Misled'
  OBVIOUS
<1>1. ~RequestLoop /\ ~SharedSecret /\ ~TimeOut
  BY DEF Misled, RequestLoop, ReceiveMethods, AskMethod, DispatchMethod, ReceiveEof, SharedSecret,
     SendKeytype, ReceiveKeytype, ReceiveChallenge, ReceiveResult, SendGiveup, ReceiveFin, TimeOut,
     Receives, Waits
<1>2. UNCHANGED cl
  BY <1>1 DEF AuthNext, AuthClient, gfarm_auth_request, gfarm_auth_request_multiplexed,
     gfarm_auth_request_sharedsecret, gfarm_auth_request_sharedsecret_multiplexed,
     gfarm_authorize, SendMethods, TakeMethod, TakeUser, TakeRequest, TakeResponse, ServerEof,
     Expire, Replace, authvars
<1> QED
  BY <1>2 DEF Misled, Retried

(***************************************************************************)
(* The theorem                                                             *)
(***************************************************************************)
LEMMA AuthStarts == AuthInit => AuthInv
<1> SUFFICES ASSUME AuthInit PROVE AuthInv
  OBVIOUS
<1>1. ClientType
  <2>1. cl \in ClientStates
    BY DEF AuthInit, ClientStates, Readables, Writables, Codes, Results
  <2>2. cl.result = "none" <=> cl.wait # "none"
    BY DEF AuthInit
  <2> QED
    BY <2>1, <2>2 DEF ClientType
<1>2. ServerType
  BY DEF AuthInit, ServerType, ServerStates, Results
<1>3. KeysType
  <2>1. IsFiniteSet({})
    BY FS_EmptySet
  <2> QED
    BY <2>1 DEF AuthInit, KeysType
<1>4. /\ cl.readable = "receive_methods" /\ cl.wait # "write" /\ Facing("start", <<>>, <<>>)
      /\ cl.index = 1 /\ cl.try = 0 /\ cl.error_save = "ok" /\ cl.result # "ok"
      /\ cl.result \in {"none", "not_available"} /\ (cl.result # "none" => cl.methods = {})
      /\ keys.expired = {}
  BY DEF AuthInit, Facing
<1>5. Choosing /\ Proving
  BY <1>4 DEF Choosing, Proving, At, Waits
<1>6. Knowing
  BY <1>1, <1>4 DEF Knowing, At, Waits, ClientType, ClientStates
<1>7. Counting
  BY <1>4 DEF Counting, At, Waits
<1>8. Agreed
  BY <1>4 DEF Agreed, Agreement, ExpiryForgiven
<1> QED
  BY <1>1, <1>2, <1>3, <1>5, <1>6, <1>7, <1>8 DEF AuthInv, AuthTypeOK

LEMMA AuthUnchanged == AuthInv /\ UNCHANGED authvars => AuthInv'
<1> SUFFICES ASSUME AuthInv, UNCHANGED authvars PROVE AuthInv'
  OBVIOUS
<1>1. KeysType' /\ UNCHANGED <<cl, sv, c2s, s2c, keys>>
  BY DEF AuthInv, AuthTypeOK, KeysType, authvars
<1> QED
  BY <1>1, KeysKeep

\* Whatever a client of either kind, the server and the key file do, in any order: a
\* client that takes itself for authenticated is, with nothing left in the connection
\* (auth_client.c, gfarm_auth_request_*_receive_result), unless it is multiplexed and has
\* Retried after an expired key (auth_client.c:495); and a key that expired fewer than
\* GFARM_AUTH_RETRY_MAX times is no reason to be refused.
THEOREM AuthenticationAgrees == AuthSpec => []AuthAgrees
<1> DEFINE Inv == AuthInv \/ Misreading \/ Misled
<1>1. AuthInv /\ [AuthNext]_authvars => AuthInv' \/ Misreading'
  <2> SUFFICES ASSUME AuthInv, [AuthNext]_authvars PROVE AuthInv' \/ Misreading'
    OBVIOUS
  <2>1. CASE RequestLoop
    BY <2>1, ReceiveMethodsKeeps, AskMethodKeeps, DispatchMethodKeeps, NoEof DEF RequestLoop
  <2>2. CASE SharedSecret
    BY <2>2, SendKeytypeKeeps, RetryMisreads, ReceiveKeytypeKeeps, ReceiveChallengeKeeps,
       ReceiveResultKeeps,
       SendGiveupKeeps, ReceiveFinKeeps DEF SharedSecret
  <2>3. CASE gfarm_authorize
    BY <2>3, SendMethodsKeeps, TakeMethodKeeps, TakeUserKeeps, TakeRequestKeeps,
       TakeResponseKeeps,
       ServerEofKeeps DEF gfarm_authorize
  <2>4. CASE TimeOut
    BY <2>4, TimeOutKeeps
  <2>5. CASE Expire
    BY <2>5, ExpireKeeps
  <2>6. CASE Replace
    BY <2>6, ReplaceKeeps
  <2>7. CASE UNCHANGED authvars
    BY <2>7, AuthUnchanged
  <2> QED
    BY <2>1, <2>2, <2>3, <2>4, <2>5, <2>6, <2>7
    DEF AuthNext, AuthClient, gfarm_auth_request, gfarm_auth_request_multiplexed,
        gfarm_auth_request_sharedsecret, gfarm_auth_request_sharedsecret_multiplexed
<1>2. AuthInit => Inv
  BY AuthStarts
<1>3. Inv /\ [AuthNext]_authvars => Inv'
  BY <1>1, MisreadingGoesOn, MisledForGood
<1>4. Inv => AuthAgrees
  BY DEF AuthInv, Agreed, Misreading, Misled, AuthAgrees, Retried, ExpiryForgiven
<1> QED
  BY <1>2, <1>3, <1>4, PTL DEF AuthSpec

(***************************************************************************)
(* EventQueue, for any hosts, timeouts and number of requests at once: the *)
(* inductive invariant                                                     *)
(***************************************************************************)
Fd        == 1 .. Len(Peers)
LoadPart  == {"get_load_send", "get_load_receive"}
Reads     == {"get_load_receive", "receive_methods", "dispatch_method", "receive_keytype",
              "receive_challenge", "receive_result", "statfs_receive"}
Callbacks == Writes \cup Reads
Answers   == {"load", "methods", "method", "keytype", "challenge", "result", "statfs"}
Arrivals  == Answers \cup {"error"}

Events ==
  [h : Peer, callback : Callbacks, fd : Fd, left : Nat \cup {NoTimeout}, due : BOOLEAN]

Requests ==
  [at : Callbacks \cup {"none", "ok", "failed", "denied"}, fd : 0 .. Len(Peers),
   try : 1 .. Len(LoadTimeouts), excused : BOOLEAN, first : Arrivals \cup {"none", "rpc"}]

Sockets ==
  [open : BOOLEAN, kind : {"none", "stream", "datagram"},
   state : {"none", "connected", "progress", "refused"},
   wire : Seq(Answers), inbox : Seq(Arrivals), late : BOOLEAN]

Turns ==
  [pc : {"idle", "visit"}, i : Nat, rset : SUBSET Fd, wset : SUBSET Fd, breaks : Nat]

EventTypeOK ==
  /\ queue \in Seq(Events)
  /\ turn \in Turns
  /\ req \in [Peer -> Requests]
  /\ sock \in [Fd -> Sockets]

\* The event that is visited is in the queue.
Visiting == turn.pc = "visit" => turn.i \in 1 .. Len(queue)

\* The events are those of the requests in progress, one of each.
Matched ==
  /\ \A i \in 1 .. Len(queue) :
       req[queue[i].h].at = queue[i].callback /\ req[queue[i].h].fd = queue[i].fd
  /\ \A i, j \in 1 .. Len(queue) : queue[i].h = queue[j].h => i = j
  /\ \A h \in InProgress : \E i \in 1 .. Len(queue) : queue[i].h = h

\* A descriptor is that of one request in progress at most, and of some request
\* if it is open.
Owned ==
  /\ \A h \in Peer : req[h].at # "none" => req[h].fd \in Fd
  /\ \A g, h \in InProgress : req[g].fd = req[h].fd => g = h
  /\ \A f \in Fd : sock[f].open => \E h \in Peer : req[h].at # "none" /\ req[h].fd = f

\* What a request for which the time of e is over has to say.
LastTry(e) == e.callback = "get_load_receive" => req[e.h].try = Len(LoadTimeouts)

\* The time of an event is only over for a reason, or with something to read, which
\* select then finds.
Timed ==
  \A i \in 1 .. Len(queue) :
    /\ queue[i].callback \in Writes => queue[i].left = NoTimeout
    /\ queue[i].left = 0 /\ LastTry(queue[i]) =>
         req[queue[i].h].excused \/ ReadReady(queue[i].fd)
    /\ turn.pc = "visit" /\ queue[i].due =>
         /\ queue[i].callback \notin Writes
         /\ LastTry(queue[i]) => req[queue[i].h].excused \/ queue[i].fd \in turn.rset

\* Until its first error the sequence s is a beginning of t.
Follows(s, t) ==
  \A i \in 1 .. Len(s) : (\A j \in 1 .. i : s[j] # "error") => i <= Len(t) /\ s[i] = t[i]

\* What is still to be read at each step after the load.
Expected ==
  [at \in Callbacks |->
     CASE at \in {"connect_start_auth", "receive_methods"} -> <<"methods">>
       [] at = "dispatch_method"   -> <<"method">>
       [] at = "receive_keytype"   -> <<"keytype", "challenge">>
       [] at = "receive_challenge" -> <<"challenge">>
       [] at = "receive_result"    -> <<"result">>
       [] at = "statfs_receive"    -> <<"statfs">>
       [] OTHER                    -> <<>>]

Broken(s) == s.state = "refused" \/ \E i \in 1 .. Len(s.inbox) : s.inbox[i] = "error"

\* The socket s of a request that is at the step at.
Serves(s, at, excused) ==
  /\ s.open
  /\ Broken(s) => excused
  /\ s.state = "progress" => /\ s.inbox = <<>> /\ s.wire = <<>>
                             /\ at \in {"connect_start_auth", "receive_methods"}
  /\ at \notin LoadPart => s.kind = "stream" /\ Follows(s.inbox \o s.wire, Expected[at])

Served == \A h \in InProgress : Serves(sock[req[h].fd], req[h].at, req[h].excused)

\* A socket that is left in the cache is owed nothing, unless a timeout left it.
Clean(s) == /\ s.kind = "stream" /\ s.state # "progress"
            /\ s.late \/ Follows(s.inbox \o s.wire, <<>>)

LeftClean ==
  \A f \in Fd : sock[f].open /\ (\A h \in InProgress : req[h].fd # f) => Clean(sock[f])

\* The next procedure read something else first only where a timeout left it.
FirstRight ==
  \A h \in Peer :
    /\ req[h].first # "none" => req[h].at \in {"ok", "failed"}
    /\ req[h].first \notin {"none", "rpc", "error"} =>
         /\ sock[req[h].fd].open /\ sock[req[h].fd].late
         /\ \A g \in InProgress : req[g].fd # req[h].fd

EventInv ==
  /\ EventTypeOK /\ Visiting /\ Matched /\ Owned /\ Timed
  /\ Served /\ LeftClean /\ FirstRight /\ FailsForReason

(***************************************************************************)
(* Numbers and queues                                                      *)
(***************************************************************************)
LEMMA Smallest ==
  ASSUME NEW S, S \subseteq Nat, S # {}
  PROVE  Min(S) \in S
<1>1. \E x \in S : \A y \in S : ~ (<<y, x>> \in OpToRel(<, Nat))
  BY NatLessThanWellFounded, WFMin
<1>2. PICK x \in S : \A y \in S : ~ (<<y, x>> \in OpToRel(<, Nat))
  BY <1>1
<1>3. ASSUME NEW y \in S PROVE x =< y
  <2>1. x \in Nat /\ y \in Nat
    OBVIOUS
  <2>2. <<y, x>> \in Nat \X Nat /\ <<y, x>>[1] = y /\ <<y, x>>[2] = x
    BY <2>1
  <2>3. <<y, x>> \notin {ss \in Nat \X Nat : ss[1] < ss[2]}
    BY <1>2 DEF OpToRel
  <2>4. ~(y < x)
    BY <2>2, <2>3
  <2> QED
    BY <2>1, <2>4
<1> QED
  BY <1>3 DEF Min

LEMMA Removed ==
  ASSUME NEW T, NEW s \in Seq(T), NEW i \in 1 .. Len(s)
  PROVE  /\ RemoveAt(s, i) \in Seq(T)
         /\ Len(RemoveAt(s, i)) = Len(s) - 1
         /\ \A j \in 1 .. Len(s) - 1 : RemoveAt(s, i)[j] = IF j < i THEN s[j] ELSE s[j + 1]
<1> DEFINE a == SubSeq(s, 1, i - 1)
           b == SubSeq(s, i + 1, Len(s))
<1>1. \A j \in 1 .. Len(s) : s[j] \in T
  OBVIOUS
<1>2. a \in Seq(T) /\ Len(a) = i - 1 /\ \A j \in 1 .. i - 1 : a[j] = s[j]
  BY <1>1, SubSeqProperties
<1>3. b \in Seq(T) /\ Len(b) = Len(s) - i /\ \A j \in 1 .. Len(s) - i : b[j] = s[i + j]
  BY <1>1, SubSeqProperties
<1>4. RemoveAt(s, i) = a \o b
  BY DEF RemoveAt
<1> HIDE DEF a, b
<1>5. /\ a \o b \in Seq(T)
      /\ Len(a \o b) = Len(a) + Len(b)
      /\ \A j \in 1 .. Len(a) + Len(b) : (a \o b)[j] = IF j <= Len(a) THEN a[j] ELSE b[j - Len(a)]
  BY <1>2, <1>3, ConcatProperties
<1>6. Len(a) + Len(b) = Len(s) - 1
  BY <1>2, <1>3
<1>7. ASSUME NEW j \in 1 .. Len(s) - 1
      PROVE  (a \o b)[j] = IF j < i THEN s[j] ELSE s[j + 1]
  <2>1. CASE j < i
    BY <2>1, <1>2, <1>5, <1>6
  <2>2. CASE ~(j < i)
    <3>1. j - Len(a) \in 1 .. Len(s) - i /\ i + (j - Len(a)) = j + 1
      BY <2>2, <1>2
    <3>2. (a \o b)[j] = b[j - Len(a)]
      BY <2>2, <1>2, <1>5, <1>6
    <3> QED
      BY <2>2, <1>3, <3>1, <3>2
  <2> QED
    BY <2>1, <2>2
<1> QED
  BY <1>4, <1>5, <1>6, <1>7

LEMMA PeersFinite == IsFiniteSet(Peer) /\ Cardinality(Peer) <= Len(Peers)
<1> DEFINE f == [i \in 1 .. Len(Peers) |-> Peers[i]]
<1>1. Peers \in Seq(Peer)
  BY EventAssumption
<1>2. \A h \in Peer : \E i \in 1 .. Len(Peers) : Peers[i] = h
  BY <1>1 DEF Peer, Range
<1>3. f \in [1 .. Len(Peers) -> Peer]
  BY <1>1
<1>4. f \in Surjection(1 .. Len(Peers), Peer)
  BY <1>2, <1>3 DEF Surjection
<1>5. Len(Peers) \in Nat
  BY <1>1
<1>6. IsFiniteSet(1 .. Len(Peers)) /\ Cardinality(1 .. Len(Peers)) = Len(Peers)
  <2>1. PICK n : n = Len(Peers)
    OBVIOUS
  <2>2. n \in Int /\ 1 \in Int
    BY <1>5, <2>1
  <2>3. IsFiniteSet(1 .. n) /\ Cardinality(1 .. n) = IF 1 > n THEN 0 ELSE n - 1 + 1
    BY <2>2, FS_Interval
  <2>4. Cardinality(1 .. n) = n
    BY <1>5, <2>1, <2>3
  <2> QED
    BY <2>1, <2>3, <2>4
<1> HIDE DEF f
<1> QED
  BY <1>4, <1>6, FS_Surjection

(***************************************************************************)
(* What is read                                                            *)
(***************************************************************************)
LEMMA Concat ==
  ASSUME NEW T, NEW s \in Seq(T), NEW t \in Seq(T)
  PROVE  /\ s \o t \in Seq(T)
         /\ Len(s \o t) = Len(s) + Len(t)
         /\ \A i \in 1 .. Len(s) : (s \o t)[i] = s[i]
         /\ \A i \in 1 .. Len(t) : (s \o t)[Len(s) + i] = t[i]
<1>1. /\ s \o t \in Seq(T)
      /\ Len(s \o t) = Len(s) + Len(t)
      /\ \A i \in 1 .. Len(s) + Len(t) : (s \o t)[i] = IF i <= Len(s) THEN s[i] ELSE t[i - Len(s)]
  BY ConcatProperties
<1>2. ASSUME NEW i \in 1 .. Len(s) PROVE (s \o t)[i] = s[i]
  BY <1>1
<1>3. ASSUME NEW i \in 1 .. Len(t) PROVE (s \o t)[Len(s) + i] = t[i]
  <2>1. Len(s) + i \in 1 .. Len(s) + Len(t) /\ ~(Len(s) + i <= Len(s)) /\ (Len(s) + i) - Len(s) = i
    OBVIOUS
  <2> QED
    BY <1>1, <2>1
<1> QED
  BY <1>1, <1>2, <1>3

\* What is read is taken from the front.
LEMMA TailOfBoth ==
  ASSUME NEW s \in Seq(Arrivals), NEW t \in Seq(Arrivals), s # <<>>
  PROVE  Tail(s) \in Seq(Arrivals) /\ Tail(s) \o t = Tail(s \o t) /\ Head(s \o t) = s[1] /\ s \o t # <<>>
<1>1. Tail(s) \in Seq(Arrivals) /\ Len(Tail(s)) = Len(s) - 1 /\ \A i \in 1 .. Len(s) - 1 : Tail(s)[i] = s[i + 1]
  BY HeadTailProperties
<1>2. Len(s) \in Nat \ {0} /\ Len(t) \in Nat
  OBVIOUS
<1>3. /\ s \o t \in Seq(Arrivals) /\ Len(s \o t) = Len(s) + Len(t)
      /\ \A i \in 1 .. Len(s) : (s \o t)[i] = s[i]
      /\ \A i \in 1 .. Len(t) : (s \o t)[Len(s) + i] = t[i]
  BY Concat
<1>4. s \o t # <<>>
  BY <1>2, <1>3
<1>5. /\ Tail(s \o t) \in Seq(Arrivals) /\ Len(Tail(s \o t)) = Len(s) + Len(t) - 1
      /\ \A i \in 1 .. Len(s) + Len(t) - 1 : Tail(s \o t)[i] = (s \o t)[i + 1]
  BY <1>3, <1>4, HeadTailProperties
<1>6. /\ Tail(s) \o t \in Seq(Arrivals) /\ Len(Tail(s) \o t) = Len(s) - 1 + Len(t)
      /\ \A i \in 1 .. Len(s) - 1 : (Tail(s) \o t)[i] = Tail(s)[i]
      /\ \A i \in 1 .. Len(t) : (Tail(s) \o t)[Len(s) - 1 + i] = t[i]
  <2>1. /\ Tail(s) \o t \in Seq(Arrivals) /\ Len(Tail(s) \o t) = Len(Tail(s)) + Len(t)
        /\ \A i \in 1 .. Len(Tail(s)) : (Tail(s) \o t)[i] = Tail(s)[i]
        /\ \A i \in 1 .. Len(t) : (Tail(s) \o t)[Len(Tail(s)) + i] = t[i]
    BY <1>1, Concat
  <2> QED
    BY <1>1, <2>1
<1>7. ASSUME NEW i \in 1 .. Len(s) + Len(t) - 1 PROVE (Tail(s) \o t)[i] = Tail(s \o t)[i]
  <2>1. CASE i <= Len(s) - 1
    <3>1. i \in 1 .. Len(s) - 1 /\ i + 1 \in 1 .. Len(s)
      BY <1>2, <2>1
    <3> QED
      BY <1>1, <1>3, <1>5, <1>6, <3>1
  <2>2. CASE ~(i <= Len(s) - 1)
    <3> DEFINE k == i - (Len(s) - 1)
    <3>1. k \in 1 .. Len(t) /\ Len(s) - 1 + k = i /\ Len(s) + k = i + 1
      BY <1>2, <2>2
    <3>2. (Tail(s) \o t)[Len(s) - 1 + k] = t[k] /\ (s \o t)[Len(s) + k] = t[k]
      BY <1>3, <1>6, <3>1
    <3> HIDE DEF k
    <3> QED
      BY <1>5, <3>1, <3>2
  <2> QED
    BY <2>1, <2>2
<1>8. Tail(s) \o t = Tail(s \o t)
  BY <1>2, <1>5, <1>6, <1>7, SeqEqual
<1> QED
  BY <1>1, <1>2, <1>3, <1>4, <1>8

\* Reading an answer leaves the rest of what is expected.
LEMMA FollowsTail ==
  ASSUME NEW s \in Seq(Arrivals), NEW t \in Seq(Arrivals), s # <<>>, s[1] # "error", Follows(s, t)
  PROVE  t # <<>> /\ Follows(Tail(s), Tail(t))
<1>1. Tail(s) \in Seq(Arrivals) /\ Len(Tail(s)) = Len(s) - 1 /\ \A i \in 1 .. Len(s) - 1 : Tail(s)[i] = s[i + 1]
  BY HeadTailProperties
<1>2. Len(s) \in Nat \ {0} /\ Len(t) \in Nat /\ 1 \in 1 .. Len(s)
  OBVIOUS
<1>3. 1 <= Len(t)
  <2>1. \A j \in 1 .. 1 : s[j] # "error"
    OBVIOUS
  <2> QED
    BY <1>2, <2>1 DEF Follows
<1>4. t # <<>>
  BY <1>2, <1>3
<1>5. Tail(t) \in Seq(Arrivals) /\ Len(Tail(t)) = Len(t) - 1 /\ \A i \in 1 .. Len(t) - 1 : Tail(t)[i] = t[i + 1]
  BY <1>4, HeadTailProperties
<1>6. ASSUME NEW i \in 1 .. Len(s) - 1, \A j \in 1 .. i : Tail(s)[j] # "error"
      PROVE  i <= Len(t) - 1 /\ Tail(s)[i] = Tail(t)[i]
  <2>1. i + 1 \in 1 .. Len(s)
    BY <1>2
  <2>2. ASSUME NEW j \in 1 .. i + 1 PROVE s[j] # "error"
    <3>1. CASE j = 1
      BY <3>1
    <3>2. CASE j # 1
      <4>1. j - 1 \in 1 .. i /\ (j - 1) + 1 = j /\ j - 1 \in 1 .. Len(s) - 1
        BY <3>2, <1>2
      <4> QED
        BY <1>1, <1>6, <4>1
    <3> QED
      BY <3>1, <3>2
  <2>3. i + 1 <= Len(t) /\ s[i + 1] = t[i + 1]
    BY <2>1, <2>2 DEF Follows
  <2>4. i \in 1 .. Len(t) - 1
    BY <1>2, <2>3
  <2> QED
    BY <1>1, <1>5, <2>3, <2>4
<1>7. \A i \in 1 .. Len(Tail(s)) :
        (\A j \in 1 .. i : Tail(s)[j] # "error") => i <= Len(Tail(t)) /\ Tail(s)[i] = Tail(t)[i]
  BY <1>1, <1>5, <1>6
<1> QED
  BY <1>4, <1>7 DEF Follows

\* A message sent when nothing is owed is answered next.
LEMMA FollowsSent ==
  ASSUME NEW s \in Seq(Arrivals), NEW t \in Seq(Arrivals), Follows(s, <<>>)
  PROVE  Follows(s \o t, t)
<1>1. CASE s = <<>>
  <2>1. s \o t = t
    BY <1>1, ConcatEmptySeq
  <2> QED
    BY <2>1 DEF Follows
<1>2. CASE s # <<>>
  <2>1. s[1] = "error"
    <3>1. 1 \in 1 .. Len(s) /\ Len(<<>>) = 0
      BY <1>2
    <3>2. ASSUME s[1] # "error" PROVE FALSE
      <4>1. \A j \in 1 .. 1 : s[j] # "error"
        BY <3>2
      <4>2. 1 <= Len(<<>>)
        BY <3>1, <4>1 DEF Follows
      <4> QED
        BY <3>1, <4>2
    <3> QED
      BY <3>2
  <2>2. (s \o t)[1] = "error" /\ Len(s \o t) \in Nat
    BY <1>2, <2>1, Concat
  <2> QED
    BY <2>2 DEF Follows
<1> QED
  BY <1>1, <1>2

\* The end of a connection comes after what has arrived.
LEMMA FollowsBroken ==
  ASSUME NEW s \in Seq(Arrivals), NEW w \in Seq(Arrivals), NEW t \in Seq(Arrivals), Follows(s \o w, t)
  PROVE  Append(s, "error") \in Seq(Arrivals) /\ Follows(Append(s, "error") \o <<>>, t)
<1> DEFINE r == Append(s, "error")
<1>0. "error" \in Arrivals
  BY DEF Arrivals
<1>1. r \in Seq(Arrivals) /\ Len(r) = Len(s) + 1 /\ r[Len(s) + 1] = "error" /\ \A i \in 1 .. Len(s) : r[i] = s[i]
  BY <1>0, AppendProperties
<1>2. r \o <<>> = r
  BY <1>1, ConcatEmptySeq
<1>3. Len(s \o w) = Len(s) + Len(w) /\ \A i \in 1 .. Len(s) : (s \o w)[i] = s[i]
  BY Concat
<1> HIDE DEF r
<1>4. ASSUME NEW i \in 1 .. Len(r), \A j \in 1 .. i : r[j] # "error" PROVE i <= Len(t) /\ r[i] = t[i]
  <2>1. i \in 1 .. Len(s)
    BY <1>1, <1>4
  <2>2. \A j \in 1 .. i : (s \o w)[j] # "error"
    BY <1>1, <1>3, <1>4, <2>1
  <2>3. i \in 1 .. Len(s \o w)
    BY <1>3, <2>1
  <2> QED
    BY <1>1, <1>3, <2>1, <2>2, <2>3 DEF Follows
<1>5. Follows(r, t)
  BY <1>4 DEF Follows
<1> QED
  BY <1>1, <1>2, <1>5 DEF r

\* A message that arrives changes nothing of what is to be read.
LEMMA ArriveSame ==
  ASSUME NEW s \in Seq(Arrivals), NEW w \in Seq(Answers), w # <<>>
  PROVE  /\ Append(s, Head(w)) \in Seq(Arrivals) /\ Tail(w) \in Seq(Answers)
         /\ Append(s, Head(w)) \o Tail(w) = s \o w
<1>1. Head(w) \in Answers /\ Tail(w) \in Seq(Answers) /\ Len(Tail(w)) = Len(w) - 1 /\ \A i \in 1 .. Len(w) - 1 : Tail(w)[i] = w[i + 1]
  BY HeadTailProperties
<1>2. w \in Seq(Arrivals) /\ Tail(w) \in Seq(Arrivals) /\ Head(w) \in Arrivals
  BY <1>1, SeqMonotonic DEF Arrivals
<1> DEFINE r == Append(s, Head(w))
<1>3. r \in Seq(Arrivals) /\ Len(r) = Len(s) + 1 /\ r[Len(s) + 1] = w[1] /\ \A i \in 1 .. Len(s) : r[i] = s[i]
  BY <1>2, AppendProperties
<1> HIDE DEF r
<1>4. /\ s \o w \in Seq(Arrivals) /\ Len(s \o w) = Len(s) + Len(w)
      /\ \A i \in 1 .. Len(s) : (s \o w)[i] = s[i]
      /\ \A i \in 1 .. Len(w) : (s \o w)[Len(s) + i] = w[i]
  BY <1>2, Concat
<1>5. /\ r \o Tail(w) \in Seq(Arrivals) /\ Len(r \o Tail(w)) = Len(r) + Len(Tail(w))
      /\ \A i \in 1 .. Len(r) : (r \o Tail(w))[i] = r[i]
      /\ \A i \in 1 .. Len(Tail(w)) : (r \o Tail(w))[Len(r) + i] = Tail(w)[i]
  <2>1. r \in Seq(Arrivals) /\ Tail(w) \in Seq(Arrivals)
    BY <1>2, <1>3
  <2> QED
    BY ONLY <2>1, Concat
<1>6. Len(w) \in Nat \ {0} /\ Len(s) \in Nat
  OBVIOUS
<1>7. ASSUME NEW i \in 1 .. Len(s) + Len(w) PROVE (r \o Tail(w))[i] = (s \o w)[i]
  <2>1. CASE i <= Len(s)
    BY <1>3, <1>4, <1>5, <1>6, <2>1
  <2>2. CASE i = Len(s) + 1
    <3>1. 1 \in 1 .. Len(w) /\ i \in 1 .. Len(r)
      BY <1>3, <1>6, <2>2
    <3> QED
      BY <1>3, <1>4, <1>5, <2>2, <3>1
  <2>3. CASE i > Len(s) + 1
    <3> DEFINE k == i - Len(s)
    <3>1. k \in 1 .. Len(w) /\ k - 1 \in 1 .. Len(w) - 1 /\ Len(s) + k = i /\ Len(r) + (k - 1) = i /\ (k - 1) + 1 = k
      BY <1>3, <1>6, <2>3
    <3> HIDE DEF k
    <3>2. (s \o w)[Len(s) + k] = w[k]
      BY <1>4, <3>1
    <3>3. (r \o Tail(w))[Len(r) + (k - 1)] = Tail(w)[k - 1]
      BY <1>1, <1>5, <3>1
    <3>4. Tail(w)[k - 1] = w[(k - 1) + 1]
      BY <1>1, <3>1
    <3> QED
      BY <3>1, <3>2, <3>3, <3>4
  <2>4. i \in Int /\ (i <= Len(s) \/ i = Len(s) + 1 \/ i > Len(s) + 1)
    BY <1>6
  <2> QED
    BY <2>1, <2>2, <2>3, <2>4
<1>8. r \o Tail(w) = s \o w
  BY <1>1, <1>3, <1>4, <1>5, <1>6, <1>7, SeqEqual
<1> QED
  BY <1>1, <1>3, <1>8 DEF r
(***************************************************************************)
(* A request that goes on, and one that ends                               *)
(***************************************************************************)
\* A turn goes on, or comes to its end.
Turning ==
  /\ turn' \in Turns
  /\ turn'.pc = "visit" => turn.pc = "visit" /\ turn'.rset = turn.rset

\* Q holds the events of the queue except that of h.
Taken(Q, h) ==
  /\ Q \in Seq(Events)
  /\ \A j \in 1 .. Len(Q) : Q[j].h # h /\ \E i \in 1 .. Len(queue) : Q[j] = queue[i]
  /\ \A i, j \in 1 .. Len(Q) : Q[i].h = Q[j].h => i = j
  /\ \A g \in InProgress \ {h} : \E j \in 1 .. Len(Q) : Q[j].h = g

\* The sockets S are the present ones, but for f, and the one of h is not used any more.
Elsewhere(S, h, f) ==
  /\ S \in [Fd -> Sockets]
  /\ \A x \in Fd \ {f} : IF h \in InProgress /\ x = req[h].fd THEN ~S[x].open ELSE S[x] = sock[x]

\* An event as it is added.
NewEvent(e) ==
  /\ e \in Events /\ ~e.due /\ e.left # 0
  /\ e.callback \in Writes => e.left = NoTimeout

LEMMA InProgressIs == ASSUME EventTypeOK PROVE InProgress = {h \in Peer : req[h].at \in Callbacks}
<1>1. ASSUME NEW h \in Peer
      PROVE  req[h].at \notin {"none", "ok", "failed", "denied"} <=> req[h].at \in Callbacks
  <2>1. req[h].at \in Callbacks \cup {"none", "ok", "failed", "denied"}
    BY DEF EventTypeOK, Requests
  <2>2. Callbacks \cap {"none", "ok", "failed", "denied"} = {}
    BY DEF Callbacks, Writes, Reads
  <2> QED
    BY <2>1, <2>2
<1> QED
  BY <1>1 DEF InProgress

\* What was said of the events in Q is said of them in a queue that begins with Q.
LEMMA OthersTimed ==
  ASSUME EventInv, NEW h \in Peer, NEW Q, Taken(Q, h), NEW f, NEW S, Elsewhere(S, h, f),
         \A g \in InProgress \ {h} : req[g].fd # f,
         sock' = S, Turning, req' \in [Peer -> Requests],
         \A g \in Peer \ {h} : req'[g] = req[g],
         NEW j \in 1 .. Len(Q)
  PROVE  /\ Q[j].h \in InProgress \ {h}
         /\ req'[Q[j].h].at = Q[j].callback /\ req'[Q[j].h].fd = Q[j].fd
         /\ sock'[Q[j].fd] = sock[Q[j].fd]
         /\ Q[j].callback \in Writes => Q[j].left = NoTimeout
         /\ Q[j].left = 0 /\ LastTry(Q[j])' => req'[Q[j].h].excused \/ ReadReady(Q[j].fd)'
         /\ turn'.pc = "visit" /\ Q[j].due => Q[j].callback \notin Writes
         /\ turn'.pc = "visit" /\ Q[j].due /\ LastTry(Q[j])' =>
              req'[Q[j].h].excused \/ Q[j].fd \in turn'.rset
<1>1. PICK i \in 1 .. Len(queue) : Q[j] = queue[i]
  BY DEF Taken
<1>2. Q[j].h # h
  BY DEF Taken
<1>3. queue[i] \in Events
  BY DEF EventInv, EventTypeOK
<1>4. queue[i].h \in Peer /\ queue[i].callback \in Callbacks /\ queue[i].fd \in Fd
  BY <1>3 DEF Events
<1>5. req[queue[i].h].at = queue[i].callback /\ req[queue[i].h].fd = queue[i].fd
  BY DEF EventInv, Matched
<1>6. queue[i].h \in InProgress
  BY <1>4, <1>5, InProgressIs DEF EventInv
<1>7. req'[queue[i].h] = req[queue[i].h]
  BY <1>1, <1>2, <1>4
<1>8. sock'[queue[i].fd] = sock[queue[i].fd]
  <2>1. queue[i].fd # f
    BY <1>1, <1>2, <1>5, <1>6
  <2>2. h \in InProgress => queue[i].fd # req[h].fd
    BY <1>1, <1>2, <1>5, <1>6 DEF EventInv, Owned
  <2> QED
    BY <1>4, <2>1, <2>2 DEF Elsewhere
<1>9. LastTry(Q[j])' <=> LastTry(queue[i])
  BY <1>1, <1>7 DEF LastTry
<1>10. ReadReady(Q[j].fd)' <=> ReadReady(queue[i].fd)
  BY <1>1, <1>8 DEF ReadReady
<1>11. /\ queue[i].callback \in Writes => queue[i].left = NoTimeout
       /\ queue[i].left = 0 /\ LastTry(queue[i]) => req[queue[i].h].excused \/ ReadReady(queue[i].fd)
       /\ turn.pc = "visit" /\ queue[i].due => queue[i].callback \notin Writes
       /\ turn.pc = "visit" /\ queue[i].due /\ LastTry(queue[i]) =>
            req[queue[i].h].excused \/ queue[i].fd \in turn.rset
  BY DEF EventInv, Timed
<1>12. turn'.pc = "visit" => turn.pc = "visit" /\ turn'.rset = turn.rset
  BY DEF Turning
<1> QED
  BY ONLY <1>1, <1>2, <1>5, <1>6, <1>7, <1>8, <1>9, <1>10, <1>11, <1>12

\* A request that has added its next event, on its own socket or a new one.
LEMMA GoesOnKeeps ==
  ASSUME EventInv, NEW h \in Peer, h \in InProgress \/ req[h].at = "none",
         NEW Q, Taken(Q, h),
         NEW r \in Requests, r.at \in Callbacks, r.fd \in Fd, r.first = "none",
         NEW S, Elsewhere(S, h, r.fd), Serves(S[r.fd], r.at, r.excused),
         (h \in InProgress /\ r.fd = req[h].fd) \/ ~sock[r.fd].open,
         NEW e, NewEvent(e), e.h = h, e.callback = r.at, e.fd = r.fd,
         queue' = Append(Q, e), req' = [req EXCEPT ![h] = r], sock' = S, Turning, Visiting'
  PROVE  EventInv'
<1>1. req \in [Peer -> Requests] /\ sock \in [Fd -> Sockets] /\ EventTypeOK
  BY DEF EventInv, EventTypeOK
<1>2. req' \in [Peer -> Requests] /\ req'[h] = r /\ \A g \in Peer \ {h} : req'[g] = req[g]
  BY <1>1
<1>3. /\ Append(Q, e) \in Seq(Events) /\ Len(Append(Q, e)) = Len(Q) + 1
      /\ Append(Q, e)[Len(Q) + 1] = e /\ \A i \in 1 .. Len(Q) : Append(Q, e)[i] = Q[i]
      /\ Len(Q) \in Nat
  BY AppendProperties DEF Taken, NewEvent
<1>4. S \in [Fd -> Sockets]
  BY DEF Elsewhere
<1>5. EventTypeOK'
  BY <1>2, <1>3, <1>4 DEF EventTypeOK, Turning
<1>6. InProgress' = InProgress \cup {h}
  <2>1. r.at \notin {"none", "ok", "failed", "denied"}
    BY DEF Callbacks, Writes, Reads
  <2>2. ASSUME NEW g \in Peer
        PROVE  req'[g].at \notin {"none", "ok", "failed", "denied"} <=>
                 (req[g].at \notin {"none", "ok", "failed", "denied"} \/ g = h)
    BY <1>2, <2>1
  <2> QED
    BY <2>2 DEF InProgress
<1>7. \A g \in InProgress : sock[req[g].fd].open
  BY DEF EventInv, Served, Serves
<1>8. \A g \in InProgress \ {h} : g \in Peer /\ req[g].fd \in Fd /\ req[g].fd # r.fd
  <2>1. ASSUME NEW g \in InProgress \ {h} PROVE g \in Peer /\ req[g].fd \in Fd /\ req[g].fd # r.fd
    <3>1. g \in Peer /\ req[g].at # "none"
      BY DEF InProgress
    <3>2. req[g].fd \in Fd
      BY <3>1 DEF EventInv, Owned
    <3>3. h \in InProgress => req[g].fd # req[h].fd
      BY DEF EventInv, Owned
    <3> QED
      BY <1>7, <3>1, <3>2, <3>3
  <2> QED
    BY <2>1
<1>9. \A x \in Fd \ {r.fd} : S[x].open => S[x] = sock[x] /\ (h \in InProgress => x # req[h].fd)
  BY DEF Elsewhere
<1>10. \A g \in InProgress \ {h} : S[req[g].fd] = sock[req[g].fd]
  <2>1. ASSUME NEW g \in InProgress \ {h} PROVE S[req[g].fd] = sock[req[g].fd]
    <3>1. h \in InProgress => req[g].fd # req[h].fd
      BY DEF EventInv, Owned
    <3>2. req[g].fd \in Fd \ {r.fd}
      BY <1>8
    <3> QED
      BY <3>1, <3>2 DEF Elsewhere
  <2> QED
    BY <2>1
<1>11. ASSUME NEW j \in 1 .. Len(Q)
       PROVE  /\ Q[j].h \in InProgress \ {h}
              /\ req'[Q[j].h].at = Q[j].callback /\ req'[Q[j].h].fd = Q[j].fd
              /\ Q[j].callback \in Writes => Q[j].left = NoTimeout
              /\ Q[j].left = 0 /\ LastTry(Q[j])' => req'[Q[j].h].excused \/ ReadReady(Q[j].fd)'
              /\ turn'.pc = "visit" /\ Q[j].due => Q[j].callback \notin Writes
              /\ turn'.pc = "visit" /\ Q[j].due /\ LastTry(Q[j])' =>
                   req'[Q[j].h].excused \/ Q[j].fd \in turn'.rset
  <2>1. \A g \in InProgress \ {h} : req[g].fd # r.fd
    BY <1>8
  <2> QED
    BY <1>2, <2>1, OthersTimed
<1>12. \A i \in 1 .. Len(Q) + 1 : i \in 1 .. Len(Q) \/ i = Len(Q) + 1
  BY <1>3
<1>13. Len(queue') = Len(Q) + 1 /\ queue'[Len(Q) + 1] = e /\ \A i \in 1 .. Len(Q) : queue'[i] = Q[i]
  BY <1>3
<1>14. Matched'
  <2>1. ASSUME NEW i \in 1 .. Len(Q) + 1
        PROVE  req'[queue'[i].h].at = queue'[i].callback /\ req'[queue'[i].h].fd = queue'[i].fd
    BY <1>2, <1>11, <1>12, <1>13
  <2>2. ASSUME NEW i \in 1 .. Len(Q) + 1, NEW j \in 1 .. Len(Q) + 1, queue'[i].h = queue'[j].h
        PROVE  i = j
    <3>1. \A x \in 1 .. Len(Q) : Q[x].h # h
      BY DEF Taken
    <3>2. \A x, y \in 1 .. Len(Q) : Q[x].h = Q[y].h => x = y
      BY DEF Taken
    <3> QED
      BY <1>12, <1>13, <2>2, <3>1, <3>2
  <2>3. ASSUME NEW g \in InProgress \cup {h}
        PROVE  \E i \in 1 .. Len(Q) + 1 : queue'[i].h = g
    <3>1. CASE g = h
      <4>1. Len(Q) + 1 \in 1 .. Len(Q) + 1
        BY <1>3
      <4> QED
        BY <1>13, <3>1, <4>1
    <3>2. CASE g # h
      <4>1. PICK j \in 1 .. Len(Q) : Q[j].h = g
        BY <3>2 DEF Taken
      <4>2. j \in 1 .. Len(Q) + 1
        BY <1>3
      <4> QED
        BY <1>13, <4>1, <4>2
    <3> QED
      BY <3>1, <3>2
  <2> QED
    BY <1>6, <1>13, <2>1, <2>2, <2>3 DEF Matched
<1>15. Owned'
  <2>1. ASSUME NEW g \in Peer, req'[g].at # "none" PROVE req'[g].fd \in Fd
    BY <1>2, <2>1 DEF EventInv, Owned
  <2>2. ASSUME NEW g \in InProgress \cup {h}, NEW x \in InProgress \cup {h}, req'[g].fd = req'[x].fd
        PROVE  g = x
    BY <1>2, <1>8, <2>2 DEF EventInv, Owned
  <2>3. ASSUME NEW x \in Fd, S[x].open PROVE \E g \in Peer : req'[g].at # "none" /\ req'[g].fd = x
    <3>1. CASE x = r.fd
      <4>1. req'[h].at # "none" /\ req'[h].fd = x
        BY <1>2, <3>1 DEF Callbacks, Writes, Reads
      <4> QED
        BY <4>1
    <3>2. CASE x # r.fd
      <4>1. sock[x].open /\ (h \in InProgress => x # req[h].fd)
        BY <1>9, <2>3, <3>2
      <4>2. PICK g \in Peer : req[g].at # "none" /\ req[g].fd = x
        BY <4>1 DEF EventInv, Owned
      <4>3. g # h
        BY <4>1, <4>2
      <4> QED
        BY <1>2, <4>2, <4>3
    <3> QED
      BY <3>1, <3>2
  <2>4. Fd' = Fd /\ Peer' = Peer
    BY DEF Fd, Peer
  <2> QED
    BY <1>6, <2>1, <2>2, <2>3, <2>4 DEF Owned
<1>16. Timed'
  <2>1. ASSUME NEW i \in 1 .. Len(Q) + 1
        PROVE  /\ queue'[i].callback \in Writes => queue'[i].left = NoTimeout
               /\ queue'[i].left = 0 /\ LastTry(queue[i])' =>
                    req'[queue'[i].h].excused \/ ReadReady(queue[i].fd)'
               /\ turn'.pc = "visit" /\ queue'[i].due =>
                    /\ queue'[i].callback \notin Writes
                    /\ LastTry(queue[i])' => req'[queue'[i].h].excused \/ queue'[i].fd \in turn'.rset
    <3>1. CASE i = Len(Q) + 1
      BY <1>13, <3>1 DEF NewEvent
    <3>2. CASE i \in 1 .. Len(Q)
      BY <1>11, <1>13, <3>2 DEF LastTry, ReadReady
    <3> QED
      BY <1>12, <3>1, <3>2
  <2> QED
    BY <1>13, <2>1 DEF Timed
<1>17. Served'
  <2>1. ASSUME NEW g \in InProgress \cup {h} PROVE Serves(S[req'[g].fd], req'[g].at, req'[g].excused)
    <3>1. CASE g = h
      BY <1>2, <3>1
    <3>2. CASE g # h
      <4>1. Serves(sock[req[g].fd], req[g].at, req[g].excused)
        BY <3>2 DEF EventInv, Served
      <4>2. req'[g] = req[g]
        BY <1>2, <1>8, <3>2
      <4> QED
        BY <1>10, <3>2, <4>1, <4>2
    <3> QED
      BY <3>1, <3>2
  <2>2. \A g \in InProgress' : Serves(sock'[req'[g].fd], req'[g].at, req'[g].excused)
    BY <1>6, <2>1
  <2> QED
    BY <2>2 DEF Served, Serves, Expected, Broken, Follows
<1>18. LeftClean'
  <2>1. ASSUME NEW x \in Fd, S[x].open, \A g \in InProgress \cup {h} : req'[g].fd # x
        PROVE  Clean(S[x])
    <3>1. x # r.fd
      BY <1>2, <2>1
    <3>2. S[x] = sock[x] /\ (h \in InProgress => x # req[h].fd)
      BY <1>9, <2>1, <3>1
    <3>3. \A g \in InProgress : req[g].fd # x
      BY <1>2, <1>8, <2>1, <3>2
    <3> QED
      BY <2>1, <3>2, <3>3 DEF EventInv, LeftClean
  <2>2. \A x \in Fd : sock'[x].open /\ (\A g \in InProgress' : req'[g].fd # x) => Clean(sock'[x])
    BY <1>6, <2>1
  <2> QED
    BY <2>2 DEF LeftClean, Clean, Follows, Fd
<1>19. FirstRight'
  <2>1. ASSUME NEW g \in Peer
        PROVE  /\ req'[g].first # "none" => req'[g].at \in {"ok", "failed"}
               /\ req'[g].first \notin {"none", "rpc", "error"} =>
                    /\ S[req'[g].fd].open /\ S[req'[g].fd].late
                    /\ \A x \in InProgress \cup {h} : req'[x].fd # req'[g].fd
    <3>1. CASE g = h
      BY <1>2, <3>1
    <3>2. CASE g # h
      <4>1. req'[g] = req[g]
        BY <1>2, <3>2
      <4>2. req[g].first # "none" => req[g].at \in {"ok", "failed"}
        BY DEF EventInv, FirstRight
      <4>3. ASSUME req[g].first \notin {"none", "rpc", "error"}
            PROVE  /\ S[req[g].fd].open /\ S[req[g].fd].late
                   /\ \A x \in InProgress \cup {h} : req'[x].fd # req[g].fd
        <5>1. /\ sock[req[g].fd].open /\ sock[req[g].fd].late
              /\ \A x \in InProgress : req[x].fd # req[g].fd
          BY <4>3 DEF EventInv, FirstRight
        <5>2. req[g].fd \in Fd
          BY <4>2, <4>3 DEF EventInv, Owned
        <5>3. req[g].fd # r.fd
          BY <5>1
        <5>4. S[req[g].fd] = sock[req[g].fd]
          BY <5>1, <5>2, <5>3 DEF Elsewhere
        <5>5. \A x \in InProgress \ {h} : req'[x] = req[x]
          BY <1>2, <1>8
        <5> QED
          BY <1>2, <5>1, <5>3, <5>4, <5>5
      <4> QED
        BY <4>1, <4>2, <4>3
    <3> QED
      BY <3>1, <3>2
  <2> QED
    BY <1>6, <2>1 DEF FirstRight
<1>20. FailsForReason'
  <2>1. ASSUME NEW g \in Peer, req'[g].at = "failed" PROVE req'[g].excused
    <3>1. g # h
      BY <1>2, <2>1 DEF Callbacks, Writes, Reads
    <3> QED
      BY <1>2, <2>1, <3>1 DEF EventInv, FailsForReason
  <2> QED
    BY <2>1 DEF FailsForReason
<1> QED
  BY <1>5, <1>14, <1>15, <1>16, <1>17, <1>18, <1>19, <1>20 DEF EventInv

\* A request that has ended, its socket closed or left in the cache.
LEMMA EndsKeeps ==
  ASSUME EventInv, NEW h \in InProgress, NEW Q, Taken(Q, h),
         NEW at \in {"ok", "failed", "denied"}, at = "failed" => req[h].excused,
         NEW S, NEW f \in Fd, Elsewhere(S, h, f), f = req[h].fd \/ (~sock[f].open /\ ~S[f].open),
         S[req[h].fd].open => Clean(S[req[h].fd]),
         queue' = Q, req' = [req EXCEPT ![h].at = at], sock' = S, Turning, Visiting'
  PROVE  EventInv'
<1>1. req \in [Peer -> Requests] /\ sock \in [Fd -> Sockets] /\ EventTypeOK
  BY DEF EventInv, EventTypeOK
<1>2. h \in Peer /\ req[h].at \notin {"none", "ok", "failed", "denied"} /\ req[h].fd \in Fd
  BY DEF InProgress, EventInv, Owned
<1>3. /\ req' \in [Peer -> Requests] /\ \A g \in Peer \ {h} : req'[g] = req[g]
      /\ req'[h].at = at /\ req'[h].fd = req[h].fd /\ req'[h].excused = req[h].excused
      /\ req'[h].first = req[h].first
  <2>1. req' = [req EXCEPT ![h] = [req[h] EXCEPT !.at = at]]
    BY <1>1
  <2>2. req[h] \in Requests
    BY <1>1, <1>2
  <2>3. /\ [req[h] EXCEPT !.at = at] \in Requests /\ [req[h] EXCEPT !.at = at].at = at
        /\ [req[h] EXCEPT !.at = at].fd = req[h].fd /\ [req[h] EXCEPT !.at = at].excused = req[h].excused
        /\ [req[h] EXCEPT !.at = at].first = req[h].first
    BY <2>2 DEF Requests
  <2> QED
    BY <1>1, <1>2, <2>1, <2>3
<1>4. Q \in Seq(Events)
  BY DEF Taken
<1>5. EventTypeOK'
  BY <1>3, <1>4 DEF EventTypeOK, Turning, Elsewhere
<1>6. InProgress' = InProgress \ {h}
  <2>1. ASSUME NEW g \in Peer
        PROVE  req'[g].at \notin {"none", "ok", "failed", "denied"} <=>
                 (req[g].at \notin {"none", "ok", "failed", "denied"} /\ g # h)
    BY <1>3
  <2> QED
    BY <2>1 DEF InProgress
<1>7. \A g \in InProgress \ {h} : g \in Peer /\ req[g].fd \in Fd /\ req[g].fd # req[h].fd /\ req[g].fd # f
  <2>1. ASSUME NEW g \in InProgress \ {h}
        PROVE  g \in Peer /\ req[g].fd \in Fd /\ req[g].fd # req[h].fd /\ req[g].fd # f
    <3>1. g \in Peer /\ req[g].at # "none"
      BY DEF InProgress
    <3>2. sock[req[g].fd].open
      BY DEF EventInv, Served, Serves
    <3> QED
      BY <3>1, <3>2 DEF EventInv, Owned
  <2> QED
    BY <2>1
<1>8. \A x \in Fd \ {req[h].fd} : (S[x].open \/ sock[x].open) => S[x] = sock[x]
  BY DEF Elsewhere
<1>9. \A g \in InProgress \ {h} : S[req[g].fd] = sock[req[g].fd] /\ req'[g] = req[g]
  BY <1>3, <1>7 DEF Elsewhere
<1>10. ASSUME NEW j \in 1 .. Len(Q)
       PROVE  /\ Q[j].h \in InProgress \ {h}
              /\ req'[Q[j].h].at = Q[j].callback /\ req'[Q[j].h].fd = Q[j].fd
              /\ Q[j].callback \in Writes => Q[j].left = NoTimeout
              /\ Q[j].left = 0 /\ LastTry(Q[j])' => req'[Q[j].h].excused \/ ReadReady(Q[j].fd)'
              /\ turn'.pc = "visit" /\ Q[j].due => Q[j].callback \notin Writes
              /\ turn'.pc = "visit" /\ Q[j].due /\ LastTry(Q[j])' =>
                   req'[Q[j].h].excused \/ Q[j].fd \in turn'.rset
  <2>1. \A g \in InProgress \ {h} : req[g].fd # f
    BY <1>7
  <2> QED
    BY <1>2, <1>3, <2>1, OthersTimed
<1>11. Matched'
  <2>1. ASSUME NEW g \in InProgress \ {h} PROVE \E i \in 1 .. Len(Q) : Q[i].h = g
    BY DEF Taken
  <2>2. \A i, j \in 1 .. Len(Q) : Q[i].h = Q[j].h => i = j
    BY DEF Taken
  <2> QED
    BY <1>6, <1>10, <2>1, <2>2 DEF Matched
<1>12. Owned'
  <2>1. ASSUME NEW g \in Peer, req'[g].at # "none" PROVE req'[g].fd \in Fd
    BY <1>2, <1>3, <2>1 DEF EventInv, Owned
  <2>2. ASSUME NEW g \in InProgress \ {h}, NEW x \in InProgress \ {h}, req'[g].fd = req'[x].fd
        PROVE  g = x
    BY <1>9, <2>2 DEF EventInv, Owned
  <2>3. ASSUME NEW x \in Fd, S[x].open PROVE \E g \in Peer : req'[g].at # "none" /\ req'[g].fd = x
    <3>1. CASE x = req[h].fd
      <4>1. req'[h].at # "none" /\ req'[h].fd = x
        BY <1>3, <3>1
      <4> QED
        BY <1>2, <4>1
    <3>2. CASE x # req[h].fd
      <4>1. PICK g \in Peer : req[g].at # "none" /\ req[g].fd = x
        BY <1>8, <2>3, <3>2 DEF EventInv, Owned
      <4> QED
        BY <1>3, <3>2, <4>1
    <3> QED
      BY <3>1, <3>2
  <2>4. Fd' = Fd /\ Peer' = Peer
    BY DEF Fd, Peer
  <2> QED
    BY <1>6, <2>1, <2>2, <2>3, <2>4 DEF Owned
<1>13. Timed'
  BY <1>10 DEF Timed, LastTry, ReadReady
<1>14. Served'
  <2>1. ASSUME NEW g \in InProgress \ {h} PROVE Serves(S[req'[g].fd], req'[g].at, req'[g].excused)
    <3>1. Serves(sock[req[g].fd], req[g].at, req[g].excused)
      BY DEF EventInv, Served
    <3> QED
      BY <1>9, <3>1
  <2>2. \A g \in InProgress' : Serves(sock'[req'[g].fd], req'[g].at, req'[g].excused)
    BY <1>6, <2>1
  <2> QED
    BY <2>2 DEF Served, Serves, Expected, Broken, Follows
<1>15. LeftClean'
  <2>1. ASSUME NEW x \in Fd, S[x].open, \A g \in InProgress \ {h} : req'[g].fd # x
        PROVE  Clean(S[x])
    <3>1. CASE x = req[h].fd
      BY <2>1, <3>1
    <3>2. CASE x # req[h].fd
      <4>1. \A g \in InProgress : req[g].fd # x
        BY <1>9, <2>1, <3>2
      <4> QED
        BY <1>8, <2>1, <3>2, <4>1 DEF EventInv, LeftClean
    <3> QED
      BY <3>1, <3>2
  <2>2. \A x \in Fd : sock'[x].open /\ (\A g \in InProgress' : req'[g].fd # x) => Clean(sock'[x])
    BY <1>6, <2>1
  <2> QED
    BY <2>2 DEF LeftClean, Clean, Follows, Fd
<1>16. FirstRight'
  <2>1. ASSUME NEW g \in Peer
        PROVE  /\ req'[g].first # "none" => req'[g].at \in {"ok", "failed"}
               /\ req'[g].first \notin {"none", "rpc", "error"} =>
                    /\ S[req'[g].fd].open /\ S[req'[g].fd].late
                    /\ \A x \in InProgress \ {h} : req'[x].fd # req'[g].fd
    <3>1. CASE g = h
      <4>1. req[h].first = "none"
        BY <1>2 DEF EventInv, FirstRight
      <4> QED
        BY <1>3, <3>1, <4>1
    <3>2. CASE g # h
      <4>1. req'[g] = req[g]
        BY <1>3, <3>2
      <4>2. req[g].first # "none" => req[g].at \in {"ok", "failed"}
        BY DEF EventInv, FirstRight
      <4>3. ASSUME req[g].first \notin {"none", "rpc", "error"}
            PROVE  /\ S[req[g].fd].open /\ S[req[g].fd].late
                   /\ \A x \in InProgress \ {h} : req'[x].fd # req[g].fd
        <5>1. /\ sock[req[g].fd].open /\ sock[req[g].fd].late
              /\ \A x \in InProgress : req[x].fd # req[g].fd
          BY <4>3 DEF EventInv, FirstRight
        <5>2. req[g].fd \in Fd
          BY <4>2, <4>3 DEF EventInv, Owned
        <5> QED
          BY <1>8, <1>9, <5>1, <5>2
      <4> QED
        BY <4>1, <4>2, <4>3
    <3> QED
      BY <3>1, <3>2
  <2> QED
    BY <1>6, <2>1 DEF FirstRight
<1>17. FailsForReason'
  <2>1. ASSUME NEW g \in Peer, req'[g].at = "failed" PROVE req'[g].excused
    <3>1. CASE g = h
      BY <1>3, <2>1, <3>1
    <3>2. CASE g # h
      BY <1>3, <2>1, <3>2 DEF EventInv, FailsForReason
    <3> QED
      BY <3>1, <3>2
  <2> QED
    BY <2>1 DEF FailsForReason
<1> QED
  BY <1>5, <1>11, <1>12, <1>13, <1>14, <1>15, <1>16, <1>17 DEF EventInv

(***************************************************************************)
(* A visit of an event                                                     *)
(***************************************************************************)
LEMMA VisitedEvent ==
  ASSUME EventInv, turn.pc = "visit", NEW e, e = queue[turn.i]
  PROVE  /\ turn.i \in 1 .. Len(queue)
         /\ e \in Events /\ e.callback \in Callbacks /\ e.fd \in Fd
         /\ e.h \in InProgress /\ e.h \in Peer
         /\ req[e.h] \in Requests /\ req[e.h].at = e.callback /\ req[e.h].fd = e.fd
         /\ req[e.h].first = "none"
         /\ sock \in [Fd -> Sockets] /\ sock[e.fd] \in Sockets
         /\ Serves(sock[e.fd], e.callback, req[e.h].excused)
         /\ Taken(RemoveAt(queue, turn.i), e.h)
<1>1. turn.i \in 1 .. Len(queue) /\ queue \in Seq(Events) /\ EventTypeOK
  BY DEF EventInv, Visiting, EventTypeOK
<1>2. e \in Events
  BY <1>1
<1>3. e.callback \in Callbacks /\ e.fd \in Fd /\ e.h \in Peer
  BY <1>2 DEF Events
<1>4. req[e.h] \in Requests /\ sock \in [Fd -> Sockets] /\ sock[e.fd] \in Sockets
  BY <1>1, <1>3 DEF EventTypeOK
<1>5. req[e.h].at = e.callback /\ req[e.h].fd = e.fd
  BY <1>1 DEF EventInv, Matched
<1>6. e.h \in InProgress
  BY <1>1, <1>3, <1>5, InProgressIs
<1>7. req[e.h].first = "none"
  <2>1. e.callback \notin {"ok", "failed"}
    BY <1>3 DEF Callbacks, Writes, Reads
  <2> QED
    BY <1>3, <1>5, <2>1 DEF EventInv, FirstRight
<1>8. Serves(sock[e.fd], e.callback, req[e.h].excused)
  BY <1>5, <1>6 DEF EventInv, Served
<1>9. Taken(RemoveAt(queue, turn.i), e.h)
  <2> DEFINE Q == RemoveAt(queue, turn.i)
  <2>1. /\ Q \in Seq(Events) /\ Len(Q) = Len(queue) - 1
        /\ \A j \in 1 .. Len(queue) - 1 : Q[j] = IF j < turn.i THEN queue[j] ELSE queue[j + 1]
    BY <1>1, Removed
  <2> HIDE DEF Q
  <2>2. \A i, j \in 1 .. Len(queue) : queue[i].h = queue[j].h => i = j
    BY DEF EventInv, Matched
  <2>3. Len(queue) \in Nat /\ turn.i \in Nat
    BY <1>1
  <2>4. ASSUME NEW j \in 1 .. Len(Q)
        PROVE  Q[j].h # e.h /\ \E i \in 1 .. Len(queue) : Q[j] = queue[i]
    <3>1. j \in 1 .. Len(queue) /\ j + 1 \in 1 .. Len(queue) /\ j \in 1 .. Len(queue) - 1
      BY <2>1, <2>3
    <3>2. CASE j < turn.i
      BY <1>1, <2>1, <2>2, <3>1, <3>2
    <3>3. CASE ~(j < turn.i)
      <4>1. j + 1 # turn.i
        BY <2>3, <3>1, <3>3
      <4> QED
        BY <1>1, <2>1, <2>2, <3>1, <3>3, <4>1
    <3> QED
      BY <3>2, <3>3
  <2>5. ASSUME NEW i \in 1 .. Len(Q), NEW j \in 1 .. Len(Q), Q[i].h = Q[j].h
        PROVE  i = j
    <3> DEFINE a == IF i < turn.i THEN i ELSE i + 1
               b == IF j < turn.i THEN j ELSE j + 1
    <3>1. a \in 1 .. Len(queue) /\ b \in 1 .. Len(queue)
      BY <2>1, <2>3
    <3>2. Q[i] = queue[a] /\ Q[j] = queue[b]
      BY <2>1, <2>3
    <3>3. (a = b) => (i = j)
      BY <2>1, <2>3
    <3> HIDE DEF a, b
    <3> QED
      BY <2>2, <2>5, <3>1, <3>2, <3>3
  <2>6. ASSUME NEW g \in InProgress \ {e.h}
        PROVE  \E j \in 1 .. Len(Q) : Q[j].h = g
    <3>1. PICK i \in 1 .. Len(queue) : queue[i].h = g
      BY DEF EventInv, Matched
    <3>2. i # turn.i
      BY <3>1
    <3>3. CASE i < turn.i
      <4>1. i \in 1 .. Len(queue) - 1
        BY <1>1, <2>3, <3>3
      <4> QED
        BY <2>1, <3>1, <3>3, <4>1
    <3>4. CASE i > turn.i
      <4>1. i - 1 \in 1 .. Len(queue) - 1 /\ ~(i - 1 < turn.i) /\ (i - 1) + 1 = i
        BY <1>1, <2>3, <3>4
      <4>2. Q[i - 1] = queue[i]
        BY <2>1, <4>1
      <4> QED
        BY <2>1, <3>1, <4>1, <4>2
    <3> QED
      BY <2>3, <3>2, <3>3, <3>4
  <2>7. Taken(Q, e.h)
    BY <2>1, <2>4, <2>5, <2>6 DEF Taken
  <2> QED
    BY <2>7 DEF Q
<1> QED
  BY <1>1, <1>2, <1>3, <1>4, <1>5, <1>6, <1>7, <1>8, <1>9

\* The next place of the turn, if one event at most has left the queue.
LEMMA VisitedKeeps ==
  ASSUME EventInv, turn.pc = "visit", VisitedTo(turn.i), Len(queue') \in Nat, Len(queue') >= Len(queue) - 1
  PROVE  Turning /\ Visiting'
<1>1. turn.i \in 1 .. Len(queue) /\ turn \in Turns /\ Len(queue) \in Nat
  BY DEF EventInv, Visiting, EventTypeOK
<1>2. CASE turn.i = Len(queue)
  <2>1. turn' = [turn EXCEPT !.pc = "idle", !.i = 0, !.rset = {}, !.wset = {}]
    BY <1>2 DEF VisitedTo
  <2>2. turn' \in Turns /\ turn'.pc = "idle"
    BY <1>1, <2>1 DEF Turns
  <2> QED
    BY <2>2 DEF Turning, Visiting
<1>3. CASE turn.i # Len(queue)
  <2>1. turn' = [turn EXCEPT !.i = turn.i]
    BY <1>3 DEF VisitedTo
  <2>2. turn' \in Turns /\ turn'.i = turn.i /\ turn'.rset = turn.rset
    BY <1>1, <2>1 DEF Turns
  <2>3. turn.i \in 1 .. Len(queue')
    BY <1>1, <1>3
  <2> QED
    BY <2>2, <2>3 DEF Turning, Visiting
<1> QED
  BY <1>2, <1>3

\* A callback that adds the next event of its request.
LEMMA VisitGoesOn ==
  ASSUME EventInv, turn.pc = "visit", NEW e, e = queue[turn.i], VisitedTo(turn.i),
         NEW callback \in Callbacks, NEW f \in Fd,
         NEW timeout \in (Nat \ {0}) \cup {NoTimeout}, callback \in Writes => timeout = NoTimeout,
         NEW S, Elsewhere(S, e.h, f), f = e.fd \/ ~sock[f].open,
         Serves(S[f], callback, req[e.h].excused),
         GoesOn(RemoveAt(queue, turn.i), e.h, callback, f, timeout, S)
  PROVE  EventInv'
<1> DEFINE Q == RemoveAt(queue, turn.i)
           d == Event(e.h, callback, f, timeout)
           r == [req[e.h] EXCEPT !.at = callback, !.fd = f]
<1>1. /\ e.h \in InProgress /\ e.h \in Peer /\ req[e.h] \in Requests /\ req[e.h].fd = e.fd
      /\ req[e.h].first = "none" /\ Taken(Q, e.h) /\ turn.i \in 1 .. Len(queue)
  BY VisitedEvent
<1>2. queue \in Seq(Events) /\ req \in [Peer -> Requests] /\ Len(queue) \in Nat
  BY DEF EventInv, EventTypeOK
<1>3. Len(Q) = Len(queue) - 1
  BY <1>1, <1>2, Removed
<1>4. /\ d \in Events /\ ~d.due /\ d.left # 0 /\ d.h = e.h /\ d.callback = callback
      /\ d.fd = f /\ d.left = timeout
  BY <1>1 DEF Event, Events, NoTimeout
<1>5. NewEvent(d)
  BY <1>4 DEF NewEvent
<1>6. r \in Requests /\ r.at = callback /\ r.fd = f /\ r.first = "none" /\ r.excused = req[e.h].excused
  <2>1. f \in 0 .. Len(Peers)
    BY DEF Fd
  <2> QED
    BY <1>1, <2>1 DEF Requests
<1>7. queue' = Append(Q, d) /\ sock' = S
  BY DEF GoesOn, Added
<1>8. req' = [req EXCEPT ![e.h] = r]
  BY <1>1, <1>2 DEF GoesOn
<1> HIDE DEF Q, d, r
<1>9. Len(queue') \in Nat /\ Len(queue') >= Len(queue) - 1
  <2>1. Q \in Seq(Events)
    BY <1>1 DEF Taken
  <2>2. Len(Append(Q, d)) = Len(Q) + 1
    BY <1>4, <2>1, AppendProperties
  <2> QED
    BY <1>2, <1>3, <1>7, <2>2
<1>10. Turning /\ Visiting'
  BY <1>9, VisitedKeeps
<1>11. (e.h \in InProgress /\ r.fd = req[e.h].fd) \/ ~sock[r.fd].open
  BY <1>1, <1>6
<1>12. Elsewhere(S, e.h, r.fd) /\ Serves(S[r.fd], r.at, r.excused)
  BY <1>6
<1> QED
  BY <1>1, <1>4, <1>5, <1>6, <1>7, <1>8, <1>10, <1>11, <1>12, GoesOnKeeps

\* A callback that ends its request.
LEMMA VisitEnds ==
  ASSUME EventInv, turn.pc = "visit", NEW e, e = queue[turn.i], VisitedTo(turn.i),
         NEW at \in {"ok", "failed", "denied"}, at = "failed" => req[e.h].excused,
         NEW f \in Fd, NEW S, Elsewhere(S, e.h, f), f = e.fd \/ (~sock[f].open /\ ~S[f].open),
         S[e.fd].open => Clean(S[e.fd]),
         Ends(RemoveAt(queue, turn.i), e.h, at, S)
  PROVE  EventInv'
<1> DEFINE Q == RemoveAt(queue, turn.i)
<1>1. /\ e.h \in InProgress /\ req[e.h].fd = e.fd
      /\ Taken(Q, e.h) /\ turn.i \in 1 .. Len(queue)
  BY VisitedEvent
<1>2. queue \in Seq(Events) /\ Len(queue) \in Nat
  BY DEF EventInv, EventTypeOK
<1>3. Len(Q) = Len(queue) - 1
  BY <1>1, <1>2, Removed
<1>4. queue' = Q /\ sock' = S /\ req' = [req EXCEPT ![e.h].at = at]
  BY DEF Ends
<1> HIDE DEF Q
<1>5. Len(queue') \in Nat /\ Len(queue') >= Len(queue) - 1
  BY <1>1, <1>2, <1>3, <1>4
<1>6. Turning /\ Visiting'
  BY <1>5, VisitedKeeps
<1> QED
  BY <1>1, <1>4, <1>6, EndsKeeps

\* A callback that fails, and closes its socket.
LEMMA VisitDrops ==
  ASSUME EventInv, turn.pc = "visit", NEW e, e = queue[turn.i], VisitedTo(turn.i),
         req[e.h].excused, Drops(RemoveAt(queue, turn.i), e.h)
  PROVE  EventInv'
<1> DEFINE S == [sock EXCEPT ![req[e.h].fd] = ClosedFd]
<1>1. req[e.h].fd = e.fd /\ e.fd \in Fd /\ sock \in [Fd -> Sockets]
  BY VisitedEvent
<1>2. ClosedFd \in Sockets /\ ~ClosedFd.open
  BY DEF ClosedFd, Sockets
<1>3. S \in [Fd -> Sockets] /\ S[e.fd] = ClosedFd /\ \A x \in Fd \ {e.fd} : S[x] = sock[x]
  BY <1>1, <1>2
<1>4. Ends(RemoveAt(queue, turn.i), e.h, "failed", S)
  BY DEF Drops
<1> HIDE DEF S
<1>5. Elsewhere(S, e.h, e.fd)
  BY <1>1, <1>3 DEF Elsewhere
<1> QED
  BY <1>1, <1>2, <1>3, <1>4, <1>5, VisitEnds

(***************************************************************************)
(* Sockets that are written and read                                       *)
(***************************************************************************)
LEMMA ExpectedIs ==
  /\ Expected["get_load_send"] = <<>> /\ Expected["get_load_receive"] = <<>>
  /\ Expected["connect_start_auth"] = <<"methods">> /\ Expected["receive_methods"] = <<"methods">>
  /\ Expected["ask_method"] = <<>> /\ Expected["dispatch_method"] = <<"method">>
  /\ Expected["send_keytype"] = <<>> /\ Expected["receive_keytype"] = <<"keytype", "challenge">>
  /\ Expected["receive_challenge"] = <<"challenge">> /\ Expected["receive_result"] = <<"result">>
  /\ Expected["statfs_send"] = <<>> /\ Expected["statfs_receive"] = <<"statfs">>
BY DEF Expected, Callbacks, Writes, Reads

LEMMA ExpectedMessages == \A at \in Callbacks : Expected[at] \in Seq(Arrivals)
<1>1. /\ "methods" \in Arrivals /\ "method" \in Arrivals /\ "keytype" \in Arrivals
      /\ "challenge" \in Arrivals /\ "result" \in Arrivals /\ "statfs" \in Arrivals
  BY DEF Arrivals, Answers
<1>2. <<>> \in Seq(Arrivals) /\ \A m, n \in Arrivals : <<m>> \in Seq(Arrivals) /\ <<m, n>> \in Seq(Arrivals)
  OBVIOUS
<1>3. \A at \in Callbacks :
        Expected[at] \in {<<>>, <<"methods">>, <<"method">>, <<"keytype", "challenge">>, <<"challenge">>,
                         <<"result">>, <<"statfs">>}
  BY ExpectedIs DEF Callbacks, Writes, Reads
<1> QED
  BY <1>1, <1>2, <1>3

\* Follows does not depend on how what is read is put together.
LEMMA MoreSent ==
  ASSUME NEW s \in Seq(Arrivals), NEW w \in Seq(Answers), NEW a \in Seq(Answers)
  PROVE  w \o a \in Seq(Answers) /\ s \o (w \o a) = (s \o w) \o a /\ s \o w \in Seq(Arrivals)
<1>1. w \in Seq(Arrivals) /\ a \in Seq(Arrivals)
  BY SeqMonotonic DEF Arrivals
<1>2. w \o a \in Seq(Answers)
  BY ConcatProperties
<1>3. s \o w \in Seq(Arrivals)
  BY <1>1, ConcatProperties
<1>4. s \o (w \o a) = (s \o w) \o a
  BY <1>1, ConcatAssociative
<1> QED
  BY <1>2, <1>3, <1>4

\* A socket on which the next message is sent.
LEMMA SentServes ==
  ASSUME NEW s \in Sockets, NEW at \in Callbacks, NEW next \in Callbacks, NEW excused,
         Serves(s, at, excused), at \notin {"connect_start_auth", "receive_methods"},
         NEW a \in Seq(Answers),
         IF at \in LoadPart THEN next \in LoadPart
         ELSE next \notin LoadPart /\ Expected[at] = <<>> /\ Expected[next] = a
  PROVE  [s EXCEPT !.wire = @ \o a] \in Sockets /\ Serves([s EXCEPT !.wire = @ \o a], next, excused)
<1> DEFINE t == [s EXCEPT !.wire = s.wire \o a]
<1>1. /\ s.wire \in Seq(Answers) /\ s.inbox \in Seq(Arrivals)
      /\ s.wire \o a \in Seq(Answers)
      /\ s.inbox \o (s.wire \o a) = (s.inbox \o s.wire) \o a
      /\ s.inbox \o s.wire \in Seq(Arrivals)
  <2>1. PICK w, i : w = s.wire /\ i = s.inbox
    OBVIOUS
  <2>2. w \in Seq(Answers) /\ i \in Seq(Arrivals)
    BY <2>1 DEF Sockets
  <2>3. w \o a \in Seq(Answers) /\ i \o (w \o a) = (i \o w) \o a /\ i \o w \in Seq(Arrivals)
    BY <2>2, MoreSent
  <2> QED
    BY <2>1, <2>2, <2>3
<1>2. t \in Sockets
  BY <1>1 DEF Sockets
<1>3. /\ t.open = s.open /\ t.kind = s.kind /\ t.state = s.state /\ t.inbox = s.inbox
      /\ t.wire = s.wire \o a
  BY DEF Sockets
<1>4. t = [s EXCEPT !.wire = @ \o a]
  OBVIOUS
<1> HIDE DEF t
<1>5. Broken(t) <=> Broken(s)
  BY <1>3 DEF Broken
<1>6. s.open /\ (Broken(s) => excused) /\ s.state # "progress"
  BY DEF Serves
<1>7. ASSUME next \notin LoadPart PROVE t.kind = "stream" /\ Follows(t.inbox \o t.wire, Expected[next])
  <2>1. at \notin LoadPart /\ Expected[at] = <<>> /\ Expected[next] = a
    BY <1>7
  <2>2. s.kind = "stream" /\ Follows(s.inbox \o s.wire, <<>>)
    BY <2>1 DEF Serves
  <2>3. a \in Seq(Arrivals)
    BY SeqMonotonic DEF Arrivals
  <2>4. Follows((s.inbox \o s.wire) \o a, a)
    BY <1>1, <2>2, <2>3, FollowsSent
  <2> QED
    BY <1>1, <1>3, <2>1, <2>2, <2>4
<1>8. Serves(t, next, excused)
  BY <1>3, <1>5, <1>6, <1>7 DEF Serves
<1> QED
  BY <1>2, <1>4, <1>8

\* A socket from which the next message is taken.
LEMMA ReadServes ==
  ASSUME NEW s \in Sockets, NEW at \in Callbacks, NEW next \in Callbacks, NEW excused,
         Serves(s, at, excused), s.inbox # <<>>, Head(s.inbox) # "error",
         at \notin LoadPart, next \notin LoadPart, Expected[next] = Tail(Expected[at])
  PROVE  [s EXCEPT !.inbox = Tail(@)] \in Sockets /\ Serves([s EXCEPT !.inbox = Tail(@)], next, excused)
<1> DEFINE t == [s EXCEPT !.inbox = Tail(s.inbox)]
<1>1. s.wire \in Seq(Arrivals) /\ s.inbox \in Seq(Arrivals)
  <2>1. s.wire \in Seq(Answers) /\ s.inbox \in Seq(Arrivals)
    BY DEF Sockets
  <2> QED
    BY <2>1, SeqMonotonic DEF Arrivals
<1>2. /\ Tail(s.inbox) \in Seq(Arrivals) /\ Len(Tail(s.inbox)) = Len(s.inbox) - 1
      /\ \A i \in 1 .. Len(s.inbox) - 1 : Tail(s.inbox)[i] = s.inbox[i + 1]
      /\ Len(s.inbox) \in Nat
  BY <1>1, HeadTailProperties
<1>3. t \in Sockets
  BY <1>2 DEF Sockets
<1>4. /\ t.open = s.open /\ t.kind = s.kind /\ t.state = s.state /\ t.inbox = Tail(s.inbox)
      /\ t.wire = s.wire
  BY DEF Sockets
<1>5. t = [s EXCEPT !.inbox = Tail(@)]
  OBVIOUS
<1> HIDE DEF t
<1>6. Broken(t) => Broken(s)
  <2>1. ASSUME NEW i \in 1 .. Len(t.inbox), t.inbox[i] = "error"
        PROVE  \E j \in 1 .. Len(s.inbox) : s.inbox[j] = "error"
    <3>1. i + 1 \in 1 .. Len(s.inbox) /\ s.inbox[i + 1] = "error"
      BY <1>2, <1>4, <2>1
    <3> QED
      BY <3>1
  <2> QED
    BY <1>4, <2>1 DEF Broken
<1>7. s.open /\ (Broken(s) => excused) /\ s.state # "progress"
  BY DEF Serves
<1>8. t.kind = "stream" /\ Follows(t.inbox \o t.wire, Expected[next])
  <2>1. s.kind = "stream" /\ Follows(s.inbox \o s.wire, Expected[at])
    BY DEF Serves
  <2>2. /\ Tail(s.inbox) \o s.wire = Tail(s.inbox \o s.wire) /\ Head(s.inbox \o s.wire) = s.inbox[1]
        /\ s.inbox \o s.wire # <<>>
    BY <1>1, TailOfBoth
  <2>3. s.inbox \o s.wire \in Seq(Arrivals) /\ (s.inbox \o s.wire)[1] # "error"
    <3>1. s.inbox \o s.wire \in Seq(Arrivals) /\ 1 \in 1 .. Len(s.inbox)
      BY <1>1, <1>2, ConcatProperties
    <3>2. (s.inbox \o s.wire)[1] = s.inbox[1]
      <4>1. \A i \in 1 .. Len(s.inbox) : (s.inbox \o s.wire)[i] = s.inbox[i]
        BY ONLY <1>1, Concat
      <4> QED
        BY <3>1, <4>1
    <3>3. Head(s.inbox) = s.inbox[1]
      OBVIOUS
    <3> QED
      BY <3>1, <3>2, <3>3
  <2>4. Follows(Tail(s.inbox \o s.wire), Tail(Expected[at]))
    <3>1. Expected[at] \in Seq(Arrivals)
      BY ExpectedMessages
    <3> QED
      BY <2>1, <2>2, <2>3, <3>1, FollowsTail
  <2> QED
    BY <1>4, <2>1, <2>2, <2>4
<1>9. Serves(t, next, excused)
  BY <1>4, <1>6, <1>7, <1>8 DEF Serves
<1> QED
  BY <1>3, <1>5, <1>9

(***************************************************************************)
(* The callbacks                                                           *)
(***************************************************************************)
\* The first thing to read is an error, or the connection was refused.
LEMMA FailingExcused ==
  ASSUME NEW f, sock[f] \in Sockets, NEW at, NEW excused, Serves(sock[f], at, excused), Failing(f)
  PROVE  excused
<1>1. CASE sock[f].state = "refused"
  BY <1>1 DEF Serves, Broken
<1>2. CASE sock[f].inbox # <<>> /\ Head(sock[f].inbox) = "error"
  <2>1. sock[f].inbox \in Seq(Arrivals)
    BY DEF Sockets
  <2>2. 1 \in 1 .. Len(sock[f].inbox) /\ sock[f].inbox[1] = "error"
    BY <1>2, <2>1
  <2>3. Broken(sock[f])
    BY <2>2 DEF Broken
  <2> QED
    BY <2>3 DEF Serves
<1> QED
  BY <1>1, <1>2 DEF Failing

LEMMA StartAuthKeeps ==
  ASSUME EventInv, turn.pc = "visit", NEW e, e = queue[turn.i], VisitedTo(turn.i),
         NEW f \in Fd, NEW S, Elsewhere(S, e.h, f), f = e.fd \/ ~sock[f].open,
         Serves(S[f], "receive_methods", req[e.h].excused),
         StartAuth(RemoveAt(queue, turn.i), e.h, f, S)
  PROVE  EventInv'
<1>1. CASE e.h \in Authenticated
  <2>1. GoesOn(RemoveAt(queue, turn.i), e.h, "receive_methods", f, AuthTimeout, S)
    BY <1>1 DEF StartAuth
  <2>2. AuthTimeout \in (Nat \ {0}) \cup {NoTimeout}
    BY EventAssumption
  <2>3. "receive_methods" \in Callbacks /\ "receive_methods" \notin Writes
    BY DEF Callbacks, Writes, Reads
  <2> QED
    BY <2>1, <2>2, <2>3, VisitGoesOn
<1>2. CASE e.h \notin Authenticated
  <2> DEFINE U == [S EXCEPT ![f] = ClosedFd]
  <2>1. Ends(RemoveAt(queue, turn.i), e.h, "denied", U)
    BY <1>2 DEF StartAuth
  <2>2. ClosedFd \in Sockets /\ ~ClosedFd.open
    BY DEF ClosedFd, Sockets
  <2>3. U \in [Fd -> Sockets] /\ ~U[f].open /\ \A x \in Fd \ {f} : U[x] = S[x]
    BY <2>2 DEF Elsewhere
  <2> HIDE DEF U
  <2>4. Elsewhere(U, e.h, f)
    BY <2>3 DEF Elsewhere
  <2>5. e.h \in InProgress /\ e.fd \in Fd /\ req[e.h].fd = e.fd
    BY VisitedEvent
  <2>6. ~U[e.fd].open
    <3>1. CASE f = e.fd
      BY <2>3, <3>1
    <3>2. CASE f # e.fd
      BY <2>4, <2>5, <3>2 DEF Elsewhere
    <3> QED
      BY <3>1, <3>2
  <2> QED
    BY <2>1, <2>3, <2>4, <2>6, VisitEnds
<1> QED
  BY <1>1, <1>2

\* A message is sent on the socket of the event.
LEMMA SendKeeps ==
  ASSUME EventInv, turn.pc = "visit", NEW e, e = queue[turn.i], VisitedTo(turn.i),
         e.callback \notin {"connect_start_auth", "receive_methods"},
         NEW next \in Callbacks \ Writes, NEW a \in Seq(Answers), NEW timeout \in Nat \ {0},
         IF e.callback \in LoadPart THEN next \in LoadPart
         ELSE next \notin LoadPart /\ Expected[e.callback] = <<>> /\ Expected[next] = a,
         GoesOn(RemoveAt(queue, turn.i), e.h, next, e.fd, timeout, Sent(sock, e.fd, a))
  PROVE  EventInv'
<1>1. /\ e.fd \in Fd /\ sock \in [Fd -> Sockets] /\ sock[e.fd] \in Sockets
      /\ e.callback \in Callbacks /\ e.h \in InProgress /\ req[e.h].fd = e.fd
      /\ Serves(sock[e.fd], e.callback, req[e.h].excused)
  BY VisitedEvent
<1> DEFINE S == Sent(sock, e.fd, a)
<1>2. /\ [sock[e.fd] EXCEPT !.wire = @ \o a] \in Sockets
      /\ Serves([sock[e.fd] EXCEPT !.wire = @ \o a], next, req[e.h].excused)
  BY <1>1, SentServes
<1>3. S = [sock EXCEPT ![e.fd] = [sock[e.fd] EXCEPT !.wire = @ \o a]]
  BY <1>1 DEF Sent
<1> HIDE DEF S
<1>4. /\ S \in [Fd -> Sockets] /\ S[e.fd] = [sock[e.fd] EXCEPT !.wire = @ \o a]
      /\ \A x \in Fd \ {e.fd} : S[x] = sock[x]
  BY <1>1, <1>2, <1>3
<1>5. Elsewhere(S, e.h, e.fd)
  BY <1>1, <1>4 DEF Elsewhere
<1>6. Serves(S[e.fd], next, req[e.h].excused)
  BY <1>2, <1>4
<1>7. GoesOn(RemoveAt(queue, turn.i), e.h, next, e.fd, timeout, S)
  BY DEF S
<1> QED
  BY <1>1, <1>5, <1>6, <1>7, VisitGoesOn

LEMMA WriteKeeps ==
  ASSUME EventInv, turn.pc = "visit", NEW e, e = queue[turn.i], VisitedTo(turn.i),
         WriteCallback(RemoveAt(queue, turn.i), e)
  PROVE  EventInv'
<1> DEFINE Q == RemoveAt(queue, turn.i)
<1>1. /\ e.fd \in Fd /\ sock \in [Fd -> Sockets] /\ sock[e.fd] \in Sockets
      /\ e.callback \in Callbacks /\ e.h \in InProgress /\ e.h \in Peer
      /\ req[e.h] \in Requests /\ req[e.h].fd = e.fd
      /\ Serves(sock[e.fd], e.callback, req[e.h].excused)
  BY VisitedEvent
<1>2. Failing(e.fd) => req[e.h].excused
  BY <1>1, FailingExcused
<1>3. Drops(Q, e.h) /\ req[e.h].excused => EventInv'
  BY VisitDrops
<1>4. AuthTimeout \in Nat \ {0} /\ StatfsTimeout \in Nat \ {0} /\ LoadTimeouts \in Seq(Nat \ {0})
  BY EventAssumption
<1>5. /\ <<"load">> \in Seq(Answers) /\ <<"method">> \in Seq(Answers)
      /\ <<"keytype", "challenge">> \in Seq(Answers) /\ <<"statfs">> \in Seq(Answers)
  BY DEF Answers
<1>6. CASE e.callback = "get_load_send" /\ GetLoadSend(Q, e.h, e.fd)
  <2>1. LoadTimeouts[req[e.h].try] \in Nat \ {0}
    <3>1. req[e.h].try \in 1 .. Len(LoadTimeouts)
      BY <1>1 DEF Requests
    <3> QED
      BY <1>4, <3>1
  <2>2. CASE Failing(e.fd)
    BY <1>2, <1>3, <1>6, <2>2 DEF GetLoadSend
  <2>3. CASE ~Failing(e.fd)
    <3>1. GoesOn(Q, e.h, "get_load_receive", e.fd, LoadTimeouts[req[e.h].try], Sent(sock, e.fd, <<"load">>))
      BY <1>6, <2>3 DEF GetLoadSend
    <3>2. "get_load_receive" \in Callbacks \ Writes /\ "get_load_receive" \in LoadPart /\ e.callback \in LoadPart
      BY <1>6 DEF Callbacks, Writes, Reads, LoadPart
    <3> QED
      BY <1>5, <1>6, <2>1, <3>1, <3>2, SendKeeps
  <2> QED
    BY <2>2, <2>3
<1>7. CASE e.callback = "connect_start_auth" /\ ConnectStartAuth(Q, e.h, e.fd)
  <2>1. CASE sock[e.fd].state = "refused"
    BY <1>2, <1>3, <1>7, <2>1 DEF ConnectStartAuth, Failing
  <2>2. CASE sock[e.fd].state # "refused"
    <3>1. StartAuth(Q, e.h, e.fd, sock)
      BY <1>7, <2>2 DEF ConnectStartAuth
    <3>2. Serves(sock[e.fd], "receive_methods", req[e.h].excused)
      BY <1>1, <1>7, ExpectedIs DEF Serves, LoadPart
    <3>3. Elsewhere(sock, e.h, e.fd)
      BY <1>1 DEF Elsewhere
    <3> QED
      BY <1>1, <3>1, <3>2, <3>3, StartAuthKeeps
  <2> QED
    BY <2>1, <2>2
<1>8. CASE e.callback = "ask_method" /\ AuthSend(Q, e.h, e.fd, "dispatch_method", <<"method">>)
  <2>1. CASE Failing(e.fd)
    BY <1>2, <1>3, <1>8, <2>1 DEF AuthSend
  <2>2. CASE ~Failing(e.fd)
    <3>1. GoesOn(Q, e.h, "dispatch_method", e.fd, AuthTimeout, Sent(sock, e.fd, <<"method">>))
      BY <1>8, <2>2 DEF AuthSend
    <3>2. "dispatch_method" \in Callbacks \ Writes /\ "dispatch_method" \notin LoadPart /\ e.callback \notin LoadPart
      BY <1>8 DEF Callbacks, Writes, Reads, LoadPart
    <3> QED
      BY <1>4, <1>5, <1>8, <3>1, <3>2, ExpectedIs, SendKeeps
  <2> QED
    BY <2>1, <2>2
<1>9. CASE e.callback = "send_keytype" /\ AuthSend(Q, e.h, e.fd, "receive_keytype", <<"keytype", "challenge">>)
  <2>1. CASE Failing(e.fd)
    BY <1>2, <1>3, <1>9, <2>1 DEF AuthSend
  <2>2. CASE ~Failing(e.fd)
    <3>1. GoesOn(Q, e.h, "receive_keytype", e.fd, AuthTimeout, Sent(sock, e.fd, <<"keytype", "challenge">>))
      BY <1>9, <2>2 DEF AuthSend
    <3>2. "receive_keytype" \in Callbacks \ Writes /\ "receive_keytype" \notin LoadPart /\ e.callback \notin LoadPart
      BY <1>9 DEF Callbacks, Writes, Reads, LoadPart
    <3> QED
      BY <1>4, <1>5, <1>9, <3>1, <3>2, ExpectedIs, SendKeeps
  <2> QED
    BY <2>1, <2>2
<1>10. CASE e.callback = "statfs_send" /\ StatfsSend(Q, e.h, e.fd)
  <2>1. CASE Failing(e.fd)
    BY <1>2, <1>3, <1>10, <2>1 DEF StatfsSend
  <2>2. CASE ~Failing(e.fd)
    <3>1. GoesOn(Q, e.h, "statfs_receive", e.fd, StatfsTimeout, Sent(sock, e.fd, <<"statfs">>))
      BY <1>10, <2>2 DEF StatfsSend
    <3>2. "statfs_receive" \in Callbacks \ Writes /\ "statfs_receive" \notin LoadPart /\ e.callback \notin LoadPart
      BY <1>10 DEF Callbacks, Writes, Reads, LoadPart
    <3> QED
      BY <1>4, <1>5, <1>10, <3>1, <3>2, ExpectedIs, SendKeeps
  <2> QED
    BY <2>1, <2>2
<1> QED
  BY <1>6, <1>7, <1>8, <1>9, <1>10 DEF WriteCallback

\* The number that a socket is given was free.
LEMMA FreeFdFree ==
  ASSUME NEW S \in [Fd -> Sockets], NEW x \in Fd, ~S[x].open
  PROVE  FreeFd(S) \in Fd /\ ~S[FreeFd(S)].open
<1> DEFINE free == {f \in DOMAIN S : ~S[f].open}
<1>1. DOMAIN S = Fd
  OBVIOUS
<1>2. free \subseteq Nat /\ free # {}
  BY <1>1 DEF Fd
<1>3. Min(free) \in free
  BY <1>2, Smallest
<1> QED
  BY <1>1, <1>3 DEF FreeFd

\* A socket as it is made.
LEMMA SocketMade ==
  ASSUME NEW S \in [Fd -> Sockets], NEW f \in Fd, NEW kind \in {"stream", "datagram"},
         NEW state \in {"connected", "progress"}
  PROVE  /\ Socket(S, f, kind, state) \in [Fd -> Sockets]
         /\ \A x \in Fd \ {f} : Socket(S, f, kind, state)[x] = S[x]
         /\ Socket(S, f, kind, state)[f].open /\ Socket(S, f, kind, state)[f].kind = kind
         /\ Socket(S, f, kind, state)[f].state = state
         /\ Socket(S, f, kind, state)[f].wire = <<>> /\ Socket(S, f, kind, state)[f].inbox = <<>>
<1> DEFINE s == [ClosedFd EXCEPT !.open = TRUE, !.kind = kind, !.state = state]
<1>1. /\ s \in Sockets /\ s.open /\ s.kind = kind /\ s.state = state /\ s.wire = <<>> /\ s.inbox = <<>>
  <2>1. ClosedFd \in Sockets /\ ClosedFd.wire = <<>> /\ ClosedFd.inbox = <<>>
    BY DEF ClosedFd, Sockets
  <2> QED
    BY <2>1 DEF Sockets
<1>2. Socket(S, f, kind, state) = [S EXCEPT ![f] = s]
  BY DEF Socket
<1> HIDE DEF s
<1> QED
  BY <1>1, <1>2

\* The load is known: its socket is closed, and a connection is made.
LEMMA ConnectKeeps ==
  ASSUME EventInv, turn.pc = "visit", NEW e, e = queue[turn.i], VisitedTo(turn.i),
         Connect(RemoveAt(queue, turn.i), e.h, [sock EXCEPT ![e.fd] = ClosedFd])
  PROVE  EventInv'
<1> DEFINE Q == RemoveAt(queue, turn.i)
           S == [sock EXCEPT ![e.fd] = ClosedFd]
           f == FreeFd(S)
<1>1. /\ e.fd \in Fd /\ sock \in [Fd -> Sockets]
      /\ e.h \in InProgress /\ e.h \in Peer /\ req[e.h].fd = e.fd
  BY VisitedEvent
<1>2. ClosedFd \in Sockets /\ ~ClosedFd.open
  BY DEF ClosedFd, Sockets
<1>3. S \in [Fd -> Sockets] /\ ~S[e.fd].open /\ \A x \in Fd \ {e.fd} : S[x] = sock[x]
  BY <1>1, <1>2
<1>4. Connect(Q, e.h, S)
  OBVIOUS
<1> HIDE DEF Q, S
<1>5. f \in Fd /\ ~S[f].open
  BY <1>1, <1>3, FreeFdFree
<1>6. IF e.h \in LocalPeers
      THEN StartAuth(Q, e.h, f, Sent(Socket(S, f, "stream", "connected"), f, <<"methods">>))
      ELSE GoesOn(Q, e.h, "connect_start_auth", f, NoTimeout, Socket(S, f, "stream", "progress"))
  BY <1>4 DEF Connect
<1> HIDE DEF f
<1>7. f = e.fd \/ ~sock[f].open
  BY <1>3, <1>5
<1>8. ASSUME NEW U \in [Fd -> Sockets], \A x \in Fd \ {f} : U[x] = S[x] PROVE Elsewhere(U, e.h, f)
  BY <1>1, <1>3, <1>8 DEF Elsewhere
<1>9. CASE e.h \in LocalPeers
  <2> DEFINE T == Socket(S, f, "stream", "connected")
             U == Sent(T, f, <<"methods">>)
  <2>1. /\ T \in [Fd -> Sockets] /\ \A x \in Fd \ {f} : T[x] = S[x]
        /\ T[f].open /\ T[f].kind = "stream" /\ T[f].state = "connected"
        /\ T[f].wire = <<>> /\ T[f].inbox = <<>>
    BY <1>3, <1>5, SocketMade
  <2>2. StartAuth(Q, e.h, f, U)
    BY <1>6, <1>9
  <2> HIDE DEF T
  <2>3. <<"methods">> \in Seq(Answers) /\ <<>> \o <<"methods">> = <<"methods">>
    BY DEF Answers
  <2>4. [T[f] EXCEPT !.wire = <<"methods">>] \in Sockets
    BY <1>5, <2>1, <2>3 DEF Sockets
  <2>5. U = [T EXCEPT ![f] = [T[f] EXCEPT !.wire = <<"methods">>]]
    BY <1>5, <2>1, <2>3 DEF Sent
  <2> HIDE DEF U
  <2>6. /\ U \in [Fd -> Sockets] /\ U[f] = [T[f] EXCEPT !.wire = <<"methods">>]
        /\ \A x \in Fd \ {f} : U[x] = S[x]
    BY <1>5, <2>1, <2>4, <2>5
  <2>7. /\ U[f].open /\ U[f].kind = "stream" /\ U[f].state = "connected"
        /\ U[f].wire = <<"methods">> /\ U[f].inbox = <<>>
    BY <1>5, <2>1, <2>6 DEF Sockets
  <2>8. ~Broken(U[f])
    BY <2>7 DEF Broken
  <2>9. Follows(U[f].inbox \o U[f].wire, Expected["receive_methods"])
    <3>1. U[f].inbox \o U[f].wire = <<"methods">>
      BY <2>3, <2>7
    <3> QED
      BY <3>1, ExpectedIs DEF Follows
  <2>10. Serves(U[f], "receive_methods", req[e.h].excused)
    BY <2>7, <2>8, <2>9 DEF Serves
  <2>11. Elsewhere(U, e.h, f)
    BY <1>8, <2>6
  <2> QED
    BY <1>5, <1>7, <2>2, <2>10, <2>11, StartAuthKeeps DEF Q
<1>10. CASE e.h \notin LocalPeers
  <2> DEFINE T == Socket(S, f, "stream", "progress")
  <2>1. /\ T \in [Fd -> Sockets] /\ \A x \in Fd \ {f} : T[x] = S[x]
        /\ T[f].open /\ T[f].kind = "stream" /\ T[f].state = "progress"
        /\ T[f].wire = <<>> /\ T[f].inbox = <<>>
    BY <1>3, <1>5, SocketMade
  <2>2. GoesOn(Q, e.h, "connect_start_auth", f, NoTimeout, T)
    BY <1>6, <1>10
  <2> HIDE DEF T
  <2>3. ~Broken(T[f])
    BY <2>1 DEF Broken
  <2>4. Follows(T[f].inbox \o T[f].wire, Expected["connect_start_auth"])
    <3>1. T[f].inbox \o T[f].wire = <<>>
      BY <2>1
    <3> QED
      BY <3>1 DEF Follows
  <2>5. Serves(T[f], "connect_start_auth", req[e.h].excused)
    BY <2>1, <2>3, <2>4 DEF Serves
  <2>6. Elsewhere(T, e.h, f)
    BY <1>8, <2>1
  <2>7. "connect_start_auth" \in Callbacks
    BY DEF Callbacks, Writes
  <2> QED
    BY <1>5, <1>7, <2>2, <2>5, <2>6, <2>7, VisitGoesOn DEF Q
<1> QED
  BY <1>9, <1>10

\* A message is taken from the socket of the event.
LEMMA ReceiveKeeps ==
  ASSUME EventInv, turn.pc = "visit", NEW e, e = queue[turn.i], VisitedTo(turn.i),
         ReadReady(e.fd), ~Failing(e.fd), e.callback \notin LoadPart,
         NEW next \in Callbacks \ LoadPart, Expected[next] = Tail(Expected[e.callback])
  PROVE  /\ Received(sock, e.fd) \in [Fd -> Sockets]
         /\ Serves(Received(sock, e.fd)[e.fd], next, req[e.h].excused)
         /\ Elsewhere(Received(sock, e.fd), e.h, e.fd)
<1>1. /\ e.fd \in Fd /\ sock \in [Fd -> Sockets] /\ sock[e.fd] \in Sockets
      /\ e.callback \in Callbacks /\ e.h \in InProgress /\ req[e.h].fd = e.fd
      /\ Serves(sock[e.fd], e.callback, req[e.h].excused)
  BY VisitedEvent
<1>2. sock[e.fd].inbox # <<>> /\ Head(sock[e.fd].inbox) # "error"
  BY DEF ReadReady, Failing
<1> DEFINE S == Received(sock, e.fd)
           s == [sock[e.fd] EXCEPT !.inbox = Tail(@)]
<1>3. s \in Sockets /\ Serves(s, next, req[e.h].excused)
  BY <1>1, <1>2, ReadServes
<1>4. S = [sock EXCEPT ![e.fd] = s]
  BY <1>1 DEF Received
<1> HIDE DEF S, s
<1>5. S \in [Fd -> Sockets] /\ S[e.fd] = s /\ \A x \in Fd \ {e.fd} : S[x] = sock[x]
  BY <1>1, <1>3, <1>4
<1>6. Elsewhere(S, e.h, e.fd)
  BY <1>1, <1>5 DEF Elsewhere
<1>7. S \in [Fd -> Sockets] /\ Serves(S[e.fd], next, req[e.h].excused) /\ Elsewhere(S, e.h, e.fd)
  BY <1>3, <1>5, <1>6
<1> QED
  BY <1>7 DEF S

LEMMA TailIs ==
  /\ Tail(<<"methods">>) = <<>> /\ Tail(<<"method">>) = <<>> /\ Tail(<<"keytype", "challenge">>) = <<"challenge">>
  /\ Tail(<<"challenge">>) = <<>> /\ Tail(<<"result">>) = <<>> /\ Tail(<<"statfs">>) = <<>>
OBVIOUS

\* What is read lets the request go on.
LEMMA ReadGoesOn ==
  ASSUME EventInv, turn.pc = "visit", NEW e, e = queue[turn.i], VisitedTo(turn.i),
         ReadReady(e.fd), ~Failing(e.fd), e.callback \notin LoadPart,
         NEW next \in Callbacks \ LoadPart, Expected[next] = Tail(Expected[e.callback]),
         NEW timeout \in (Nat \ {0}) \cup {NoTimeout}, next \in Writes => timeout = NoTimeout,
         GoesOn(RemoveAt(queue, turn.i), e.h, next, e.fd, timeout, Received(sock, e.fd))
  PROVE  EventInv'
<1>1. e.fd \in Fd
  BY VisitedEvent
<1>2. Serves(Received(sock, e.fd)[e.fd], next, req[e.h].excused) /\ Elsewhere(Received(sock, e.fd), e.h, e.fd)
  BY ReceiveKeeps
<1> QED
  BY <1>1, <1>2, VisitGoesOn

\* The answer to the challenge is sent at once.
LEMMA ChallengeKeeps ==
  ASSUME EventInv, turn.pc = "visit", NEW e, e = queue[turn.i], VisitedTo(turn.i),
         ReadReady(e.fd), ~Failing(e.fd), e.callback = "receive_challenge",
         GoesOn(RemoveAt(queue, turn.i), e.h, "receive_result", e.fd, AuthTimeout,
                Sent(Received(sock, e.fd), e.fd, <<"result">>))
  PROVE  EventInv'
<1> DEFINE S == Received(sock, e.fd)
           U == Sent(S, e.fd, <<"result">>)
           s == [S[e.fd] EXCEPT !.wire = @ \o <<"result">>]
<1>1. e.fd \in Fd /\ e.h \in InProgress /\ req[e.h].fd = e.fd
  BY VisitedEvent
<1>2. /\ "statfs_send" \in Callbacks \ LoadPart /\ "receive_result" \in Callbacks \ LoadPart
      /\ e.callback \notin LoadPart /\ "receive_result" \notin Writes
  BY DEF Callbacks, Writes, Reads, LoadPart
<1>3. Expected["statfs_send"] = Tail(Expected[e.callback])
  BY ExpectedIs, TailIs
<1>4. S \in [Fd -> Sockets] /\ Serves(S[e.fd], "statfs_send", req[e.h].excused) /\ Elsewhere(S, e.h, e.fd)
  BY <1>2, <1>3, ReceiveKeeps
<1>5. GoesOn(RemoveAt(queue, turn.i), e.h, "receive_result", e.fd, AuthTimeout, U)
  OBVIOUS
<1> HIDE DEF S
<1>6. <<"result">> \in Seq(Answers)
  BY DEF Answers
<1>7. s \in Sockets /\ Serves(s, "receive_result", req[e.h].excused)
  <2>1. S[e.fd] \in Sockets
    BY <1>1, <1>4
  <2>2. IF "statfs_send" \in LoadPart THEN "receive_result" \in LoadPart
        ELSE "receive_result" \notin LoadPart /\ Expected["statfs_send"] = <<>> /\ Expected["receive_result"] = <<"result">>
    BY <1>2, ExpectedIs
  <2> QED
    BY <1>2, <1>4, <1>6, <2>1, <2>2, SentServes
<1>8. U = [S EXCEPT ![e.fd] = s]
  BY <1>1, <1>4 DEF Sent
<1> HIDE DEF U, s
<1>9. U \in [Fd -> Sockets] /\ U[e.fd] = s /\ \A x \in Fd \ {e.fd} : U[x] = S[x]
  BY <1>1, <1>4, <1>7, <1>8
<1>10. Elsewhere(U, e.h, e.fd)
  BY <1>1, <1>4, <1>9 DEF Elsewhere
<1>11. AuthTimeout \in (Nat \ {0}) \cup {NoTimeout}
  BY EventAssumption
<1> QED
  BY <1>1, <1>2, <1>5, <1>7, <1>9, <1>10, <1>11, VisitGoesOn

\* The disk space is known: the connection is left in the cache.
LEMMA StatfsKeeps ==
  ASSUME EventInv, turn.pc = "visit", NEW e, e = queue[turn.i], VisitedTo(turn.i),
         ReadReady(e.fd), ~Failing(e.fd), e.callback = "statfs_receive",
         Ends(RemoveAt(queue, turn.i), e.h, "ok", Received(sock, e.fd))
  PROVE  EventInv'
<1>1. e.fd \in Fd
  BY VisitedEvent
<1>2. "statfs_send" \in Callbacks \ LoadPart /\ e.callback \notin LoadPart
  BY DEF Callbacks, Writes, Reads, LoadPart
<1>3. Expected["statfs_send"] = Tail(Expected[e.callback])
  BY ExpectedIs, TailIs
<1>4. /\ Serves(Received(sock, e.fd)[e.fd], "statfs_send", req[e.h].excused)
      /\ Elsewhere(Received(sock, e.fd), e.h, e.fd)
  BY <1>2, <1>3, ReceiveKeeps
<1>5. Clean(Received(sock, e.fd)[e.fd])
  BY <1>2, <1>4, ExpectedIs DEF Serves, Clean
<1> QED
  BY <1>1, <1>4, <1>5, VisitEnds

LEMMA ReadKeeps ==
  ASSUME EventInv, turn.pc = "visit", NEW e, e = queue[turn.i], VisitedTo(turn.i),
         ReadReady(e.fd), ReadCallback(RemoveAt(queue, turn.i), e)
  PROVE  EventInv'
<1>0. sock[e.fd] \in Sockets /\ Serves(sock[e.fd], e.callback, req[e.h].excused)
  BY VisitedEvent
<1> DEFINE Q == RemoveAt(queue, turn.i)
           S == Received(sock, e.fd)
<1>1. CASE Failing(e.fd)
  <2>2. req[e.h].excused
    BY <1>0, <1>1, FailingExcused
  <2>3. Drops(Q, e.h)
    BY <1>1 DEF ReadCallback
  <2> QED
    BY <2>2, <2>3, VisitDrops
<1>2. CASE ~Failing(e.fd)
  <2>1. \/ e.callback = "get_load_receive" /\ Connect(Q, e.h, [sock EXCEPT ![e.fd] = ClosedFd])
        \/ e.callback = "receive_methods" /\ GoesOn(Q, e.h, "ask_method", e.fd, NoTimeout, S)
        \/ e.callback = "dispatch_method" /\ GoesOn(Q, e.h, "send_keytype", e.fd, NoTimeout, S)
        \/ e.callback = "receive_keytype" /\ GoesOn(Q, e.h, "receive_challenge", e.fd, AuthTimeout, S)
        \/ e.callback = "receive_challenge" /\
             GoesOn(Q, e.h, "receive_result", e.fd, AuthTimeout, Sent(S, e.fd, <<"result">>))
        \/ e.callback = "receive_result" /\ GoesOn(Q, e.h, "statfs_send", e.fd, NoTimeout, S)
        \/ e.callback = "statfs_receive" /\ Ends(Q, e.h, "ok", S)
    BY <1>2 DEF ReadCallback
  <2>2. AuthTimeout \in (Nat \ {0}) \cup {NoTimeout} /\ NoTimeout \in (Nat \ {0}) \cup {NoTimeout}
    BY EventAssumption
  <2>3. /\ "ask_method" \in Callbacks \ LoadPart /\ "send_keytype" \in Callbacks \ LoadPart
        /\ "receive_challenge" \in Callbacks \ LoadPart /\ "receive_challenge" \notin Writes
        /\ "statfs_send" \in Callbacks \ LoadPart
    BY DEF Callbacks, Writes, Reads, LoadPart
  <2>4. ASSUME e.callback \in {"receive_methods", "dispatch_method", "receive_keytype", "receive_result"}
        PROVE  e.callback \notin LoadPart
    BY <2>4 DEF LoadPart
  <2>5. CASE e.callback = "get_load_receive" /\ Connect(Q, e.h, [sock EXCEPT ![e.fd] = ClosedFd])
    BY <2>5, ConnectKeeps
  <2>6. CASE e.callback = "receive_methods" /\ GoesOn(Q, e.h, "ask_method", e.fd, NoTimeout, S)
    <3>1. Expected["ask_method"] = Tail(Expected[e.callback])
      BY <2>6, ExpectedIs, TailIs
    <3> QED
      BY <1>2, <2>2, <2>3, <2>4, <2>6, <3>1, ReadGoesOn
  <2>7. CASE e.callback = "dispatch_method" /\ GoesOn(Q, e.h, "send_keytype", e.fd, NoTimeout, S)
    <3>1. Expected["send_keytype"] = Tail(Expected[e.callback])
      BY <2>7, ExpectedIs, TailIs
    <3> QED
      BY <1>2, <2>2, <2>3, <2>4, <2>7, <3>1, ReadGoesOn
  <2>8. CASE e.callback = "receive_keytype" /\ GoesOn(Q, e.h, "receive_challenge", e.fd, AuthTimeout, S)
    <3>1. Expected["receive_challenge"] = Tail(Expected[e.callback])
      BY <2>8, ExpectedIs, TailIs
    <3> QED
      BY <1>2, <2>2, <2>3, <2>4, <2>8, <3>1, ReadGoesOn
  <2>9. CASE e.callback = "receive_challenge" /\
               GoesOn(Q, e.h, "receive_result", e.fd, AuthTimeout, Sent(S, e.fd, <<"result">>))
    BY <1>2, <2>9, ChallengeKeeps
  <2>10. CASE e.callback = "receive_result" /\ GoesOn(Q, e.h, "statfs_send", e.fd, NoTimeout, S)
    <3>1. Expected["statfs_send"] = Tail(Expected[e.callback])
      BY <2>10, ExpectedIs, TailIs
    <3> QED
      BY <1>2, <2>2, <2>3, <2>4, <2>10, <3>1, ReadGoesOn
  <2>11. CASE e.callback = "statfs_receive" /\ Ends(Q, e.h, "ok", S)
    BY <1>2, <2>11, StatfsKeeps
  <2> QED
    BY <2>1, <2>5, <2>6, <2>7, <2>8, <2>9, <2>10, <2>11
<1> QED
  BY <1>1, <1>2

\* The time of an event is over, and its descriptor is not ready.
LEMMA TimeoutKeeps ==
  ASSUME EventInv, turn.pc = "visit", NEW e, e = queue[turn.i], VisitedTo(turn.i),
         ~IsReady(e), e.due, TimeoutCallback(RemoveAt(queue, turn.i), e)
  PROVE  EventInv'
<1> DEFINE Q == RemoveAt(queue, turn.i)
<1>1. /\ e.fd \in Fd /\ sock \in [Fd -> Sockets] /\ sock[e.fd] \in Sockets
      /\ e.callback \in Callbacks /\ e.h \in InProgress /\ e.h \in Peer
      /\ req[e.h] \in Requests /\ req[e.h].at = e.callback /\ req[e.h].fd = e.fd
      /\ req[e.h].first = "none"
      /\ Serves(sock[e.fd], e.callback, req[e.h].excused)
      /\ Taken(Q, e.h) /\ turn.i \in 1 .. Len(queue)
  BY VisitedEvent
<1>2. e.callback \notin Writes /\ (LastTry(e) => req[e.h].excused \/ e.fd \in turn.rset)
  BY <1>1 DEF EventInv, Timed
<1>3. LastTry(e) => req[e.h].excused
  BY <1>2 DEF IsReady
<1>4. CASE e.callback = "statfs_receive"
  <2> DEFINE S == [sock EXCEPT ![req[e.h].fd].late = TRUE]
             s == [sock[e.fd] EXCEPT !.late = TRUE]
  <2>1. Ends(Q, e.h, "failed", S)
    BY <1>4 DEF TimeoutCallback, Keeps
  <2>2. S = [sock EXCEPT ![e.fd] = s]
    BY <1>1
  <2>3. s \in Sockets /\ s.kind = sock[e.fd].kind /\ s.state = sock[e.fd].state /\ s.late
    BY <1>1 DEF Sockets
  <2> HIDE DEF S, s
  <2>4. S \in [Fd -> Sockets] /\ S[e.fd] = s /\ \A x \in Fd \ {e.fd} : S[x] = sock[x]
    BY <1>1, <2>2, <2>3
  <2>5. Elsewhere(S, e.h, e.fd)
    BY <1>1, <2>4 DEF Elsewhere
  <2>6. Clean(S[e.fd])
    BY <1>1, <1>4, <2>3, <2>4 DEF Clean, Serves, LoadPart
  <2>7. req[e.h].excused
    BY <1>3, <1>4 DEF LastTry
  <2> QED
    BY <1>1, <2>1, <2>5, <2>6, <2>7, VisitEnds
<1>5. CASE e.callback \notin {"get_load_receive", "statfs_receive"}
  <2>1. Drops(Q, e.h)
    BY <1>5 DEF TimeoutCallback
  <2>2. req[e.h].excused
    BY <1>3, <1>5 DEF LastTry
  <2> QED
    BY <2>1, <2>2, VisitDrops
<1>6. CASE e.callback = "get_load_receive" /\ req[e.h].try = Len(LoadTimeouts)
  <2>1. Drops(Q, e.h)
    BY <1>6 DEF TimeoutCallback
  <2>2. req[e.h].excused
    BY <1>3, <1>6 DEF LastTry
  <2> QED
    BY <2>1, <2>2, VisitDrops
<1>7. CASE e.callback = "get_load_receive" /\ req[e.h].try # Len(LoadTimeouts)
  <2> DEFINE d == Event(e.h, "get_load_send", e.fd, NoTimeout)
             r == [req[e.h] EXCEPT !.at = "get_load_send", !.try = req[e.h].try + 1]
  <2>1. queue' = Append(Q, d) /\ sock' = sock
    BY <1>7 DEF TimeoutCallback, Added
  <2>2. req \in [Peer -> Requests] /\ queue \in Seq(Events) /\ Len(queue) \in Nat
    BY DEF EventInv, EventTypeOK
  <2>3. req' = [req EXCEPT ![e.h] = r]
    BY <1>1, <1>7, <2>2 DEF TimeoutCallback
  <2>4. req[e.h].try + 1 \in 1 .. Len(LoadTimeouts)
    <3>1. req[e.h].try \in 1 .. Len(LoadTimeouts)
      BY <1>1 DEF Requests
    <3>2. LoadTimeouts \in Seq(Nat \ {0})
      BY EventAssumption
    <3>3. Len(LoadTimeouts) \in Nat
      BY <3>2
    <3> QED
      BY <1>7, <3>1, <3>3
  <2>5. "get_load_send" \in Callbacks /\ "get_load_send" \in Writes
    BY DEF Callbacks, Writes
  <2>6. /\ r \in Requests /\ r.at = "get_load_send" /\ r.fd = e.fd /\ r.first = "none"
        /\ r.excused = req[e.h].excused
    BY <1>1, <2>4, <2>5 DEF Requests
  <2>7. /\ d \in Events /\ ~d.due /\ d.left # 0 /\ d.h = e.h /\ d.callback = "get_load_send"
        /\ d.fd = e.fd /\ d.left = NoTimeout
    BY <1>1, <2>5 DEF Event, Events, NoTimeout
  <2>8. NewEvent(d)
    BY <2>7 DEF NewEvent
  <2> HIDE DEF d, r, Q
  <2>9. Elsewhere(sock, e.h, e.fd)
    BY <1>1 DEF Elsewhere
  <2>10. Serves(sock[r.fd], r.at, r.excused)
    <3>1. Serves(sock[e.fd], "get_load_send", req[e.h].excused)
      BY <1>1, <1>7 DEF Serves, LoadPart
    <3> QED
      BY <2>6, <3>1
  <2>11. Len(queue') \in Nat /\ Len(queue') >= Len(queue) - 1
    <3>1. Q \in Seq(Events)
      BY <1>1 DEF Taken
    <3>2. Len(Append(Q, d)) = Len(Q) + 1
      BY <2>7, <3>1, AppendProperties
    <3>3. Len(Q) = Len(queue) - 1
      BY <1>1, <2>2, Removed DEF Q
    <3> QED
      BY <1>1, <2>1, <2>2, <3>2, <3>3
  <2>12. Turning /\ Visiting'
    BY <2>11, VisitedKeeps
  <2>13. Elsewhere(sock, e.h, r.fd) /\ r.fd \in Fd /\ r.fd = req[e.h].fd /\ r.at \in Callbacks
    BY <1>1, <2>5, <2>6, <2>9
  <2>14. d.callback = r.at /\ d.fd = r.fd
    BY <2>6, <2>7
  <2> QED
    BY <1>1, <2>1, <2>3, <2>6, <2>7, <2>8, <2>10, <2>12, <2>13, <2>14, GoesOnKeeps
<1> QED
  BY <1>4, <1>5, <1>6, <1>7

\* A turn that goes on while nothing else changes.
LEMMA PassedKeeps ==
  ASSUME EventInv, queue' = queue, req' = req, sock' = sock, Turning, Visiting'
  PROVE  EventInv'
<1>1. EventTypeOK'
  BY DEF EventInv, EventTypeOK, Turning
<1>2. InProgress' = InProgress
  BY DEF InProgress
<1>3. Matched' /\ Owned'
  BY <1>2 DEF EventInv, Matched, Owned
<1>4. Timed'
  BY DEF EventInv, Timed, Turning, LastTry, ReadReady
<1>5. Served' /\ LeftClean' /\ FirstRight' /\ FailsForReason'
  BY <1>2 DEF EventInv, Served, LeftClean, FirstRight, FailsForReason
<1> QED
  BY <1>1, <1>3, <1>4, <1>5 DEF EventInv

LEMMA VisitStep == EventInv /\ Visit => EventInv'
<1> SUFFICES ASSUME EventInv, Visit PROVE EventInv'
  OBVIOUS
<1> DEFINE e == queue[turn.i]
           Q == RemoveAt(queue, turn.i)
<1>1. turn.pc = "visit" /\ e = queue[turn.i]
  BY DEF Visit
<1>2. \/ VisitedTo(turn.i) /\ WriteCallback(Q, e)
      \/ ReadReady(e.fd) /\ VisitedTo(turn.i) /\ ReadCallback(Q, e)
      \/ ~IsReady(e) /\ e.due /\ VisitedTo(turn.i) /\ TimeoutCallback(Q, e)
      \/ VisitedTo(turn.i + 1) /\ UNCHANGED <<queue, req, sock>>
  BY DEF Visit
<1>3. CASE VisitedTo(turn.i + 1) /\ UNCHANGED <<queue, req, sock>>
  <2>1. turn.i \in 1 .. Len(queue) /\ turn \in Turns /\ Len(queue) \in Nat
    BY <1>1 DEF EventInv, Visiting, EventTypeOK
  <2>2. CASE turn.i + 1 \in 1 .. Len(queue) /\ turn' = [turn EXCEPT !.i = turn.i + 1]
    <3>1. turn' \in Turns /\ turn'.i = turn.i + 1 /\ turn'.rset = turn.rset
      BY <2>1, <2>2 DEF Turns
    <3>2. Turning /\ Visiting'
      BY <1>1, <1>3, <2>2, <3>1 DEF Turning, Visiting
    <3> QED
      BY <1>3, <3>2, PassedKeeps
  <2>3. CASE turn' = [turn EXCEPT !.pc = "idle", !.i = 0, !.rset = {}, !.wset = {}]
    <3>1. turn' \in Turns /\ turn'.pc = "idle"
      BY <2>1, <2>3 DEF Turns
    <3>2. Turning /\ Visiting'
      BY <3>1 DEF Turning, Visiting
    <3> QED
      BY <1>3, <3>2, PassedKeeps
  <2>4. turn.i = Len(queue) \/ turn.i + 1 \in 1 .. Len(queue)
    BY <2>1
  <2> QED
    BY <1>3, <2>1, <2>2, <2>3, <2>4 DEF VisitedTo
<1> HIDE DEF e
<1>4. CASE VisitedTo(turn.i) /\ WriteCallback(Q, e)
  BY <1>1, <1>4, WriteKeeps
<1>5. CASE ReadReady(e.fd) /\ VisitedTo(turn.i) /\ ReadCallback(Q, e)
  BY <1>1, <1>5, ReadKeeps
<1>6. CASE ~IsReady(e) /\ e.due /\ VisitedTo(turn.i) /\ TimeoutCallback(Q, e)
  BY <1>1, <1>6, TimeoutKeeps
<1> QED
  BY <1>2, <1>3, <1>4, <1>5, <1>6

(***************************************************************************)
(* The program between turns                                               *)
(***************************************************************************)
\* There is a descriptor for each host.
LEMMA DescriptorLeft ==
  ASSUME EventInv, NEW h \in Peer, req[h].at = "none"
  PROVE  \E x \in Fd : ~sock[x].open
<1> SUFFICES ASSUME \A x \in Fd : sock[x].open PROVE FALSE
  OBVIOUS
<1> DEFINE Others == Peer \ {h}
           f == [g \in Others |-> IF req[g].fd \in Fd THEN req[g].fd ELSE 1]
<1>1. Len(Peers) \in Nat \ {0}
  <2>1. Peers \in Seq(Peer)
    BY EventAssumption
  <2>2. \E i \in 1 .. Len(Peers) : Peers[i] = h
    BY <2>1 DEF Peer, Range
  <2> QED
    BY <2>1, <2>2
<1>2. f \in [Others -> Fd]
  <2>1. 1 \in Fd
    BY <1>1 DEF Fd
  <2> QED
    BY <2>1
<1>3. ASSUME NEW x \in Fd PROVE \E g \in Others : f[g] = x
  <2>1. PICK g \in Peer : req[g].at # "none" /\ req[g].fd = x
    BY DEF EventInv, Owned
  <2>2. g \in Others /\ f[g] = x
    BY <2>1
  <2> QED
    BY <2>2
<1>4. f \in Surjection(Others, Fd)
  BY <1>2, <1>3 DEF Surjection
<1>5. /\ IsFiniteSet(Others) /\ Cardinality(Others) = Cardinality(Peer) - 1
      /\ Cardinality(Peer) \in Nat /\ Cardinality(Peer) <= Len(Peers)
  BY PeersFinite, FS_RemoveElement, FS_CardinalityType
<1>6. Cardinality(Fd) = Len(Peers)
  <2>1. 1 \in Int /\ Len(Peers) \in Int /\ ~(1 > Len(Peers)) /\ (Len(Peers) - 1) + 1 = Len(Peers)
    BY <1>1
  <2>2. Cardinality(1 .. Len(Peers)) = (Len(Peers) - 1) + 1
    BY ONLY <2>1, FS_Interval
  <2> QED
    BY <2>1, <2>2 DEF Fd
<1> HIDE DEF Others, f
<1>7. Cardinality(Fd) <= Cardinality(Others)
  BY <1>4, <1>5, FS_Surjection
<1> QED
  BY <1>1, <1>5, <1>6, <1>7

LEMMA GetLoadRequestStep ==
  ASSUME EventInv, NEW h \in Peer, GetLoadRequest(h)
  PROVE  EventInv'
<1> DEFINE f == FreeFd(sock)
           d == Event(h, "get_load_send", f, NoTimeout)
           r == [req[h] EXCEPT !.at = "get_load_send", !.fd = f]
           S == Socket(sock, f, "datagram", "connected")
<1>1. /\ queue \in Seq(Events) /\ turn \in Turns /\ req \in [Peer -> Requests]
      /\ sock \in [Fd -> Sockets] /\ req[h] \in Requests
  BY DEF EventInv, EventTypeOK
<1>2. turn.pc = "idle" /\ turn' = turn /\ req[h].at = "none"
  BY DEF GetLoadRequest
<1>3. f \in Fd /\ ~sock[f].open
  <2>1. PICK x \in Fd : ~sock[x].open
    BY <1>2, DescriptorLeft
  <2> QED
    BY <1>1, <2>1, FreeFdFree
<1>4. queue' = Append(queue, d) /\ sock' = S
  BY DEF GetLoadRequest, GoesOn, Added
<1>5. req' = [req EXCEPT ![h] = r]
  BY <1>1 DEF GetLoadRequest, GoesOn
<1>6. "get_load_send" \in Callbacks /\ "get_load_send" \in Writes /\ "get_load_send" \in LoadPart
  BY DEF Callbacks, Writes, LoadPart
<1> HIDE DEF f
<1>7. /\ d \in Events /\ ~d.due /\ d.left # 0 /\ d.h = h /\ d.callback = "get_load_send"
      /\ d.fd = f /\ d.left = NoTimeout
  BY <1>3, <1>6 DEF Event, Events, NoTimeout
<1>8. NewEvent(d)
  BY <1>7 DEF NewEvent
<1>9. req[h].first = "none"
  BY <1>2 DEF EventInv, FirstRight
<1>10. /\ r \in Requests /\ r.at = "get_load_send" /\ r.fd = f /\ r.first = "none"
       /\ r.excused = req[h].excused
  <2>1. f \in 0 .. Len(Peers)
    BY <1>3 DEF Fd
  <2> QED
    BY <1>1, <1>6, <1>9, <2>1 DEF Requests
<1>11. /\ S \in [Fd -> Sockets] /\ \A x \in Fd \ {f} : S[x] = sock[x]
       /\ S[f].open /\ S[f].state = "connected" /\ S[f].inbox = <<>>
  BY <1>1, <1>3, SocketMade
<1> HIDE DEF d, r, S
<1>12. h \notin InProgress
  BY <1>2 DEF InProgress
<1>13. Elsewhere(S, h, f)
  BY <1>11, <1>12 DEF Elsewhere
<1>14. Serves(S[f], "get_load_send", r.excused)
  BY <1>6, <1>11 DEF Serves, Broken
<1>15. Taken(queue, h)
  <2>1. ASSUME NEW j \in 1 .. Len(queue) PROVE queue[j].h # h
    <3>1. queue[j].callback \in Callbacks
      <4>1. queue[j] \in Events
        BY <1>1
      <4> QED
        BY <4>1 DEF Events
    <3>2. req[queue[j].h].at = queue[j].callback
      BY DEF EventInv, Matched
    <3>3. "none" \notin Callbacks
      BY DEF Callbacks, Writes, Reads
    <3> QED
      BY <1>2, <3>1, <3>2, <3>3
  <2>2. \A i, j \in 1 .. Len(queue) : queue[i].h = queue[j].h => i = j
    BY DEF EventInv, Matched
  <2>3. \A g \in InProgress : \E j \in 1 .. Len(queue) : queue[j].h = g
    BY DEF EventInv, Matched
  <2> QED
    BY <1>1, <2>1, <2>2, <2>3 DEF Taken
<1>16. Turning /\ Visiting'
  BY <1>1, <1>2 DEF Turning, Visiting
<1>17. Elsewhere(S, h, r.fd) /\ Serves(S[r.fd], r.at, r.excused) /\ ~sock[r.fd].open /\ r.fd \in Fd /\ r.at \in Callbacks
  BY <1>3, <1>6, <1>10, <1>13, <1>14
<1>18. d.h = h /\ d.callback = r.at /\ d.fd = r.fd
  BY <1>7, <1>10
<1> QED
  BY <1>2, <1>4, <1>5, <1>8, <1>10, <1>15, <1>16, <1>17, <1>18, GoesOnKeeps

LEMMA SelectStep ==
  ASSUME EventInv, Select
  PROVE  EventInv'
<1> DEFINE r == {queue[i].fd : i \in {j \in DOMAIN queue : queue[j].callback \notin Writes}}
           w == {queue[i].fd : i \in {j \in DOMAIN queue : queue[j].callback \in Writes}}
           rset == {f \in r : ReadReady(f)}
           wset == {f \in w : WriteReady(f)}
<1>1. /\ queue \in Seq(Events) /\ turn \in Turns /\ req \in [Peer -> Requests] /\ sock \in [Fd -> Sockets]
  BY DEF EventInv, EventTypeOK
<1>2. /\ turn.pc = "idle" /\ queue # <<>>
      /\ turn' = [turn EXCEPT !.pc = "visit", !.i = 1, !.rset = rset, !.wset = wset]
      /\ queue' = [i \in DOMAIN queue |-> [queue[i] EXCEPT !.due = queue[i].left = 0]]
      /\ req' = req /\ sock' = sock
  BY DEF Select
<1>3. rset \subseteq Fd /\ wset \subseteq Fd
  <2>1. ASSUME NEW i \in DOMAIN queue PROVE queue[i].fd \in Fd
    <3>1. queue[i] \in Events
      BY <1>1
    <3> QED
      BY <3>1 DEF Events
  <2> QED
    BY <2>1
<1>4. \A i \in 1 .. Len(queue) : queue[i].callback \notin Writes /\ ReadReady(queue[i].fd) => queue[i].fd \in rset
  BY <1>1
<1> HIDE DEF rset, wset
<1>5. turn' \in Turns /\ turn'.pc = "visit" /\ turn'.i = 1 /\ turn'.rset = rset
  BY <1>1, <1>2, <1>3 DEF Turns
<1>6. Len(queue) \in Nat /\ DOMAIN queue = 1 .. Len(queue) /\ Len(queue) >= 1
  BY <1>1, <1>2
<1>7. ASSUME NEW i \in 1 .. Len(queue)
      PROVE  /\ queue'[i] \in Events /\ queue'[i].h = queue[i].h /\ queue'[i].callback = queue[i].callback
             /\ queue'[i].fd = queue[i].fd /\ queue'[i].left = queue[i].left
             /\ queue'[i].due => queue[i].left = 0
  <2>1. queue[i] \in Events /\ queue'[i] = [queue[i] EXCEPT !.due = queue[i].left = 0]
    BY <1>1, <1>2, <1>6
  <2>2. (queue[i].left = 0) \in BOOLEAN
    OBVIOUS
  <2> QED
    BY <2>1, <2>2 DEF Events
<1>8. queue' \in Seq(Events) /\ Len(queue') = Len(queue)
  <2>1. queue' \in [1 .. Len(queue) -> Events]
    BY <1>2, <1>6, <1>7
  <2> QED
    BY <1>6, <2>1
<1>9. EventTypeOK'
  BY <1>1, <1>2, <1>5, <1>8 DEF EventTypeOK
<1>10. InProgress' = InProgress
  BY <1>2 DEF InProgress
<1>11. Visiting'
  BY <1>5, <1>6, <1>8 DEF Visiting
<1>12. Matched'
  <2>1. ASSUME NEW i \in 1 .. Len(queue)
        PROVE  req[queue'[i].h].at = queue'[i].callback /\ req[queue'[i].h].fd = queue'[i].fd
    BY <1>7 DEF EventInv, Matched
  <2>2. ASSUME NEW i \in 1 .. Len(queue), NEW j \in 1 .. Len(queue), queue'[i].h = queue'[j].h PROVE i = j
    BY <1>7, <2>2 DEF EventInv, Matched
  <2>3. ASSUME NEW h \in InProgress PROVE \E i \in 1 .. Len(queue) : queue'[i].h = h
    BY <1>7 DEF EventInv, Matched
  <2> QED
    BY <1>2, <1>8, <1>10, <2>1, <2>2, <2>3 DEF Matched
<1>13. Owned'
  BY <1>2, <1>10 DEF EventInv, Owned
<1>14. Timed'
  <2>1. ASSUME NEW i \in 1 .. Len(queue)
        PROVE  /\ queue'[i].callback \in Writes => queue'[i].left = NoTimeout
               /\ queue'[i].left = 0 /\ LastTry(queue[i])' =>
                    req'[queue'[i].h].excused \/ ReadReady(queue[i].fd)'
               /\ turn'.pc = "visit" /\ queue'[i].due =>
                    /\ queue'[i].callback \notin Writes
                    /\ LastTry(queue[i])' => req'[queue'[i].h].excused \/ queue'[i].fd \in turn'.rset
    <3>1. LastTry(queue[i])' <=> LastTry(queue[i])
      BY <1>2, <1>7 DEF LastTry
    <3>2. ReadReady(queue[i].fd)' <=> ReadReady(queue[i].fd)
      BY <1>2, <1>7 DEF ReadReady
    <3>3. /\ queue[i].callback \in Writes => queue[i].left = NoTimeout
          /\ queue[i].left = 0 /\ LastTry(queue[i]) => req[queue[i].h].excused \/ ReadReady(queue[i].fd)
      BY DEF EventInv, Timed
    <3>4. queue[i].left = 0 => queue[i].callback \notin Writes
      BY <3>3 DEF NoTimeout
    <3>5. queue[i].callback \notin Writes /\ ReadReady(queue[i].fd) => queue[i].fd \in turn'.rset
      BY <1>4, <1>5
    <3>6. req' = req
      BY <1>2
    <3> QED
      BY <1>7, <3>1, <3>2, <3>3, <3>4, <3>5, <3>6
  <2> QED
    BY <1>8, <2>1 DEF Timed
<1>15. Served' /\ LeftClean' /\ FirstRight' /\ FailsForReason'
  BY <1>2, <1>10 DEF EventInv, Served, LeftClean, FirstRight, FailsForReason
<1> QED
  BY <1>9, <1>11, <1>12, <1>13, <1>14, <1>15 DEF EventInv

(***************************************************************************)
(* The network and the clock                                               *)
(***************************************************************************)
\* The requests are where they were; a request may be excused.
SameSteps ==
  /\ req' \in [Peer -> Requests]
  /\ \A g \in Peer : /\ req'[g].at = req[g].at /\ req'[g].fd = req[g].fd /\ req'[g].try = req[g].try
                     /\ req[g].excused => req'[g].excused

LEMMA ExcusedServes ==
  ASSUME NEW s, NEW at, NEW x, NEW y, Serves(s, at, x), x => y
  PROVE  Serves(s, at, y)
BY DEF Serves

LEMMA SameInProgress ==
  ASSUME SameSteps
  PROVE  InProgress' = InProgress
BY DEF SameSteps, InProgress

\* The requests and the events are where they were, and the sockets too but for f.
LEMMA OutsideKeeps ==
  ASSUME EventInv, SameSteps, NEW f \in Fd, NEW s \in Sockets, sock' = [sock EXCEPT ![f] = s],
         s.open = sock[f].open, s.late = sock[f].late,
         sock[f].inbox # <<>> => s.inbox # <<>>,
         \A g \in InProgress : req[g].fd = f /\ Serves(sock[f], req[g].at, req[g].excused) =>
                                 Serves(s, req[g].at, req'[g].excused),
         Clean(sock[f]) => Clean(s),
         \A g \in Peer : req'[g].first = req[g].first,
         queue' = queue, turn' \in Turns,
         turn'.pc = turn.pc /\ turn'.i = turn.i /\ turn'.rset = turn.rset
  PROVE  EventInv'
<1>1. /\ queue \in Seq(Events) /\ req \in [Peer -> Requests] /\ sock \in [Fd -> Sockets]
  BY DEF EventInv, EventTypeOK
<1>2. sock' \in [Fd -> Sockets] /\ sock'[f] = s /\ \A x \in Fd \ {f} : sock'[x] = sock[x]
  BY <1>1
<1>3. InProgress' = InProgress
  BY SameInProgress
<1>4. /\ req' \in [Peer -> Requests]
      /\ \A g \in Peer : /\ req'[g].at = req[g].at /\ req'[g].fd = req[g].fd /\ req'[g].try = req[g].try
                         /\ req[g].excused => req'[g].excused
  BY DEF SameSteps
<1>5. EventTypeOK'
  BY <1>1, <1>2, <1>4 DEF EventTypeOK
<1>6. Visiting'
  BY DEF EventInv, Visiting
<1>7. ASSUME NEW i \in 1 .. Len(queue)
      PROVE  queue[i] \in Events /\ queue[i].h \in Peer /\ queue[i].fd \in Fd
  <2>1. queue[i] \in Events
    BY <1>1
  <2> QED
    BY <2>1 DEF Events
<1>8. \A g \in InProgress : g \in Peer /\ req[g].at # "none" /\ req[g].fd \in Fd
  BY DEF InProgress, EventInv, Owned
<1>9. Matched'
  BY <1>3, <1>4, <1>7 DEF EventInv, Matched
<1>10. \A x \in Fd : sock'[x].open = sock[x].open /\ sock'[x].late = sock[x].late
  BY <1>2
<1>11. Owned'
  <2>1. ASSUME NEW g \in Peer, req'[g].at # "none" PROVE req'[g].fd \in Fd
    BY <1>4, <2>1 DEF EventInv, Owned
  <2>2. ASSUME NEW g \in InProgress, NEW h \in InProgress, req'[g].fd = req'[h].fd PROVE g = h
    BY <1>4, <1>8, <2>2 DEF EventInv, Owned
  <2>3. ASSUME NEW x \in Fd, sock'[x].open PROVE \E h \in Peer : req'[h].at # "none" /\ req'[h].fd = x
    <3>1. PICK h \in Peer : req[h].at # "none" /\ req[h].fd = x
      BY <1>10, <2>3 DEF EventInv, Owned
    <3> QED
      BY <1>4, <3>1
  <2>4. Fd' = Fd /\ Peer' = Peer
    BY DEF Fd, Peer
  <2> QED
    BY <1>3, <2>1, <2>2, <2>3, <2>4 DEF Owned
<1>12. Timed'
  <2>1. ASSUME NEW i \in 1 .. Len(queue)
        PROVE  /\ queue'[i].callback \in Writes => queue'[i].left = NoTimeout
               /\ queue'[i].left = 0 /\ LastTry(queue[i])' =>
                    req'[queue'[i].h].excused \/ ReadReady(queue[i].fd)'
               /\ turn'.pc = "visit" /\ queue'[i].due =>
                    /\ queue'[i].callback \notin Writes
                    /\ LastTry(queue[i])' => req'[queue'[i].h].excused \/ queue'[i].fd \in turn'.rset
    <3>1. LastTry(queue[i])' <=> LastTry(queue[i])
      BY <1>4, <1>7 DEF LastTry
    <3>2. ReadReady(queue[i].fd) => ReadReady(queue[i].fd)'
      BY <1>2, <1>7 DEF ReadReady
    <3>3. /\ queue[i].callback \in Writes => queue[i].left = NoTimeout
          /\ queue[i].left = 0 /\ LastTry(queue[i]) => req[queue[i].h].excused \/ ReadReady(queue[i].fd)
          /\ turn.pc = "visit" /\ queue[i].due =>
               /\ queue[i].callback \notin Writes
               /\ LastTry(queue[i]) => req[queue[i].h].excused \/ queue[i].fd \in turn.rset
      BY DEF EventInv, Timed
    <3>4. req[queue[i].h].excused => req'[queue[i].h].excused
      BY <1>4, <1>7
    <3> QED
      BY <3>1, <3>2, <3>3, <3>4
  <2> QED
    BY <2>1 DEF Timed
<1>13. Served'
  <2>1. ASSUME NEW g \in InProgress PROVE Serves(sock'[req[g].fd], req[g].at, req'[g].excused)
    <3>1. Serves(sock[req[g].fd], req[g].at, req[g].excused)
      BY DEF EventInv, Served
    <3>2. CASE req[g].fd = f
      BY <1>2, <3>1, <3>2
    <3>3. CASE req[g].fd # f
      <4>1. sock'[req[g].fd] = sock[req[g].fd] /\ (req[g].excused => req'[g].excused)
        BY <1>2, <1>4, <1>8, <3>3
      <4> QED
        BY <3>1, <4>1, ExcusedServes
    <3> QED
      BY <3>2, <3>3
  <2>2. \A g \in InProgress' : Serves(sock'[req'[g].fd], req'[g].at, req'[g].excused)
    BY <1>3, <1>4, <1>8, <2>1
  <2> QED
    BY <2>2 DEF Served, Serves, Expected, Broken, Follows
<1>14. LeftClean'
  <2>1. ASSUME NEW x \in Fd, sock'[x].open, \A g \in InProgress : req'[g].fd # x PROVE Clean(sock'[x])
    <3>1. Clean(sock[x])
      BY <1>4, <1>8, <1>10, <2>1 DEF EventInv, LeftClean
    <3> QED
      BY <1>2, <3>1
  <2>2. \A x \in Fd : sock'[x].open /\ (\A g \in InProgress' : req'[g].fd # x) => Clean(sock'[x])
    BY <1>3, <2>1
  <2> QED
    BY <2>2 DEF LeftClean, Clean, Follows, Fd
<1>15. FirstRight'
  <2>1. ASSUME NEW g \in Peer
        PROVE  /\ req'[g].first # "none" => req'[g].at \in {"ok", "failed"}
               /\ req'[g].first \notin {"none", "rpc", "error"} =>
                    /\ sock'[req'[g].fd].open /\ sock'[req'[g].fd].late
                    /\ \A x \in InProgress : req'[x].fd # req'[g].fd
    <3>1. req'[g].first = req[g].first /\ req'[g].at = req[g].at /\ req'[g].fd = req[g].fd
      BY <1>4
    <3>2. req[g].first # "none" => req[g].at \in {"ok", "failed"}
      BY DEF EventInv, FirstRight
    <3>3. ASSUME req[g].first \notin {"none", "rpc", "error"}
          PROVE  /\ sock'[req[g].fd].open /\ sock'[req[g].fd].late
                 /\ \A x \in InProgress : req'[x].fd # req[g].fd
      <4>1. /\ sock[req[g].fd].open /\ sock[req[g].fd].late
            /\ \A x \in InProgress : req[x].fd # req[g].fd
        BY <3>3 DEF EventInv, FirstRight
      <4>2. req[g].fd \in Fd
        BY <3>2, <3>3 DEF EventInv, Owned
      <4> QED
        BY <1>4, <1>8, <1>10, <4>1, <4>2
    <3> QED
      BY <3>1, <3>2, <3>3
  <2> QED
    BY <1>3, <2>1 DEF FirstRight
<1>16. FailsForReason'
  BY <1>4 DEF EventInv, FailsForReason
<1> QED
  BY <1>5, <1>6, <1>9, <1>11, <1>12, <1>13, <1>14, <1>15, <1>16 DEF EventInv

\* Nothing has happened to the requests.
LEMMA UnchangedSteps ==
  ASSUME EventInv, req' = req
  PROVE  SameSteps
BY DEF EventInv, EventTypeOK, SameSteps

LEMMA ArriveStep ==
  ASSUME EventInv, NEW f \in Fd, Arrive(f)
  PROVE  EventInv'
<1> DEFINE t == sock[f]
           s == [t EXCEPT !.wire = Tail(t.wire), !.inbox = Append(t.inbox, Head(t.wire))]
<1>1. turn \in Turns /\ req \in [Peer -> Requests] /\ sock \in [Fd -> Sockets] /\ t \in Sockets
  BY DEF EventInv, EventTypeOK
<1>2. t.wire # <<>> /\ queue' = queue /\ turn' = turn /\ req' = req
  BY DEF Arrive
<1>3. sock' = [sock EXCEPT ![f] = s]
  BY <1>1 DEF Arrive
<1>4. t.wire \in Seq(Answers) /\ t.inbox \in Seq(Arrivals)
  BY <1>1 DEF Sockets
<1> HIDE DEF t
<1>5. /\ Append(t.inbox, Head(t.wire)) \in Seq(Arrivals) /\ Tail(t.wire) \in Seq(Answers)
      /\ Append(t.inbox, Head(t.wire)) \o Tail(t.wire) = t.inbox \o t.wire
  BY <1>2, <1>4, ArriveSame
<1>6. /\ s \in Sockets /\ s.open = t.open /\ s.kind = t.kind /\ s.state = t.state /\ s.late = t.late
      /\ s.inbox = Append(t.inbox, Head(t.wire)) /\ s.wire = Tail(t.wire)
  BY <1>1, <1>5 DEF Sockets
<1> HIDE DEF s
<1>7. s.inbox # <<>> /\ s.inbox \o s.wire = t.inbox \o t.wire
  <2>1. Head(t.wire) \in Arrivals
    BY <1>2, <1>4 DEF Arrivals
  <2>2. Append(t.inbox, Head(t.wire)) # <<>>
    BY <1>4, <2>1, AppendProperties
  <2>3. s.inbox \o s.wire = t.inbox \o t.wire
    BY ONLY <1>5, <1>6
  <2> QED
    BY <1>6, <2>2, <2>3
<1>8. Broken(s) => Broken(t)
  <2>1. Head(t.wire) \in Answers /\ Head(t.wire) \in Arrivals
    BY <1>2, <1>4 DEF Arrivals
  <2>2. Head(t.wire) # "error"
    BY <2>1 DEF Answers
  <2>3. /\ Len(s.inbox) = Len(t.inbox) + 1 /\ s.inbox[Len(t.inbox) + 1] = Head(t.wire)
        /\ \A i \in 1 .. Len(t.inbox) : s.inbox[i] = t.inbox[i]
        /\ Len(t.inbox) \in Nat
    BY <1>4, <1>6, <2>1, AppendProperties
  <2>4. ASSUME NEW i \in 1 .. Len(s.inbox), s.inbox[i] = "error"
        PROVE  \E j \in 1 .. Len(t.inbox) : t.inbox[j] = "error"
    <3>1. i \in 1 .. Len(t.inbox)
      BY <2>2, <2>3, <2>4
    <3> QED
      BY <2>3, <2>4, <3>1
  <2> QED
    BY <1>6, <2>4 DEF Broken
<1>9. ASSUME NEW at, NEW x, Serves(t, at, x) PROVE Serves(s, at, x)
  BY <1>2, <1>6, <1>7, <1>8, <1>9 DEF Serves
<1>10. Clean(t) => Clean(s)
  BY <1>6, <1>7 DEF Clean
<1>11. SameSteps
  BY <1>2, UnchangedSteps
<1>12. \A g \in InProgress : req[g].fd = f /\ Serves(sock[f], req[g].at, req[g].excused) =>
                               Serves(s, req[g].at, req'[g].excused)
  BY <1>2, <1>9 DEF t
<1>13. s.open = sock[f].open /\ s.late = sock[f].late /\ (Clean(sock[f]) => Clean(s))
  BY <1>6, <1>10 DEF t
<1> QED
  BY <1>1, <1>2, <1>3, <1>6, <1>7, <1>11, <1>12, <1>13, OutsideKeeps

LEMMA EstablishStep ==
  ASSUME EventInv, NEW f \in Fd, Establish(f)
  PROVE  EventInv'
<1> DEFINE t == sock[f]
           s == [t EXCEPT !.state = "connected", !.wire = <<"methods">>]
<1>1. turn \in Turns /\ sock \in [Fd -> Sockets] /\ t \in Sockets
  BY DEF EventInv, EventTypeOK
<1>2. t.state = "progress" /\ queue' = queue /\ turn' = turn /\ req' = req
  BY DEF Establish
<1>3. sock' = [sock EXCEPT ![f] = s]
  BY <1>1 DEF Establish
<1> HIDE DEF t
<1>4. <<"methods">> \in Seq(Answers)
  BY DEF Answers
<1>5. /\ s \in Sockets /\ s.open = t.open /\ s.kind = t.kind /\ s.state = "connected" /\ s.late = t.late
      /\ s.inbox = t.inbox /\ s.wire = <<"methods">>
  BY <1>1, <1>4 DEF Sockets
<1> HIDE DEF s
<1>6. ASSUME NEW at, NEW x, Serves(t, at, x) PROVE Serves(s, at, x)
  <2>1. t.inbox = <<>> /\ t.wire = <<>> /\ at \in {"connect_start_auth", "receive_methods"} /\ t.open
    BY <1>2, <1>6 DEF Serves
  <2>2. ~Broken(s)
    BY <1>5, <2>1 DEF Broken
  <2>3. Expected[at] = <<"methods">>
    BY <2>1, ExpectedIs
  <2>4. s.inbox \o s.wire = <<"methods">>
    BY <1>5, <2>1
  <2>5. Follows(s.inbox \o s.wire, Expected[at])
    BY <2>3, <2>4 DEF Follows
  <2>6. at \notin LoadPart /\ t.kind = "stream"
    BY <1>6, <2>1 DEF Serves, LoadPart
  <2> QED
    BY <1>5, <2>1, <2>2, <2>5, <2>6 DEF Serves
<1>7. ~Clean(t)
  BY <1>2 DEF Clean
<1>8. SameSteps
  BY <1>2, UnchangedSteps
<1>9. \A g \in InProgress : req[g].fd = f /\ Serves(sock[f], req[g].at, req[g].excused) =>
                              Serves(s, req[g].at, req'[g].excused)
  BY <1>2, <1>6 DEF t
<1>10. /\ s.open = sock[f].open /\ s.late = sock[f].late /\ (Clean(sock[f]) => Clean(s))
       /\ sock[f].inbox # <<>> => s.inbox # <<>>
  BY <1>5, <1>7 DEF t
<1> QED
  BY <1>1, <1>2, <1>3, <1>5, <1>8, <1>9, <1>10, OutsideKeeps

LEMMA BreakStep ==
  ASSUME EventInv, NEW f \in Fd, NEW fault \in {"refused", "gone", "lost"}, Break(f, fault)
  PROVE  EventInv'
<1> DEFINE t == sock[f]
<1>1. /\ turn \in Turns /\ req \in [Peer -> Requests] /\ sock \in [Fd -> Sockets] /\ t \in Sockets
  BY DEF EventInv, EventTypeOK
<1>2. /\ turn.breaks > 0 /\ t.open /\ queue' = queue
      /\ turn' = [turn EXCEPT !.breaks = @ - 1]
      /\ req' = [h \in Peer |-> IF h \in InProgress /\ req[h].fd = f
                                THEN [req[h] EXCEPT !.excused = @ \/ fault # "lost"] ELSE req[h]]
  BY DEF Break
<1>3. turn' \in Turns /\ turn'.pc = turn.pc /\ turn'.i = turn.i /\ turn'.rset = turn.rset
  BY <1>1, <1>2 DEF Turns
<1>4. ASSUME NEW g \in Peer
      PROVE  /\ req'[g] \in Requests /\ req'[g].at = req[g].at /\ req'[g].fd = req[g].fd
             /\ req'[g].try = req[g].try /\ req'[g].first = req[g].first
             /\ req[g].excused => req'[g].excused
             /\ g \in InProgress /\ req[g].fd = f /\ fault # "lost" => req'[g].excused
  <2>1. req[g] \in Requests
    BY <1>1
  <2>2. CASE g \in InProgress /\ req[g].fd = f
    <3>1. req'[g] = [req[g] EXCEPT !.excused = req[g].excused \/ fault # "lost"]
      BY <1>2, <2>2
    <3>2. (req[g].excused \/ fault # "lost") \in BOOLEAN
      OBVIOUS
    <3>3. /\ [req[g] EXCEPT !.excused = req[g].excused \/ fault # "lost"] \in Requests
          /\ [req[g] EXCEPT !.excused = req[g].excused \/ fault # "lost"].excused = (req[g].excused \/ fault # "lost")
          /\ [req[g] EXCEPT !.excused = req[g].excused \/ fault # "lost"].at = req[g].at
          /\ [req[g] EXCEPT !.excused = req[g].excused \/ fault # "lost"].fd = req[g].fd
          /\ [req[g] EXCEPT !.excused = req[g].excused \/ fault # "lost"].try = req[g].try
          /\ [req[g] EXCEPT !.excused = req[g].excused \/ fault # "lost"].first = req[g].first
      BY <2>1, <3>2 DEF Requests
    <3> QED
      BY <3>1, <3>3
  <2>3. CASE ~(g \in InProgress /\ req[g].fd = f)
    <3>1. req'[g] = req[g]
      BY <1>2, <2>3
    <3> QED
      BY <2>1, <2>3, <3>1
  <2> QED
    BY <2>2, <2>3
<1>5. SameSteps
  <2>1. req' \in [Peer -> Requests]
    BY <1>2, <1>4
  <2> QED
    BY <1>4, <2>1 DEF SameSteps
<1>6. t.wire \in Seq(Answers) /\ t.inbox \in Seq(Arrivals) /\ t.wire \in Seq(Arrivals)
  <2>1. t.wire \in Seq(Answers) /\ t.inbox \in Seq(Arrivals)
    BY <1>1 DEF Sockets
  <2> QED
    BY <2>1, SeqMonotonic DEF Arrivals
<1>7. \A g \in InProgress : g \in Peer
  BY DEF InProgress
<1>8. ASSUME NEW s \in Sockets, sock' = [sock EXCEPT ![f] = s], s.open = t.open, s.late = t.late,
             t.inbox # <<>> => s.inbox # <<>>, Clean(t) => Clean(s),
             \A at \in Callbacks : \A x \in BOOLEAN :
               Serves(t, at, x) => Serves(s, at, IF fault = "lost" THEN x ELSE TRUE)
      PROVE  EventInv'
  <2>1. ASSUME NEW g \in InProgress, req[g].fd = f, Serves(t, req[g].at, req[g].excused)
        PROVE  Serves(s, req[g].at, req'[g].excused)
    <3>1. req[g].at \in Callbacks /\ req[g].excused \in BOOLEAN
      <4>1. InProgress = {h \in Peer : req[h].at \in Callbacks}
        BY InProgressIs DEF EventInv
      <4>2. req[g] \in Requests
        BY <1>1, <1>7
      <4> QED
        BY <4>1, <4>2 DEF Requests
    <3>2. Serves(s, req[g].at, IF fault = "lost" THEN req[g].excused ELSE TRUE)
      BY <1>8, <2>1, <3>1
    <3>3. CASE fault = "lost"
      <4>1. Serves(s, req[g].at, req[g].excused) /\ (req[g].excused => req'[g].excused)
        BY <1>4, <1>7, <3>2, <3>3
      <4> QED
        BY ONLY <4>1, ExcusedServes
    <3>4. CASE fault # "lost"
      <4>1. Serves(s, req[g].at, TRUE) /\ (TRUE => req'[g].excused)
        BY <1>4, <1>7, <2>1, <3>2, <3>4
      <4> QED
        BY <4>1 DEF Serves
    <3> QED
      BY <3>3, <3>4
  <2>2. \A g \in Peer : req'[g].first = req[g].first
    BY <1>4
  <2> QED
    BY <1>2, <1>3, <1>5, <1>8, <2>1, <2>2, OutsideKeeps
<1>9. CASE fault = "refused"
  <2> DEFINE s == [t EXCEPT !.state = "refused", !.inbox = <<"error">>]
  <2>1. t.state = "progress" /\ sock' = [sock EXCEPT ![f] = s]
    BY <1>1, <1>9 DEF Break
  <2> HIDE DEF t
  <2>2. <<"error">> \in Seq(Arrivals)
    BY DEF Arrivals
  <2>3. /\ s \in Sockets /\ s.open = t.open /\ s.kind = t.kind /\ s.late = t.late
        /\ s.state = "refused" /\ s.inbox = <<"error">> /\ s.wire = t.wire
    BY <1>1, <2>2 DEF Sockets
  <2> HIDE DEF s
  <2>4. ASSUME NEW at \in Callbacks, NEW x \in BOOLEAN, Serves(t, at, x) PROVE Serves(s, at, TRUE)
    <3>1. t.wire = <<>> /\ at \notin LoadPart /\ t.kind = "stream"
      BY <2>1, <2>4 DEF Serves, LoadPart
    <3>2. s.inbox \o s.wire = <<"error">>
      BY <2>3, <3>1
    <3>3. Follows(s.inbox \o s.wire, Expected[at])
      BY <3>2 DEF Follows
    <3> QED
      BY <1>2, <2>3, <3>1, <3>3 DEF Serves, t
  <2>5. ~Clean(t)
    BY <2>1 DEF Clean
  <2>6. \A at \in Callbacks : \A x \in BOOLEAN :
          Serves(t, at, x) => Serves(s, at, IF fault = "lost" THEN x ELSE TRUE)
    BY <1>9, <2>4
  <2>7. s.inbox # <<>>
    BY <2>3
  <2> QED
    BY <1>8, <2>1, <2>3, <2>5, <2>6, <2>7
<1>10. CASE fault = "gone"
  <2> DEFINE m == Append(t.inbox, "error")
             s == [t EXCEPT !.wire = <<>>, !.inbox = m]
  <2>1. t.state = "connected" /\ sock' = [sock EXCEPT ![f] = s]
    BY <1>1, <1>10 DEF Break
  <2> HIDE DEF t
  <2>2. m \in Seq(Arrivals) /\ m # <<>> /\ <<>> \in Seq(Answers)
    BY <1>6 DEF Arrivals
  <2> HIDE DEF m
  <2>3. /\ s \in Sockets /\ s.open = t.open /\ s.kind = t.kind /\ s.late = t.late
        /\ s.state = t.state /\ s.inbox = m /\ s.wire = <<>>
    BY <1>1, <2>2 DEF Sockets
  <2> HIDE DEF s
  <2>4. ASSUME NEW at \in Callbacks, NEW x \in BOOLEAN, Serves(t, at, x) PROVE Serves(s, at, TRUE)
    <3>1. ASSUME at \notin LoadPart PROVE s.kind = "stream" /\ Follows(s.inbox \o s.wire, Expected[at])
      <4>1. t.kind = "stream" /\ Follows(t.inbox \o t.wire, Expected[at])
        BY <2>4, <3>1 DEF Serves
      <4>2. Expected[at] \in Seq(Arrivals)
        BY ExpectedMessages
      <4>3. Follows(m \o <<>>, Expected[at])
        BY <1>6, <4>1, <4>2, FollowsBroken DEF m
      <4> QED
        BY <2>3, <4>1, <4>3
    <3>2. t.open
      BY <2>4 DEF Serves
    <3> QED
      BY <2>1, <2>3, <3>1, <3>2 DEF Serves
  <2>5. Clean(t) => Clean(s)
    <3>1. ASSUME Follows(t.inbox \o t.wire, <<>>) PROVE Follows(s.inbox \o s.wire, <<>>)
      <4>1. <<>> \in Seq(Arrivals)
        OBVIOUS
      <4>2. Follows(m \o <<>>, <<>>)
        BY <1>6, <3>1, <4>1, FollowsBroken DEF m
      <4> QED
        BY <2>3, <4>2
    <3> QED
      BY <2>3, <3>1 DEF Clean
  <2>6. \A at \in Callbacks : \A x \in BOOLEAN :
          Serves(t, at, x) => Serves(s, at, IF fault = "lost" THEN x ELSE TRUE)
    BY <1>10, <2>4
  <2>7. s.inbox # <<>>
    BY <2>2, <2>3
  <2> QED
    BY <1>8, <2>1, <2>3, <2>5, <2>6, <2>7
<1>11. CASE fault = "lost"
  <2> DEFINE s == [t EXCEPT !.wire = Tail(t.wire)]
  <2>1. t.kind = "datagram" /\ t.wire # <<>> /\ sock' = [sock EXCEPT ![f] = s]
    BY <1>1, <1>11 DEF Break
  <2> HIDE DEF t
  <2>2. Tail(t.wire) \in Seq(Answers)
    BY <1>6, <2>1
  <2>3. /\ s \in Sockets /\ s.open = t.open /\ s.kind = t.kind /\ s.late = t.late
        /\ s.state = t.state /\ s.inbox = t.inbox /\ s.wire = Tail(t.wire)
    BY <1>1, <2>2 DEF Sockets
  <2> HIDE DEF s
  <2>4. ASSUME NEW at \in Callbacks, NEW x \in BOOLEAN, Serves(t, at, x) PROVE Serves(s, at, x)
    BY <2>1, <2>3, <2>4 DEF Serves, Broken
  <2>5. ~Clean(t)
    BY <2>1 DEF Clean
  <2>6. \A at \in Callbacks : \A x \in BOOLEAN :
          Serves(t, at, x) => Serves(s, at, IF fault = "lost" THEN x ELSE TRUE)
    BY <1>11, <2>4
  <2> QED
    BY <1>8, <2>1, <2>3, <2>5, <2>6
<1> QED
  BY <1>9, <1>10, <1>11

\* What a procedure on a connection of the cache reads first.
LEMMA FirstRead ==
  ASSUME NEW m \in Seq(Arrivals)
  PROVE  /\ Head(m \o <<"rpc">>) \in Arrivals \cup {"rpc"}
         /\ Follows(m, <<>>) => Head(m \o <<"rpc">>) \in {"rpc", "error"}
<1>1. CASE m = <<>>
  <2>1. m \o <<"rpc">> = <<"rpc">>
    BY <1>1
  <2> QED
    BY <2>1
<1>2. CASE m # <<>>
  <2> DEFINE T == Arrivals \cup {"rpc"}
  <2>1. m \in Seq(T) /\ <<"rpc">> \in Seq(T)
    BY SeqMonotonic
  <2>2. 1 \in 1 .. Len(m) /\ m[1] \in Arrivals
    BY <1>2
  <2>3. /\ m \o <<"rpc">> \in Seq(T) /\ Len(m \o <<"rpc">>) = Len(m) + Len(<<"rpc">>)
        /\ \A i \in 1 .. Len(m) : (m \o <<"rpc">>)[i] = m[i]
    BY ONLY <2>1, Concat
  <2>4. Head(m \o <<"rpc">>) = m[1]
    <3>1. m \o <<"rpc">> # <<>>
      BY <1>2
    <3> QED
      BY <2>2, <2>3, <3>1
  <2>5. ASSUME Follows(m, <<>>) PROVE m[1] = "error"
    <3>1. ASSUME m[1] # "error" PROVE FALSE
      <4>1. \A j \in 1 .. 1 : m[j] # "error"
        BY <3>1
      <4>2. 1 <= Len(<<>>)
        BY <2>2, <2>5, <4>1 DEF Follows
      <4> QED
        BY <4>2
    <3> QED
      BY <3>1
  <2> QED
    BY <2>2, <2>4, <2>5
<1> QED
  BY <1>1, <1>2

LEMMA CachedRpcStep ==
  ASSUME EventInv, NEW h \in Peer, CachedRpc(h)
  PROVE  EventInv'
<1> DEFINE s == sock[req[h].fd]
           m == s.inbox \o s.wire
           first == Head(m \o <<"rpc">>)
           r == [req[h] EXCEPT !.first = first]
<1>1. /\ turn \in Turns /\ req \in [Peer -> Requests] /\ sock \in [Fd -> Sockets] /\ req[h] \in Requests
  BY DEF EventInv, EventTypeOK
<1>2. /\ turn.pc = "idle" /\ InProgress = {} /\ req[h].at \in {"ok", "failed"} /\ s.open
      /\ queue' = queue /\ turn' = turn /\ sock' = sock
  BY DEF CachedRpc
<1>3. req' = [req EXCEPT ![h] = r]
  BY <1>1 DEF CachedRpc
<1>4. req[h].fd \in Fd
  BY <1>2 DEF EventInv, Owned
<1>5. s.inbox \in Seq(Arrivals) /\ s.wire \in Seq(Arrivals)
  <2>1. s \in Sockets
    BY <1>1, <1>4
  <2>2. s.inbox \in Seq(Arrivals) /\ s.wire \in Seq(Answers)
    BY <2>1 DEF Sockets
  <2> QED
    BY <2>2, SeqMonotonic DEF Arrivals
<1>6. m \in Seq(Arrivals)
  BY <1>5, ConcatProperties
<1>7. Clean(s)
  BY <1>2, <1>4 DEF EventInv, LeftClean
<1> HIDE DEF s
<1>8. first \in Arrivals \cup {"rpc"} /\ (Follows(m, <<>>) => first \in {"rpc", "error"})
  BY <1>6, FirstRead
<1>9. first \in {"rpc", "error"} \/ s.late
  BY <1>7, <1>8 DEF Clean
<1> HIDE DEF first
<1>10. /\ r \in Requests /\ r.at = req[h].at /\ r.fd = req[h].fd /\ r.try = req[h].try
       /\ r.excused = req[h].excused /\ r.first = first
  BY <1>1, <1>8 DEF Requests
<1> HIDE DEF r
<1>11. /\ req' \in [Peer -> Requests]
       /\ \A g \in Peer : /\ req'[g].at = req[g].at /\ req'[g].fd = req[g].fd /\ req'[g].try = req[g].try
                          /\ req'[g].excused = req[g].excused
  BY <1>1, <1>3, <1>10
<1>12. SameSteps
  BY <1>11 DEF SameSteps
<1>13. InProgress' = {}
  BY <1>2, <1>12, SameInProgress
<1>14. EventTypeOK'
  BY <1>2, <1>11 DEF EventInv, EventTypeOK
<1>15. Len(queue) = 0
  <2>1. ASSUME NEW i \in 1 .. Len(queue) PROVE FALSE
    <3>1. queue[i] \in Events
      BY DEF EventInv, EventTypeOK
    <3>2. queue[i].h \in Peer /\ queue[i].callback \in Callbacks /\ req[queue[i].h].at = queue[i].callback
      BY <3>1 DEF Events, EventInv, Matched
    <3>3. queue[i].h \in InProgress
      BY <3>2, InProgressIs DEF EventInv
    <3> QED
      BY <1>2, <3>3
  <2>2. Len(queue) \in Nat
    BY DEF EventInv, EventTypeOK
  <2>3. CASE Len(queue) >= 1
    <3>1. 1 \in 1 .. Len(queue)
      BY <2>2, <2>3
    <3> QED
      BY <2>1, <3>1
  <2> QED
    BY <2>2, <2>3
<1>16. Visiting' /\ Matched' /\ Timed' /\ Served'
  BY <1>2, <1>13, <1>15 DEF Visiting, Matched, Timed, Served
<1>17. Owned'
  <2>1. ASSUME NEW x \in Fd, sock'[x].open PROVE \E g \in Peer : req'[g].at # "none" /\ req'[g].fd = x
    <3>1. PICK g \in Peer : req[g].at # "none" /\ req[g].fd = x
      BY <1>2, <2>1 DEF EventInv, Owned
    <3> QED
      BY <1>11, <3>1
  <2>2. ASSUME NEW g \in Peer, req'[g].at # "none" PROVE req'[g].fd \in Fd
    BY <1>11, <2>2 DEF EventInv, Owned
  <2>3. Fd' = Fd /\ Peer' = Peer
    BY DEF Fd, Peer
  <2> QED
    BY <1>13, <2>1, <2>2, <2>3 DEF Owned
<1>18. LeftClean'
  <2>1. \A x \in Fd : sock[x].open => Clean(sock[x])
    BY <1>2 DEF EventInv, LeftClean
  <2>2. \A x \in Fd : sock'[x].open => Clean(sock'[x])
    BY <1>2, <2>1
  <2> QED
    BY <2>2 DEF LeftClean, Clean, Follows, Fd
<1>19. FirstRight'
  <2>1. ASSUME NEW g \in Peer
        PROVE  /\ req'[g].first # "none" => req'[g].at \in {"ok", "failed"}
               /\ req'[g].first \notin {"none", "rpc", "error"} =>
                    sock'[req'[g].fd].open /\ sock'[req'[g].fd].late
    <3>1. CASE g = h
      <4>1. req'[g].first = first /\ req'[g].fd = req[h].fd /\ req'[g].at \in {"ok", "failed"}
        BY <1>1, <1>2, <1>3, <1>10, <3>1
      <4>2. sock'[req'[g].fd] = s
        BY <1>2, <4>1 DEF s
      <4> QED
        BY <1>2, <1>9, <4>1, <4>2
    <3>2. CASE g # h
      <4>1. req'[g] = req[g]
        BY <1>1, <1>3, <3>2
      <4> QED
        BY <1>2, <4>1 DEF EventInv, FirstRight
    <3> QED
      BY <3>1, <3>2
  <2> QED
    BY <1>13, <2>1 DEF FirstRight
<1>20. FailsForReason'
  BY <1>11 DEF EventInv, FailsForReason
<1> QED
  BY <1>14, <1>16, <1>17, <1>18, <1>19, <1>20 DEF EventInv

LEMMA ClockTickStep ==
  ASSUME EventInv, ClockTick
  PROVE  EventInv'
<1> DEFINE over == {queue[i].h : i \in {j \in DOMAIN queue : queue[j].left = 1 /\ ~ReadReady(queue[j].fd)}}
           last == {h \in over : req[h].at = "get_load_receive" => req[h].try = Len(LoadTimeouts)}
<1>1. /\ queue \in Seq(Events) /\ turn \in Turns /\ req \in [Peer -> Requests] /\ sock \in [Fd -> Sockets]
      /\ Len(queue) \in Nat /\ DOMAIN queue = 1 .. Len(queue)
  BY DEF EventInv, EventTypeOK
<1>2. /\ queue' = [i \in DOMAIN queue |->
                     IF queue[i].left > 0 THEN [queue[i] EXCEPT !.left = @ - 1] ELSE queue[i]]
      /\ req' = [h \in Peer |-> IF h \in last THEN [req[h] EXCEPT !.excused = TRUE] ELSE req[h]]
      /\ turn' = turn /\ sock' = sock
  BY DEF ClockTick
<1>3. ASSUME NEW i \in 1 .. Len(queue), queue[i].left = 1, LastTry(queue[i])
      PROVE  queue[i].h \in last \/ ReadReady(queue[i].fd)
  <2>1. req[queue[i].h].at = queue[i].callback
    BY DEF EventInv, Matched
  <2>2. CASE ~ReadReady(queue[i].fd)
    <3>1. queue[i].h \in over
      BY <1>1, <1>3, <2>2
    <3> QED
      BY <1>3, <2>1, <3>1 DEF LastTry
  <2> QED
    BY <2>2
<1> HIDE DEF over, last
<1>4. ASSUME NEW g \in Peer
      PROVE  /\ req'[g] \in Requests /\ req'[g].at = req[g].at /\ req'[g].fd = req[g].fd
             /\ req'[g].try = req[g].try /\ req'[g].first = req[g].first
             /\ req[g].excused => req'[g].excused
             /\ g \in last => req'[g].excused
  <2>1. req[g] \in Requests
    BY <1>1
  <2>2. CASE g \in last
    <3>1. req'[g] = [req[g] EXCEPT !.excused = TRUE]
      BY <1>2, <2>2
    <3>2. /\ [req[g] EXCEPT !.excused = TRUE] \in Requests
          /\ [req[g] EXCEPT !.excused = TRUE].excused
          /\ [req[g] EXCEPT !.excused = TRUE].at = req[g].at
          /\ [req[g] EXCEPT !.excused = TRUE].fd = req[g].fd
          /\ [req[g] EXCEPT !.excused = TRUE].try = req[g].try
          /\ [req[g] EXCEPT !.excused = TRUE].first = req[g].first
      BY <2>1 DEF Requests
    <3> QED
      BY <3>1, <3>2
  <2>3. CASE g \notin last
    <3>1. req'[g] = req[g]
      BY <1>2, <2>3
    <3> QED
      BY <2>1, <2>3, <3>1
  <2> QED
    BY <2>2, <2>3
<1>5. SameSteps
  <2>1. req' \in [Peer -> Requests]
    BY <1>2, <1>4
  <2> QED
    BY <1>4, <2>1 DEF SameSteps
<1>6. InProgress' = InProgress
  BY <1>5, SameInProgress
<1>7. ASSUME NEW i \in 1 .. Len(queue)
      PROVE  /\ queue[i] \in Events /\ queue'[i] \in Events
             /\ queue'[i].h = queue[i].h /\ queue'[i].callback = queue[i].callback
             /\ queue'[i].fd = queue[i].fd /\ queue'[i].due = queue[i].due
             /\ queue[i].h \in Peer
             /\ queue[i].left = NoTimeout => queue'[i].left = NoTimeout
             /\ queue'[i].left = 0 => queue[i].left \in {0, 1}
  <2>1. queue[i] \in Events
    BY <1>1
  <2>2. queue[i].left \in Nat \cup {NoTimeout} /\ queue[i].h \in Peer
    BY <2>1 DEF Events
  <2>3. CASE queue[i].left > 0
    <3>1. queue'[i] = [queue[i] EXCEPT !.left = queue[i].left - 1]
      BY <1>1, <1>2, <2>3
    <3>2. queue[i].left - 1 \in Nat \cup {NoTimeout} /\ queue[i].left # NoTimeout
      BY <2>2, <2>3 DEF NoTimeout
    <3>3. /\ queue'[i] \in Events
          /\ queue'[i].h = queue[i].h /\ queue'[i].callback = queue[i].callback
          /\ queue'[i].fd = queue[i].fd /\ queue'[i].due = queue[i].due
          /\ queue'[i].left = queue[i].left - 1
      BY <2>1, <3>1, <3>2 DEF Events
    <3>4. queue[i].left - 1 = 0 => queue[i].left = 1
      BY <2>2, <2>3 DEF NoTimeout
    <3> QED
      BY <2>1, <2>2, <3>2, <3>3, <3>4
  <2>4. CASE ~(queue[i].left > 0)
    <3>1. queue'[i] = queue[i]
      BY <1>1, <1>2, <2>4
    <3> QED
      BY <2>1, <2>2, <3>1
  <2> QED
    BY <2>3, <2>4
<1>8. queue' \in Seq(Events) /\ Len(queue') = Len(queue)
  <2>1. queue' \in [1 .. Len(queue) -> Events]
    BY <1>1, <1>2, <1>7
  <2> QED
    BY <1>1, <2>1
<1>9. EventTypeOK'
  BY <1>1, <1>2, <1>5, <1>8 DEF EventTypeOK, SameSteps
<1>10. Visiting'
  BY <1>2, <1>8 DEF EventInv, Visiting
<1>11. \A g \in InProgress : g \in Peer
  BY DEF InProgress
<1>12. Matched'
  <2>1. ASSUME NEW i \in 1 .. Len(queue)
        PROVE  req'[queue'[i].h].at = queue'[i].callback /\ req'[queue'[i].h].fd = queue'[i].fd
    BY <1>4, <1>7 DEF EventInv, Matched
  <2>2. ASSUME NEW i \in 1 .. Len(queue), NEW j \in 1 .. Len(queue), queue'[i].h = queue'[j].h PROVE i = j
    BY <1>7, <2>2 DEF EventInv, Matched
  <2>3. ASSUME NEW h \in InProgress PROVE \E i \in 1 .. Len(queue) : queue'[i].h = h
    BY <1>7 DEF EventInv, Matched
  <2> QED
    BY <1>6, <1>8, <2>1, <2>2, <2>3 DEF Matched
<1>13. Owned'
  <2>1. ASSUME NEW g \in Peer, req'[g].at # "none" PROVE req'[g].fd \in Fd
    BY <1>4, <2>1 DEF EventInv, Owned
  <2>2. ASSUME NEW g \in InProgress, NEW h \in InProgress, req'[g].fd = req'[h].fd PROVE g = h
    BY <1>4, <1>11, <2>2 DEF EventInv, Owned
  <2>3. ASSUME NEW x \in Fd, sock'[x].open PROVE \E h \in Peer : req'[h].at # "none" /\ req'[h].fd = x
    <3>1. PICK h \in Peer : req[h].at # "none" /\ req[h].fd = x
      BY <1>2, <2>3 DEF EventInv, Owned
    <3> QED
      BY <1>4, <3>1
  <2>4. Fd' = Fd /\ Peer' = Peer
    BY DEF Fd, Peer
  <2> QED
    BY <1>6, <2>1, <2>2, <2>3, <2>4 DEF Owned
<1>14. Timed'
  <2>1. ASSUME NEW i \in 1 .. Len(queue)
        PROVE  /\ queue'[i].callback \in Writes => queue'[i].left = NoTimeout
               /\ queue'[i].left = 0 /\ LastTry(queue[i])' =>
                    req'[queue'[i].h].excused \/ ReadReady(queue[i].fd)'
               /\ turn'.pc = "visit" /\ queue'[i].due =>
                    /\ queue'[i].callback \notin Writes
                    /\ LastTry(queue[i])' => req'[queue'[i].h].excused \/ queue'[i].fd \in turn'.rset
    <3>1. LastTry(queue[i])' <=> LastTry(queue[i])
      BY <1>4, <1>7 DEF LastTry
    <3>2. ReadReady(queue[i].fd)' <=> ReadReady(queue[i].fd)
      BY <1>2, <1>7 DEF ReadReady
    <3>3. /\ queue[i].callback \in Writes => queue[i].left = NoTimeout
          /\ queue[i].left = 0 /\ LastTry(queue[i]) => req[queue[i].h].excused \/ ReadReady(queue[i].fd)
          /\ turn.pc = "visit" /\ queue[i].due =>
               /\ queue[i].callback \notin Writes
               /\ LastTry(queue[i]) => req[queue[i].h].excused \/ queue[i].fd \in turn.rset
      BY DEF EventInv, Timed
    <3>4. queue[i].left = 1 /\ LastTry(queue[i]) => req'[queue[i].h].excused \/ ReadReady(queue[i].fd)
      BY <1>3, <1>4, <1>7
    <3>5. req[queue[i].h].excused => req'[queue[i].h].excused
      BY <1>4, <1>7
    <3>6. turn' = turn
      BY <1>2
    <3> QED
      BY <1>7, <3>1, <3>2, <3>3, <3>4, <3>5, <3>6
  <2> QED
    BY <1>8, <2>1 DEF Timed
<1>15. Served'
  <2>1. ASSUME NEW g \in InProgress PROVE Serves(sock[req[g].fd], req[g].at, req'[g].excused)
    <3>1. Serves(sock[req[g].fd], req[g].at, req[g].excused) /\ (req[g].excused => req'[g].excused)
      BY <1>4, <1>11 DEF EventInv, Served
    <3> QED
      BY <3>1, ExcusedServes
  <2>2. \A g \in InProgress' : Serves(sock'[req'[g].fd], req'[g].at, req'[g].excused)
    BY <1>2, <1>4, <1>6, <1>11, <2>1
  <2> QED
    BY <2>2 DEF Served, Serves, Expected, Broken, Follows
<1>16. LeftClean'
  <2>1. \A x \in Fd : sock'[x].open /\ (\A g \in InProgress' : req'[g].fd # x) => Clean(sock'[x])
    BY <1>2, <1>4, <1>6, <1>11 DEF EventInv, LeftClean
  <2> QED
    BY <2>1 DEF LeftClean, Clean, Follows, Fd
<1>17. FirstRight'
  BY <1>2, <1>4, <1>6, <1>11 DEF EventInv, FirstRight
<1>18. FailsForReason'
  BY <1>4 DEF EventInv, FailsForReason
<1> QED
  BY <1>9, <1>10, <1>12, <1>13, <1>14, <1>15, <1>16, <1>17, <1>18 DEF EventInv

(***************************************************************************)
(* Theorems                                                                *)
(***************************************************************************)
LEMMA EventInitInv == EventInit => EventInv
<1> SUFFICES ASSUME EventInit PROVE EventInv
  OBVIOUS
<1>1. Len(Peers) \in Nat /\ LoadTimeouts \in Seq(Nat \ {0}) /\ LoadTimeouts # <<>> /\ Breaks \in Nat
  <2>1. Peers \in Seq(Peer)
    BY EventAssumption
  <2> QED
    BY <2>1, EventAssumption
<1>2. /\ queue = <<>> /\ turn = [pc |-> "idle", i |-> 0, rset |-> {}, wset |-> {}, breaks |-> Breaks]
      /\ sock = [f \in Fd |-> ClosedFd]
      /\ req = [h \in Peer |-> [at |-> "none", fd |-> 0, try |-> 1, excused |-> FALSE, first |-> "none"]]
  BY DEF EventInit, Fd
<1>3. EventTypeOK
  <2>1. turn \in Turns
    BY <1>1, <1>2 DEF Turns
  <2>2. ClosedFd \in Sockets
    BY DEF ClosedFd, Sockets
  <2>3. 1 \in 1 .. Len(LoadTimeouts) /\ 0 \in 0 .. Len(Peers)
    BY <1>1
  <2>4. [at |-> "none", fd |-> 0, try |-> 1, excused |-> FALSE, first |-> "none"] \in Requests
    BY <2>3 DEF Requests
  <2> QED
    BY <1>2, <2>1, <2>2, <2>4 DEF EventTypeOK
<1>4. InProgress = {} /\ Len(queue) = 0 /\ turn.pc = "idle"
  BY <1>2 DEF InProgress
<1>5. \A g \in Peer : req[g].at = "none" /\ req[g].first = "none"
  BY <1>2
<1>6. \A x \in Fd : ~sock[x].open
  BY <1>2 DEF ClosedFd
<1>7. Visiting /\ Matched /\ Timed
  BY <1>4 DEF Visiting, Matched, Timed
<1>8. Owned /\ Served /\ LeftClean
  BY <1>4, <1>5, <1>6 DEF Owned, Served, LeftClean
<1>9. FirstRight /\ FailsForReason
  BY <1>5 DEF FirstRight, FailsForReason
<1> QED
  BY <1>3, <1>7, <1>8, <1>9 DEF EventInv

LEMMA EventNextInv == EventInv /\ [EventNext]_evvars => EventInv'
<1> SUFFICES ASSUME EventInv, [EventNext]_evvars PROVE EventInv'
  OBVIOUS
<1>1. DOMAIN sock = Fd
  BY DEF EventInv, EventTypeOK
<1>2. CASE Select
  BY <1>2, SelectStep
<1>3. CASE Visit
  BY <1>3, VisitStep
<1>4. CASE \E h \in Peer : GetLoadRequest(h)
  BY <1>4, GetLoadRequestStep
<1>5. CASE \E h \in Peer : CachedRpc(h)
  BY <1>5, CachedRpcStep
<1>6. CASE \E f \in DOMAIN sock, fault \in {"refused", "gone", "lost"} : Break(f, fault)
  BY <1>1, <1>6, BreakStep
<1>7. CASE ClockTick
  BY <1>7, ClockTickStep
<1>8. CASE \E f \in DOMAIN sock : Arrive(f)
  BY <1>1, <1>8, ArriveStep
<1>9. CASE \E f \in DOMAIN sock : Establish(f)
  BY <1>1, <1>9, EstablishStep
<1>10. CASE UNCHANGED evvars
  <2>1. queue' = queue /\ turn' = turn /\ req' = req /\ sock' = sock
    BY <1>10 DEF evvars
  <2>2. Turning /\ Visiting'
    BY <2>1 DEF Turning, Visiting, EventInv, EventTypeOK
  <2> QED
    BY <2>1, <2>2, PassedKeeps
<1> QED
  BY <1>2, <1>3, <1>4, <1>5, <1>6, <1>7, <1>8, <1>9, <1>10 DEF EventNext, EventStep, Outside

\* gfevent.c, with gfs_client.c and auth_client.c: the queue, the requests, the
\* sockets and the sets of select are in step, whatever the order of the answers,
\* the timeouts and the failures.
THEOREM EventInvariant == EventSpec => []EventInv
BY EventInitInv, EventNextInv, PTL DEF EventSpec

\* The requests of search_idle (schedule.c) over the event queue: a request in
\* progress has exactly one event, of its step and its own open descriptor; it fails
\* only when its host has refused, gone away or not answered in time; and the
\* connection it leaves in the cache owes no answer, unless a timeout left it.
THEOREM RequestsRightAlways == EventSpec => []RequestsRight
<1>1. EventInv => RequestsRight
  <2> SUFFICES ASSUME EventInv PROVE RequestsRight
    OBVIOUS
  <2>1. queue \in Seq(Events) /\ DOMAIN queue = 1 .. Len(queue)
    BY DEF EventInv, EventTypeOK
  <2>2. ASSUME NEW i \in DOMAIN queue
        PROVE  /\ queue[i].h \in InProgress /\ req[queue[i].h].at = queue[i].callback
               /\ req[queue[i].h].fd = queue[i].fd /\ sock[queue[i].fd].open
    <3>1. queue[i] \in Events
      BY <2>1
    <3>2. queue[i].h \in Peer /\ queue[i].callback \in Callbacks
      BY <3>1 DEF Events
    <3>3. req[queue[i].h].at = queue[i].callback /\ req[queue[i].h].fd = queue[i].fd
      BY <2>1 DEF EventInv, Matched
    <3>4. queue[i].h \in InProgress
      BY <3>2, <3>3, InProgressIs DEF EventInv
    <3>5. sock[queue[i].fd].open
      BY <3>3, <3>4 DEF EventInv, Served, Serves
    <3> QED
      BY <3>3, <3>4, <3>5
  <2>3. ASSUME NEW h \in InProgress
        PROVE  Cardinality({i \in DOMAIN queue : queue[i].h = h}) = 1
    <3>1. PICK i \in 1 .. Len(queue) : queue[i].h = h
      BY DEF EventInv, Matched
    <3>2. {j \in DOMAIN queue : queue[j].h = h} = {i}
      BY <2>1, <3>1 DEF EventInv, Matched
    <3> QED
      BY <3>2, FS_Singleton
  <2>4. OneEvent
    BY <2>2, <2>3 DEF OneEvent, EventInv, Owned
  <2>5. FailsForReason /\ CachedClean
    BY DEF EventInv, FirstRight, CachedClean
  <2> QED
    BY <2>4, <2>5 DEF RequestsRight
<1> QED
  BY <1>1, EventInvariant, PTL
=============================================================================
