-------------------------- MODULE ProxyServerProofs --------------------------
(***************************************************************************)
(* For any number of clients and keys and any queue depth, the sequential  *)
(* part of what ProxyServer promises: a client gets no reply but its own,  *)
(* and while no two clients ask for one key, the callback finds every      *)
(* answer's request and no request is forgotten.                           *)
(***************************************************************************)
EXTENDS ProxyServer, FiniteSetTheorems, TLAPS

Message == [from : ProxyClient, op : {Get, GetSmart, Ping}, key : Key \cup {NoKey}]
Tables == pendingRequests \cup held \cup readyRequests

(* A request on its way is the one its client waits for; a ping has no key. *)
Wanted(t) == asked[t.from] = [op |-> t.op, key |-> t.key] /\ mail[t.from] = None

Types ==
  /\ asked \in [ProxyClient -> Body \cup {None}] /\ mail \in [ProxyClient -> Body \cup {None}]
  /\ \A c \in ProxyClient : asked[c].op = Ping => asked[c].key = NoKey
  /\ inbox \in Seq(Message)
  /\ Tables \subseteq Message

(* A request is in one table, or on its way between them.                   *)
Apart ==
  /\ pendingRequests \cap readyRequests = {}
  /\ held \cap (pendingRequests \cup readyRequests) = {}

(* Each client has at most one request or reply under way, anywhere.        *)
PlaceInv ==
  /\ Types
  /\ Apart
  /\ \A c \in ProxyClient : mail[c] # None => mail[c] = asked[c]
  /\ \A i \in DOMAIN inbox : Wanted(inbox[i])
  /\ \A t \in Tables : Wanted(t)
  /\ \A i, j \in DOMAIN inbox : inbox[i].from = inbox[j].from => i = j
  /\ \A i \in DOMAIN inbox : \A t \in Tables : inbox[i].from # t.from
  /\ \A t, u \in Tables : t.from = u.from => t = u

LEMMA PlaceInit == Init => PlaceInv
<1> SUFFICES ASSUME Init PROVE PlaceInv
  OBVIOUS
<1>1. inbox = <<>> /\ atDrive = <<>> /\ Tables = {} /\ DOMAIN inbox = {}
  BY DEF Init, Tables
<1>2. None.op # Ping
  BY DEF None, Ping
<1>3. /\ asked = [c \in ProxyClient |-> None] /\ mail = [c \in ProxyClient |-> None]
      /\ pendingRequests = {} /\ held = {}
  BY DEF Init
<1>4. Types
  BY <1>1, <1>2, <1>3 DEF Types
<1> QED BY <1>1, <1>3, <1>4 DEF PlaceInv, Apart

(* None is no body, so a client with a request under way waits.             *)
LEMMA NoneIsNoBody ==
  ASSUME NEW a \in {Get, GetSmart, Ping}, NEW k
  PROVE  [op |-> a, key |-> k] # None
BY DEF None, Get, GetSmart, Ping

(* A step that leaves the clients and the inbox alone, and only moves or     *)
(* drops requests in the tables.                                            *)
LEMMA PlacesShrink ==
  ASSUME PlaceInv, UNCHANGED <<asked, mail, inbox>>, Tables' \subseteq Tables,
         Apart'
  PROVE  PlaceInv'
<1>1. Types'
  BY DEF PlaceInv, Types
<1>2. \A t \in Tables' : t \in Tables /\ Wanted(t)'
  BY DEF PlaceInv, Wanted
<1>3. \A i \in DOMAIN inbox' : Wanted(inbox[i])'
  BY DEF PlaceInv, Wanted
<1> QED BY <1>1, <1>2, <1>3 DEF PlaceInv

LEMMA PlaceAsk ==
  ASSUME PlaceInv, NEW c \in ProxyClient, NEW body \in Body, Ask(c, body),
         body.op = Ping => body.key = NoKey
  PROVE  PlaceInv'
<1> DEFINE n == Len(inbox)
<1>1. PICK m : m = [from |-> c, op |-> body.op, key |-> body.key]
  OBVIOUS
<1>2. /\ asked[c] = None /\ asked' = [asked EXCEPT ![c] = body] /\ mail' = mail
      /\ inbox' = Append(inbox, m) /\ UNCHANGED <<pendingRequests, held, readyRequests>>
  BY <1>1 DEF Ask, tableVars
<1>3. m \in Message /\ m.from = c /\ body = [op |-> m.op, key |-> m.key] /\ body # None
  BY <1>1, NoneIsNoBody DEF Message, Body
<1>4. /\ n \in Nat /\ DOMAIN inbox = 1 .. n /\ DOMAIN inbox' = 1 .. n + 1
      /\ inbox'[n + 1] = m /\ \A i \in 1 .. n : inbox'[i] = inbox[i] /\ inbox[i] \in Message
  BY <1>2 DEF PlaceInv, Types
<1> HIDE DEF n
<1>5. mail[c] = None /\ c \in DOMAIN asked
  BY <1>2 DEF PlaceInv, Types
<1>6. Tables' = Tables
  BY <1>2 DEF Tables
<1>7. /\ \A i \in 1 .. n : inbox[i].from # c
      /\ \A t \in Tables : t.from # c
  <2>1. ASSUME NEW t \in Message, Wanted(t) PROVE t.from # c
    <3>1. [op |-> t.op, key |-> t.key] # None
      BY NoneIsNoBody DEF Message
    <3> QED BY <1>2, <2>1, <3>1 DEF Wanted
  <2> QED BY <1>4, <2>1 DEF PlaceInv, Types
<1>8. Types'
  <2>1. asked' \in [ProxyClient -> Body \cup {None}]
    BY <1>2 DEF PlaceInv, Types
  <2>2. ASSUME NEW d \in ProxyClient, asked'[d].op = Ping PROVE asked'[d].key = NoKey
    BY <1>2, <1>5, <2>2 DEF PlaceInv, Types
  <2>3. inbox' \in Seq(Message)
    BY <1>2, <1>3 DEF PlaceInv, Types
  <2> QED BY <1>2, <1>6, <2>1, <2>2, <2>3 DEF PlaceInv, Types
<1>9. ASSUME NEW t \in Message, Wanted(t), t.from # c PROVE Wanted(t)'
  BY <1>2, <1>9 DEF Wanted, PlaceInv, Types
<1>10. ASSUME NEW i \in DOMAIN inbox' PROVE Wanted(inbox[i])'
  <2>1. CASE i = n + 1
    BY <1>2, <1>3, <1>4, <1>5, <2>1 DEF Wanted, PlaceInv, Types
  <2>2. CASE i # n + 1
    <3>1. i \in DOMAIN inbox /\ inbox'[i] = inbox[i] /\ inbox[i] \in Message /\ inbox[i].from # c
      BY <1>4, <1>7, <2>2
    <3>2. PICK t \in Message : t = inbox[i]
      BY <3>1
    <3>3. Wanted(t)'
      BY <1>9, <3>1, <3>2 DEF PlaceInv
    <3> QED BY <3>1, <3>2, <3>3 DEF Wanted
  <2> QED BY <2>1, <2>2
<1>11. ASSUME NEW t \in Tables' PROVE Wanted(t)'
  <2>1. t \in Message /\ Wanted(t) /\ t.from # c
    BY <1>6, <1>7 DEF PlaceInv, Types
  <2> QED BY <1>9, <2>1
<1>12. \A d \in ProxyClient : mail'[d] # None => mail'[d] = asked'[d]
  BY <1>2, <1>5 DEF PlaceInv, Types
<1>13. \A i, j \in DOMAIN inbox' : inbox'[i].from = inbox'[j].from => i = j
  BY <1>3, <1>4, <1>7 DEF PlaceInv
<1>14. \A i \in DOMAIN inbox' : \A t \in Tables' : inbox'[i].from # t.from
  BY <1>3, <1>4, <1>6, <1>7 DEF PlaceInv
<1> QED BY <1>2, <1>6, <1>8, <1>10, <1>11, <1>12, <1>13, <1>14 DEF PlaceInv, Apart

(* The reply of a client is its own; the others are not concerned.          *)
LEMMA PlaceTakeReply ==
  ASSUME PlaceInv, NEW c \in ProxyClient, TakeReply(c)
  PROVE  PlaceInv'
<1>1. /\ mail[c] # None /\ asked' = [asked EXCEPT ![c] = None] /\ mail' = [mail EXCEPT ![c] = None]
      /\ UNCHANGED <<inbox, pendingRequests, held, readyRequests>>
  BY DEF TakeReply, tableVars
<1>2. c \in DOMAIN asked /\ c \in DOMAIN mail /\ None.op # Ping /\ Tables' = Tables
  BY <1>1 DEF PlaceInv, Types, None, Ping, Tables
<1>3. Types'
  <2>1. asked' \in [ProxyClient -> Body \cup {None}] /\ mail' \in [ProxyClient -> Body \cup {None}]
    BY <1>1 DEF PlaceInv, Types
  <2>2. \A d \in ProxyClient : asked'[d].op = Ping => asked'[d].key = NoKey
    BY <1>1, <1>2 DEF PlaceInv, Types
  <2> QED BY <1>1, <1>2, <2>1, <2>2 DEF PlaceInv, Types
<1>4. ASSUME NEW t \in Message, Wanted(t) PROVE Wanted(t)'
  <2>1. t.from # c
    BY <1>1, <1>4 DEF Wanted
  <2> QED BY <1>1, <1>4, <2>1 DEF Wanted, PlaceInv, Types
<1>5. ASSUME NEW i \in DOMAIN inbox' PROVE Wanted(inbox[i])'
  <2>1. inbox[i] \in Message /\ Wanted(inbox[i]) /\ inbox'[i] = inbox[i]
    BY <1>1, <1>5 DEF PlaceInv, Types
  <2>2. PICK t \in Message : t = inbox[i]
    BY <2>1
  <2>3. Wanted(t)'
    BY <1>4, <2>1, <2>2
  <2> QED BY <2>1, <2>2, <2>3 DEF Wanted
<1>6. ASSUME NEW t \in Tables' PROVE Wanted(t)'
  BY <1>2, <1>4 DEF PlaceInv, Types
<1>7. \A d \in ProxyClient : mail'[d] # None => mail'[d] = asked'[d]
  BY <1>1, <1>2 DEF PlaceInv, Types
<1> QED BY <1>1, <1>2, <1>3, <1>5, <1>6, <1>7 DEF PlaceInv, Apart

(* The head of the inbox: nothing else of its client is under way.          *)
LEMMA HeadOfInbox ==
  ASSUME PlaceInv, inbox # <<>>, inbox' = Tail(inbox)
  PROVE  /\ Head(inbox) \in Message /\ Wanted(Head(inbox))
         /\ Head(inbox).from \in ProxyClient
         /\ inbox' \in Seq(Message)
         /\ \A i \in DOMAIN inbox' : /\ i + 1 \in DOMAIN inbox /\ inbox'[i] = inbox[i + 1]
                                     /\ inbox'[i] \in Message /\ Wanted(inbox[i + 1])
                                     /\ inbox'[i].from # Head(inbox).from
         /\ \A i, j \in DOMAIN inbox' : inbox'[i].from = inbox'[j].from => i = j
         /\ \A i \in DOMAIN inbox' : \A t \in Tables : inbox'[i].from # t.from
         /\ \A t \in Tables : t.from # Head(inbox).from
<1> DEFINE n == Len(inbox)
<1>1. inbox \in Seq(Message)
  BY DEF PlaceInv, Types
<1>2. /\ n \in Nat \ {0} /\ DOMAIN inbox = 1 .. n /\ 1 \in DOMAIN inbox
      /\ inbox' \in Seq(Message) /\ DOMAIN inbox' = 1 .. n - 1
      /\ \A i \in DOMAIN inbox' : i + 1 \in DOMAIN inbox /\ inbox'[i] = inbox[i + 1]
  BY <1>1
<1>3. Head(inbox) = inbox[1]
  BY <1>1
<1> HIDE DEF n
<1>4. \A i \in DOMAIN inbox' : i + 1 # 1
  BY <1>2
<1>5. \A i \in DOMAIN inbox' : inbox'[i] \in Message /\ inbox'[i].from # inbox[1].from
  BY <1>1, <1>2, <1>4 DEF PlaceInv
<1>6. \A i, j \in DOMAIN inbox' : i + 1 = j + 1 => i = j
  BY <1>2
<1>7. \A i, j \in DOMAIN inbox' : inbox'[i].from = inbox'[j].from => i = j
  BY <1>2, <1>6 DEF PlaceInv
<1>8. Head(inbox) \in Message /\ Head(inbox).from \in ProxyClient
  <2>1. inbox[1] \in Message
    BY <1>1, <1>2
  <2> QED BY <1>3, <2>1 DEF Message
<1> QED BY <1>2, <1>3, <1>5, <1>7, <1>8 DEF PlaceInv

(* What the steps that take a request out of the inbox or the tables and    *)
(* answer it have in common.                                                *)
LEMMA PlaceAnswered ==
  ASSUME PlaceInv, NEW c \in ProxyClient, NEW r \in Body,
         asked[c] = r, mail[c] = None, mail' = [mail EXCEPT ![c] = r],
         asked' = asked,
         pendingRequests' = pendingRequests, readyRequests' \subseteq readyRequests, held' = held,
         inbox' \in Seq(Message),
         \A i \in DOMAIN inbox' : /\ inbox'[i].from # c
                                  /\ \E j \in DOMAIN inbox : inbox'[i] = inbox[j],
         \A i, j \in DOMAIN inbox' : inbox'[i].from = inbox'[j].from => i = j,
         \A t \in Tables' : t.from # c
  PROVE  PlaceInv'
<1>1. c \in DOMAIN mail /\ Tables' \subseteq Tables
  BY DEF PlaceInv, Types, Tables
<1>2. Types'
  <2>1. mail' \in [ProxyClient -> Body \cup {None}]
    BY DEF PlaceInv, Types
  <2> QED BY <1>1, <2>1 DEF PlaceInv, Types
<1>3. ASSUME NEW t \in Message, Wanted(t), t.from # c PROVE Wanted(t)'
  BY <1>3 DEF Wanted, PlaceInv, Types
<1>4. ASSUME NEW i \in DOMAIN inbox' PROVE Wanted(inbox[i])' /\ \A t \in Tables' : inbox'[i].from # t.from
  <2>1. PICK j \in DOMAIN inbox : inbox'[i] = inbox[j]
    OBVIOUS
  <2>2. inbox[j] \in Message /\ Wanted(inbox[j]) /\ inbox'[i].from # c
    BY DEF PlaceInv, Types
  <2>3. PICK t \in Message : t = inbox[j]
    BY <2>2
  <2>4. Wanted(t)'
    BY <1>3, <2>1, <2>2, <2>3
  <2> QED BY <1>1, <2>1, <2>3, <2>4 DEF Wanted, PlaceInv
<1>5. ASSUME NEW t \in Tables' PROVE Wanted(t)'
  BY <1>1, <1>3 DEF PlaceInv, Types
<1>6. \A d \in ProxyClient : mail'[d] # None => mail'[d] = asked'[d]
  BY <1>1 DEF PlaceInv, Types
<1>7. Apart'
  BY DEF PlaceInv, Apart
<1>8. \A t, u \in Tables' : t.from = u.from => t = u
  BY <1>1 DEF PlaceInv
<1> QED BY <1>2, <1>4, <1>5, <1>6, <1>7, <1>8 DEF PlaceInv

LEMMA PlacePollPing ==
  ASSUME PlaceInv, PollPing
  PROVE  PlaceInv'
<1>1. PICK c \in ProxyClient : c = Head(inbox).from
  BY HeadOfInbox DEF PollPing
<1>2. PICK r \in Body : r = [op |-> Ping, key |-> NoKey]
  BY DEF Body
<1>3. /\ Head(inbox).op = Ping /\ inbox # <<>> /\ inbox' = Tail(inbox)
      /\ mail' = [mail EXCEPT ![c] = r]
      /\ UNCHANGED <<asked, pendingRequests, held, readyRequests>>
  BY <1>1, <1>2 DEF PollPing, tableVars
<1>4. asked[c] = [op |-> Ping, key |-> Head(inbox).key] /\ mail[c] = None
  BY <1>1, <1>3, HeadOfInbox DEF Wanted
<1>5. asked[c] = r
  BY <1>2, <1>4 DEF PlaceInv, Types
<1>6. \A t \in Tables' : t.from # c
  BY <1>1, <1>3, HeadOfInbox DEF Tables
<1>7. ASSUME NEW i \in DOMAIN inbox'
      PROVE  inbox'[i].from # c /\ \E j \in DOMAIN inbox : inbox'[i] = inbox[j]
  BY <1>1, <1>3, HeadOfInbox
<1>8. inbox' \in Seq(Message) /\ \A i, j \in DOMAIN inbox' : inbox'[i].from = inbox'[j].from => i = j
  BY <1>3, HeadOfInbox
<1> QED BY <1>3, <1>4, <1>5, <1>6, <1>7, <1>8, PlaceAnswered

LEMMA PlaceReply ==
  ASSUME PlaceInv, NEW t \in Tables, Reply(t)
  PROVE  PlaceInv'
<1>1. PICK c \in ProxyClient : c = t.from
  BY DEF PlaceInv, Types, Message
<1>2. PICK r : r = [op |-> t.op, key |-> t.key]
  OBVIOUS
<1>3. /\ mail' = [mail EXCEPT ![c] = r] /\ readyRequests' = readyRequests \ {t}
      /\ t \in readyRequests /\ UNCHANGED <<asked, inbox, pendingRequests, held>>
  BY <1>1, <1>2 DEF Reply
<1>4. asked[c] = r /\ mail[c] = None /\ r \in Body
  BY <1>1, <1>2 DEF PlaceInv, Wanted, Types, Message, Body
<1>5. \A u \in Tables' : u.from # c
  <2>1. \A u \in Tables' : u \in Tables /\ u # t
    BY <1>3 DEF Tables, PlaceInv, Apart
  <2> QED BY <1>1, <2>1 DEF PlaceInv
<1>6. \A i \in DOMAIN inbox' : inbox'[i].from # c /\ \E j \in DOMAIN inbox : inbox'[i] = inbox[j]
  BY <1>1, <1>3 DEF PlaceInv
<1>7. inbox' \in Seq(Message) /\ \A i, j \in DOMAIN inbox' : inbox'[i].from = inbox'[j].from => i = j
  BY <1>3 DEF PlaceInv, Types
<1> QED BY <1>3, <1>4, <1>5, <1>6, <1>7, PlaceAnswered

(* The request moves from the inbox to the table, which may forget another. *)
LEMMA PlacePollGet ==
  ASSUME PlaceInv, PollGet
  PROVE  PlaceInv'
<1>1. PICK h \in Message : h = Head(inbox)
  BY HeadOfInbox DEF PollGet
<1>2. /\ inbox # <<>> /\ inbox' = Tail(inbox) /\ pendingRequests' = Store(pendingRequests, h)
      /\ h.op # Ping
      /\ UNCHANGED <<asked, mail, held, readyRequests>>
  BY <1>1 DEF PollGet, clientVars
<1>3. /\ \A t \in Tables' : t \in Tables \/ t = h
      /\ \A t \in pendingRequests' : t \in pendingRequests \/ t = h
  BY <1>2 DEF Store, Tables
<1>4. Wanted(h) /\ \A t \in Tables : t.from # h.from
  BY <1>1, <1>2, HeadOfInbox
<1>5. Types'
  <2>1. Tables' \subseteq Message
    BY <1>3 DEF PlaceInv, Types
  <2>2. inbox' \in Seq(Message)
    BY <1>2, HeadOfInbox
  <2> QED BY <1>2, <2>1, <2>2 DEF PlaceInv, Types
<1>6. Apart'
  <2>1. h \notin readyRequests /\ h \notin held
    BY <1>4 DEF Tables
  <2> QED BY <1>2, <1>3, <2>1 DEF PlaceInv, Apart
<1>7. ASSUME NEW i \in DOMAIN inbox'
      PROVE  Wanted(inbox[i])' /\ \A t \in Tables' : inbox'[i].from # t.from
  <2>1. /\ inbox'[i] = inbox[i + 1] /\ Wanted(inbox[i + 1]) /\ inbox'[i].from # h.from
        /\ \A t \in Tables : inbox'[i].from # t.from
    BY <1>1, <1>2, HeadOfInbox
  <2> QED BY <1>2, <1>3, <2>1 DEF Wanted
<1>8. ASSUME NEW t \in Tables' PROVE Wanted(t)'
  BY <1>2, <1>3, <1>4 DEF PlaceInv, Wanted
<1>9. \A t, u \in Tables' : t.from = u.from => t = u
  BY <1>3, <1>4 DEF PlaceInv
<1>10. \A i, j \in DOMAIN inbox' : inbox'[i].from = inbox'[j].from => i = j
  BY <1>2, HeadOfInbox
<1>11. \A c \in ProxyClient : mail'[c] # None => mail'[c] = asked'[c]
  BY <1>2 DEF PlaceInv
<1> QED BY <1>5, <1>6, <1>7, <1>8, <1>9, <1>10, <1>11 DEF PlaceInv

LEMMA RemoveAtFacts ==
  ASSUME NEW S, NEW s \in Seq(S), NEW i \in DOMAIN s
  PROVE  /\ RemoveAt(s, i) \in Seq(S)
         /\ DOMAIN RemoveAt(s, i) = 1 .. Len(s) - 1
         /\ \A j \in DOMAIN RemoveAt(s, i) : RemoveAt(s, i)[j] = s[IF j < i THEN j ELSE j + 1]
<1> DEFINE a == SubSeq(s, 1, i - 1)
           b == SubSeq(s, i + 1, Len(s))
<1>1. i \in 1 .. Len(s) /\ Len(s) \in Nat
  OBVIOUS
<1>2. a \in Seq(S) /\ Len(a) = i - 1 /\ \A j \in 1 .. i - 1 : a[j] = s[j]
  BY <1>1
<1>3. b \in Seq(S) /\ Len(b) = Len(s) - i /\ \A j \in 1 .. Len(s) - i : b[j] = s[i + j]
  BY <1>1
<1> HIDE DEF a, b
<1>4. a \o b \in Seq(S) /\ Len(a \o b) = Len(s) - 1 /\ DOMAIN (a \o b) = 1 .. Len(s) - 1
  BY <1>1, <1>2, <1>3
<1>5. ASSUME NEW j \in 1 .. Len(s) - 1
      PROVE  (a \o b)[j] = s[IF j < i THEN j ELSE j + 1]
  <2>1. CASE j < i
    BY <1>1, <1>2, <1>3, <1>5, <2>1
  <2>2. CASE ~(j < i)
    <3>1. j - (i - 1) \in 1 .. Len(s) - i /\ i + (j - (i - 1)) = j + 1
      BY <1>1, <1>5, <2>2
    <3>2. (a \o b)[j] = b[j - (i - 1)]
      BY <1>1, <1>2, <1>3, <1>5, <2>2
    <3> QED BY <1>3, <2>2, <3>1, <3>2
  <2> QED BY <2>1, <2>2
<1>6. RemoveAt(s, i) = a \o b
  BY DEF RemoveAt, a, b
<1> QED BY <1>4, <1>5, <1>6

(* The answer's request, if it is there, moves from one table ...           *)
LEMMA PlaceCallback ==
  ASSUME PlaceInv, NEW i \in DOMAIN atDrive, Callback(i)
  PROVE  PlaceInv'
<1>1. UNCHANGED <<asked, mail, inbox, readyRequests>>
      /\ held' \subseteq pendingRequests /\ pendingRequests' = pendingRequests \ held'
  BY DEF Callback, clientVars
<1>2. Tables' \subseteq Tables /\ Apart'
  BY <1>1 DEF Tables, PlaceInv, Apart
<1> QED BY <1>1, <1>2, PlacesShrink

(* ... to the other, unless another one of its key is there.                *)
LEMMA PlaceStores ==
  ASSUME PlaceInv, CallbackStores
  PROVE  PlaceInv'
<1>1. PICK t \in held : readyRequests' = Store(readyRequests, t)
  BY DEF CallbackStores
<1>2. UNCHANGED <<asked, mail, inbox, pendingRequests>> /\ held' = {}
  BY DEF CallbackStores, clientVars
<1>3. Tables' \subseteq Tables /\ Apart'
  BY <1>1, <1>2 DEF Tables, Store, PlaceInv, Apart
<1> QED BY <1>2, <1>3, PlacesShrink

LEMMA PlaceNext ==
  ASSUME PlaceInv, [Next]_vars
  PROVE  PlaceInv'
<1>1. ASSUME UNCHANGED <<asked, mail, inbox, pendingRequests, held, readyRequests>>
      PROVE  PlaceInv'
  BY <1>1, PlacesShrink DEF Tables, PlaceInv, Apart
<1>3. ASSUME NEW c \in ProxyClient, Asking(c) PROVE PlaceInv'
  <2>1. ASSUME NEW op \in {Get, GetSmart}, NEW k \in Key, Ask(c, [op |-> op, key |-> k])
        PROVE  PlaceInv'
    <3>1. PICK b \in Body : b = [op |-> op, key |-> k]
      BY DEF Body
    <3>2. b.op # Ping /\ Ask(c, b)
      BY <2>1, <3>1 DEF Get, GetSmart, Ping
    <3> QED BY <3>2, PlaceAsk
  <2>2. ASSUME Ask(c, [op |-> Ping, key |-> NoKey]) PROVE PlaceInv'
    <3>1. PICK b \in Body : b = [op |-> Ping, key |-> NoKey]
      BY DEF Body
    <3>2. b.key = NoKey /\ Ask(c, b)
      BY <2>2, <3>1
    <3> QED BY <3>2, PlaceAsk
  <2> QED BY <1>3, <2>1, <2>2 DEF Asking
<1>4. ASSUME NEW c \in ProxyClient, ReplyTo(c) PROVE PlaceInv'
  BY <1>4, PlaceReply DEF ReplyTo, Tables
<1>5. CASE Server
  <2>1. CASE PollNothing \/ ReplyNothing \/ Issue
    BY <1>1, <2>1 DEF PollNothing, ReplyNothing, Issue, clientVars, tableVars
  <2> QED BY <1>5, <2>1, PlacePollPing, PlacePollGet DEF Server
<1>6. CASE IssueFails \/ ErrorReport \/ Release
  BY <1>1, <1>6 DEF IssueFails, ErrorReport, Release, clientVars, tableVars
<1>7. CASE UNCHANGED vars
  BY <1>1, <1>7 DEF vars, clientVars, tableVars
<1> QED
  BY <1>3, <1>4, <1>5, <1>6, <1>7, PlaceTakeReply, PlaceCallback, PlaceStores DEF Next, Listener

(* proxy_server.py:104: whatever collides or fails, a client is only ever    *)
(* sent the reply to what it is waiting for.                                *)
THEOREM OnlyOwnReplies == Spec => []RepliesWanted
<1>1. PlaceInv => RepliesWanted
  BY DEF PlaceInv, RepliesWanted
<1> QED BY <1>1, PlaceInit, PlaceNext, PTL DEF Spec

-----------------------------------------------------------------------------
(* While no key is asked for twice.                                         *)

Placed(c) ==
  \/ mail[c] # None
  \/ \E i \in DOMAIN inbox : inbox[i].from = c
  \/ \E t \in Tables : t.from = c

(* Each key is in the tables once; the drive has only recorded ones, each   *)
(* once, and not the one that the loop is about to send.                    *)
KeyInv ==
  /\ listener \in {"recv", "insert", "release"}
  /\ IF listener = "insert" THEN \E t \in held : held = {t} ELSE held = {}
  /\ atDrive \in Seq(Key \cup {NoKey})
  /\ \A t, u \in Tables : t.key = u.key => t = u
  /\ \A i \in DOMAIN atDrive : \E t \in pendingRequests : t.key = atDrive[i]
  /\ \A i, j \in DOMAIN atDrive : atDrive[i] = atDrive[j] => i = j
  /\ server = "issue" => /\ request \in pendingRequests
                         /\ \A i \in DOMAIN atDrive : atDrive[i] # request.key
  /\ \A c \in ProxyClient : asked[c] # None => Placed(c)

NoUpset == ~upset => KeyInv

LEMMA KeyInit == Init => NoUpset
<1> SUFFICES ASSUME Init PROVE KeyInv
  BY DEF NoUpset
<1>1. /\ atDrive = <<>> /\ Tables = {} /\ DOMAIN atDrive = {} /\ listener = "recv" /\ held = {} /\ server = "poll"
      /\ asked = [c \in ProxyClient |-> None]
  BY DEF Init, Tables
<1> QED BY <1>1 DEF KeyInv

(* A step that does not touch the kv_client or the requests it works on.    *)
LEMMA KeysKept ==
  ASSUME KeyInv, UNCHANGED <<pendingRequests, held, atDrive, listener>>,
         readyRequests' \subseteq readyRequests,
         server' = "issue" => server = "issue" /\ request' = request,
         \A c \in ProxyClient : asked'[c] # None => Placed(c)'
  PROVE  KeyInv'
<1>1. Tables' \subseteq Tables
  BY DEF Tables
<1> QED BY <1>1 DEF KeyInv

LEMMA KeyPollGet ==
  ASSUME PlaceInv, KeyInv, PollGet, ~upset'
  PROVE  KeyInv'
<1>1. PICK h \in Message : h = Head(inbox)
  BY HeadOfInbox DEF PollGet
<1>2. /\ inbox # <<>> /\ inbox' = Tail(inbox) /\ pendingRequests' = Store(pendingRequests, h)
      /\ request' = h /\ server' = "issue"
      /\ UNCHANGED <<asked, mail, held, readyRequests, atDrive, listener>>
      /\ ~InUse(h.key)
  BY <1>1 DEF PollGet, clientVars, driveVars
<1>3. \A t \in Tables : t.key # h.key
  BY <1>2 DEF InUse, Tables
<1>4. pendingRequests' = pendingRequests \cup {h} /\ Tables' = Tables \cup {h}
  BY <1>2, <1>3 DEF Store, Tables
<1>5. \A t, u \in Tables' : t.key = u.key => t = u
  BY <1>3, <1>4 DEF KeyInv
<1>6. \A i \in DOMAIN atDrive : atDrive[i] # h.key
  BY <1>3 DEF KeyInv, Tables
<1>7. ASSUME NEW c \in ProxyClient, asked'[c] # None PROVE Placed(c)'
  <2>1. CASE \E i \in DOMAIN inbox : inbox[i].from = c
    <3>1. PICK i \in DOMAIN inbox : inbox[i].from = c
      BY <2>1
    <3>2. inbox \in Seq(Message)
      BY DEF PlaceInv, Types
    <3>3. CASE i = 1
      BY <1>1, <1>2, <1>4, <3>1, <3>2, <3>3 DEF Placed
    <3>4. CASE i # 1
      <4>1. i - 1 \in DOMAIN inbox' /\ inbox'[i - 1] = inbox[i]
        BY <1>2, <3>1, <3>2, <3>4
      <4> QED BY <3>1, <4>1 DEF Placed
    <3> QED BY <3>3, <3>4
  <2>2. CASE mail[c] # None \/ \E t \in Tables : t.from = c
    BY <1>2, <1>4, <2>2 DEF Placed
  <2> QED BY <1>2, <1>7, <2>1, <2>2 DEF KeyInv, Placed
<1> QED BY <1>2, <1>4, <1>5, <1>6, <1>7 DEF KeyInv

(* The key joins the ones at the drive: it was not among them.              *)
LEMMA KeyIssue ==
  ASSUME PlaceInv, KeyInv, Issue
  PROVE  KeyInv'
<1> DEFINE n == Len(atDrive)
<1>1. PICK k : k = request.key
  OBVIOUS
<1>2. /\ atDrive' = Append(atDrive, k) /\ server' = "reply" /\ server = "issue"
      /\ UNCHANGED <<asked, mail, inbox, pendingRequests, held, readyRequests, listener>>
  BY <1>1 DEF Issue, clientVars, tableVars
<1>3. request \in Message /\ k \in Key \cup {NoKey} /\ \A i \in DOMAIN atDrive : atDrive[i] # k
  BY <1>1, <1>2 DEF KeyInv, PlaceInv, Types, Tables, Message
<1>4. /\ n \in Nat /\ DOMAIN atDrive = 1 .. n /\ DOMAIN atDrive' = 1 .. n + 1
      /\ atDrive'[n + 1] = k /\ \A i \in 1 .. n : atDrive'[i] = atDrive[i]
      /\ atDrive' \in Seq(Key \cup {NoKey})
  BY <1>2, <1>3 DEF KeyInv
<1> HIDE DEF n
<1>5. ASSUME NEW i \in DOMAIN atDrive' PROVE \E t \in pendingRequests' : t.key = atDrive'[i]
  BY <1>1, <1>2, <1>4, <1>5 DEF KeyInv
<1>6. ASSUME NEW i \in DOMAIN atDrive', NEW j \in DOMAIN atDrive', atDrive'[i] = atDrive'[j]
      PROVE  i = j
  BY <1>3, <1>4, <1>6 DEF KeyInv
<1>7. Tables' = Tables
  BY <1>2 DEF Tables
<1>8. \A c \in ProxyClient : asked'[c] # None => Placed(c)'
  BY <1>2, <1>7 DEF KeyInv, Placed
<1> QED BY <1>2, <1>4, <1>5, <1>6, <1>7, <1>8 DEF KeyInv

LEMMA KeyCallback ==
  ASSUME PlaceInv, KeyInv, NEW i \in DOMAIN atDrive, Callback(i)
  PROVE  KeyInv'
<1>0. PICK k : k = atDrive[i]
  OBVIOUS
<1>1. PICK t \in pendingRequests : t.key = k
  BY <1>0 DEF KeyInv
<1>2. {u \in pendingRequests : u.key = k} = {t}
  BY <1>1 DEF KeyInv, Tables
<1>3. /\ atDrive' = RemoveAt(atDrive, i) /\ UNCHANGED <<asked, mail, inbox, server, request>>
      /\ pendingRequests' = pendingRequests \ {t} /\ held' = {t}
      /\ readyRequests' = readyRequests /\ listener = "recv" /\ listener' = "insert"
  BY <1>0, <1>2 DEF Callback, clientVars
<1>4. Tables' = Tables
  BY <1>1, <1>3 DEF Tables, KeyInv
<1> DEFINE skip(j) == IF j < i THEN j ELSE j + 1
<1>5. /\ atDrive' \in Seq(Key \cup {NoKey})
      /\ \A j \in DOMAIN atDrive' : /\ skip(j) \in DOMAIN atDrive /\ skip(j) # i
                                    /\ atDrive'[j] = atDrive[skip(j)]
  <2>1. /\ atDrive' \in Seq(Key \cup {NoKey}) /\ DOMAIN atDrive' = 1 .. Len(atDrive) - 1
        /\ \A j \in DOMAIN atDrive' : atDrive'[j] = atDrive[skip(j)]
    BY <1>3, RemoveAtFacts DEF KeyInv
  <2>2. Len(atDrive) \in Nat /\ DOMAIN atDrive = 1 .. Len(atDrive)
    BY DEF KeyInv
  <2>3. \A j \in DOMAIN atDrive' : skip(j) \in DOMAIN atDrive /\ skip(j) # i
    BY <2>1, <2>2
  <2> QED BY <2>1, <2>3
<1>6. \A j, l \in DOMAIN atDrive' : skip(j) = skip(l) => j = l
  <2>1. DOMAIN atDrive' \subseteq Int /\ i \in Int
    BY <1>5 DEF KeyInv
  <2> QED BY <2>1
<1> HIDE DEF skip
<1>7. ASSUME NEW j \in DOMAIN atDrive'
      PROVE  atDrive'[j] # k /\ \E u \in pendingRequests' : u.key = atDrive'[j]
  <2>1. atDrive'[j] = atDrive[skip(j)] /\ atDrive[skip(j)] # k
    BY <1>0, <1>5 DEF KeyInv
  <2>2. PICK u \in pendingRequests : u.key = atDrive[skip(j)]
    BY <1>5 DEF KeyInv
  <2>3. u \in pendingRequests'
    BY <1>1, <1>3, <2>1, <2>2
  <2> QED BY <2>1, <2>2, <2>3
<1>8. \A j, l \in DOMAIN atDrive' : atDrive'[j] = atDrive'[l] => j = l
  BY <1>5, <1>6 DEF KeyInv
<1>9. server' = "issue" => /\ request' \in pendingRequests'
                           /\ \A j \in DOMAIN atDrive' : atDrive'[j] # request'.key
  BY <1>0, <1>1, <1>3, <1>5 DEF KeyInv
<1>10. \A c \in ProxyClient : asked'[c] # None => Placed(c)'
  BY <1>3, <1>4 DEF KeyInv, Placed
<1> QED BY <1>3, <1>4, <1>5, <1>7, <1>8, <1>9, <1>10 DEF KeyInv

LEMMA KeyStores ==
  ASSUME PlaceInv, KeyInv, CallbackStores
  PROVE  KeyInv'
<1>1. PICK t \in held : readyRequests' = Store(readyRequests, t)
  BY DEF CallbackStores
<1>2. /\ UNCHANGED <<asked, mail, inbox, server, request, pendingRequests, atDrive>>
      /\ held = {t} /\ held' = {} /\ listener' = "release"
  BY <1>1 DEF CallbackStores, clientVars, KeyInv
<1>3. Tables' = Tables
  <2>1. \A u \in readyRequests : u.key # t.key
    BY <1>1 DEF KeyInv, Tables, PlaceInv, Apart
  <2>2. readyRequests' = readyRequests \cup {t}
    BY <1>1, <2>1 DEF Store
  <2> QED BY <1>2, <2>2 DEF Tables
<1>4. \A c \in ProxyClient : asked'[c] # None => Placed(c)'
  BY <1>2, <1>3 DEF KeyInv, Placed
<1> QED BY <1>2, <1>3, <1>4 DEF KeyInv

(* A waiting client stays in its place when others come and go.             *)
LEMMA PlaceStays ==
  ASSUME PlaceInv, KeyInv, NEW c \in ProxyClient, asked[c] # None,
         mail'[c] = mail[c], Tables' = Tables,
         \A i \in DOMAIN inbox : inbox[i].from = c => \E j \in DOMAIN inbox' : inbox'[j] = inbox[i]
  PROVE  Placed(c)'
BY DEF KeyInv, Placed

LEMMA KeyAsk ==
  ASSUME PlaceInv, KeyInv, NEW c \in ProxyClient, NEW body, Ask(c, body)
  PROVE  KeyInv'
<1>1. PICK m : m = [from |-> c, op |-> body.op, key |-> body.key]
  OBVIOUS
<1>2. /\ asked' = [asked EXCEPT ![c] = body] /\ inbox' = Append(inbox, m) /\ m.from = c
      /\ UNCHANGED <<mail, server, request, pendingRequests, held, readyRequests, atDrive, listener>>
  BY <1>1 DEF Ask, tableVars, driveVars
<1>3. /\ Len(inbox) + 1 \in DOMAIN inbox' /\ inbox'[Len(inbox) + 1] = m
      /\ \A i \in DOMAIN inbox : i \in DOMAIN inbox' /\ inbox'[i] = inbox[i]
  BY <1>2 DEF PlaceInv, Types
<1>4. ASSUME NEW d \in ProxyClient, asked'[d] # None PROVE Placed(d)'
  <2>1. CASE d = c
    BY <1>2, <1>3, <2>1 DEF Placed
  <2>2. CASE d # c
    <3>1. asked[d] # None /\ mail'[d] = mail[d] /\ Tables' = Tables
      BY <1>2, <1>4, <2>2 DEF PlaceInv, Types, Tables
    <3> QED BY <1>3, <3>1, PlaceStays
  <2> QED BY <2>1, <2>2
<1> QED BY <1>2, <1>4, KeysKept

LEMMA KeyTakeReply ==
  ASSUME PlaceInv, KeyInv, NEW c \in ProxyClient, TakeReply(c)
  PROVE  KeyInv'
<1>1. /\ asked' = [asked EXCEPT ![c] = None] /\ mail' = [mail EXCEPT ![c] = None]
      /\ UNCHANGED <<inbox, server, request, pendingRequests, held, readyRequests, atDrive, listener>>
  BY DEF TakeReply, tableVars, driveVars
<1>2. ASSUME NEW d \in ProxyClient, asked'[d] # None PROVE Placed(d)'
  <2>1. d # c /\ asked[d] # None /\ mail'[d] = mail[d] /\ Tables' = Tables
    BY <1>1, <1>2 DEF PlaceInv, Types, Tables
  <2> QED BY <1>1, <2>1, PlaceStays
<1> QED BY <1>1, <1>2, KeysKept

LEMMA KeyPollPing ==
  ASSUME PlaceInv, KeyInv, PollPing
  PROVE  KeyInv'
<1>1. PICK r : r = [op |-> Ping, key |-> NoKey]
  OBVIOUS
<1>2. PICK c \in ProxyClient : c = Head(inbox).from
  BY HeadOfInbox DEF PollPing
<1>3. /\ inbox # <<>> /\ inbox' = Tail(inbox) /\ server' = "reply"
      /\ mail' = [mail EXCEPT ![c] = r]
      /\ UNCHANGED <<asked, request, pendingRequests, held, readyRequests, atDrive, listener>>
  BY <1>1, <1>2 DEF PollPing, tableVars, driveVars
<1>4. r # None /\ c \in DOMAIN mail
  BY <1>1, NoneIsNoBody DEF PlaceInv, Types
<1>5. ASSUME NEW d \in ProxyClient, asked'[d] # None PROVE Placed(d)'
  <2>1. CASE d = c
    BY <1>3, <1>4, <2>1 DEF Placed
  <2>2. CASE d # c
    <3>1. mail'[d] = mail[d] /\ Tables' = Tables
      BY <1>3, <2>2 DEF PlaceInv, Types, Tables
    <3>2. ASSUME NEW i \in DOMAIN inbox, inbox[i].from = d
          PROVE  \E j \in DOMAIN inbox' : inbox'[j] = inbox[i]
      <4>1. inbox \in Seq(Message)
        BY DEF PlaceInv, Types
      <4>2. i # 1
        BY <1>2, <1>3, <2>2, <3>2, <4>1
      <4>3. i - 1 \in DOMAIN inbox' /\ inbox'[i - 1] = inbox[i]
        BY <1>3, <4>1, <4>2
      <4> QED BY <4>3
    <3> QED BY <1>3, <1>5, <3>1, <3>2, PlaceStays
  <2> QED BY <2>1, <2>2
<1> QED BY <1>3, <1>5, KeysKept

LEMMA KeyReply ==
  ASSUME PlaceInv, KeyInv, NEW t \in Tables, Reply(t)
  PROVE  KeyInv'
<1>1. PICK c \in ProxyClient : c = t.from
  BY DEF PlaceInv, Types, Message
<1>2. PICK r : r = [op |-> t.op, key |-> t.key]
  OBVIOUS
<1>3. /\ mail' = [mail EXCEPT ![c] = r] /\ readyRequests' = readyRequests \ {t} /\ server' = "poll"
      /\ UNCHANGED <<asked, inbox, request, pendingRequests, held, atDrive, listener>>
  BY <1>1, <1>2 DEF Reply, driveVars
<1>4. r # None /\ c \in DOMAIN mail
  BY <1>2, NoneIsNoBody DEF PlaceInv, Types, Message
<1>5. ASSUME NEW d \in ProxyClient, asked'[d] # None PROVE Placed(d)'
  <2>1. CASE d = c
    BY <1>3, <1>4, <2>1 DEF Placed
  <2>2. CASE d # c
    <3>1. mail'[d] = mail[d] /\ \A u \in Tables : u.from = d => u \in Tables'
      BY <1>1, <1>3, <2>2 DEF PlaceInv, Types, Tables
    <3>2. Placed(d)
      BY <1>3, <1>5 DEF KeyInv
    <3> QED BY <1>3, <3>1, <3>2 DEF Placed
  <2> QED BY <2>1, <2>2
<1> QED BY <1>3, <1>5, KeysKept

LEMMA KeyNext ==
  ASSUME PlaceInv, NoUpset, [Next]_vars
  PROVE  NoUpset'
<1> SUFFICES ASSUME ~upset' PROVE KeyInv'
  BY DEF NoUpset
<1>1. ~upset
  BY DEF Next, Asking, Ask, TakeReply, ReplyTo, Reply, Server, PollNothing, PollPing, PollGet, Issue,
         ReplyNothing, Callback, Listener, CallbackStores, Release, IssueFails, ErrorReport, vars
<1>2. KeyInv
  BY <1>1 DEF NoUpset
<1>3. ASSUME UNCHANGED <<asked, mail, inbox, pendingRequests, held, readyRequests, atDrive, listener>>,
             server' = "issue" => server = "issue" /\ request' = request
      PROVE  KeyInv'
  <2>1. ASSUME NEW c \in ProxyClient, asked'[c] # None PROVE Placed(c)'
    <3>1. Tables' = Tables
      BY <1>3 DEF Tables
    <3> QED BY <1>2, <1>3, <2>1, <3>1, PlaceStays
  <2> QED BY <1>2, <1>3, <2>1, KeysKept
<1>4. ASSUME NEW c \in ProxyClient, Asking(c) \/ TakeReply(c) \/ ReplyTo(c) PROVE KeyInv'
  BY <1>2, <1>4, KeyAsk, KeyTakeReply, KeyReply DEF Asking, ReplyTo, Tables
<1>5. CASE Server
  <2>1. CASE PollNothing \/ ReplyNothing
    BY <1>3, <2>1 DEF PollNothing, ReplyNothing, clientVars, tableVars, driveVars
  <2> QED BY <1>2, <1>5, <2>1, KeyPollPing, KeyPollGet, KeyIssue DEF Server
<1>6. ~IssueFails /\ ~ErrorReport
  BY DEF IssueFails, ErrorReport
<1>7. CASE UNCHANGED vars
  BY <1>3, <1>7 DEF vars, clientVars, tableVars, driveVars
<1>8. CASE Release
  <2>1. /\ UNCHANGED <<asked, mail, inbox, server, request, pendingRequests, held, readyRequests, atDrive>>
        /\ listener = "release" /\ listener' = "recv"
    BY <1>8 DEF Release, clientVars, tableVars
  <2>2. Tables' = Tables
    BY <2>1 DEF Tables
  <2>3. \A c \in ProxyClient : asked'[c] # None => Placed(c)'
    BY <1>2, <2>1, <2>2 DEF KeyInv, Placed
  <2> QED BY <1>2, <2>1, <2>2, <2>3 DEF KeyInv
<1> QED
  BY <1>2, <1>4, <1>5, <1>6, <1>7, <1>8, KeyCallback, KeyStores DEF Next, Listener

(* proxy_server.py:56, "no collision": as long as that holds, the callback  *)
(* finds the request of every answer in pending_requests.                   *)
THEOREM CallbacksFind == Spec => []CallbackFinds
<1>1. NoUpset => CallbackFinds
  <2> SUFFICES ASSUME KeyInv
               PROVE  \A i \in DOMAIN atDrive :
                        Cardinality({t \in pendingRequests : t.key = atDrive[i]}) = 1
    BY DEF NoUpset, CallbackFinds, KeyInv
  <2> SUFFICES ASSUME NEW i \in DOMAIN atDrive
               PROVE  Cardinality({t \in pendingRequests : t.key = atDrive[i]}) = 1
    OBVIOUS
  <2>1. PICK t \in pendingRequests : t.key = atDrive[i]
    BY DEF KeyInv
  <2>2. {u \in pendingRequests : u.key = atDrive[i]} = {t}
    BY <2>1 DEF KeyInv, Tables
  <2> QED BY <2>2, FS_Singleton
<1> QED BY <1>1, PlaceInit, PlaceNext, KeyInit, KeyNext, PTL DEF Spec

(* And no request is forgotten or doubled: a client that waits is in        *)
(* exactly one place, any other in none.                                    *)
THEOREM InOnePlace == Spec => []OnePlaceEach
<1>1. PlaceInv /\ NoUpset => OnePlaceEach
  <2> SUFFICES ASSUME PlaceInv, NoUpset, ~upset, NEW c \in ProxyClient
               PROVE  Places(c) = IF asked[c] = None THEN 0 ELSE 1
    BY DEF OnePlaceEach
  <2> DEFINE A == \E i \in DOMAIN inbox : inbox[i].from = c
             B == \E t \in pendingRequests : t.from = c
             C == \E t \in readyRequests : t.from = c
             H == \E t \in held : t.from = c
             D == mail[c] # None
  <2>1. A => ~B /\ ~H /\ ~C /\ ~D
    <3>1. \A t \in pendingRequests \cup held \cup readyRequests : t \in Tables
      BY DEF Tables
    <3>2. A => ~B /\ ~H /\ ~C
      BY <3>1 DEF PlaceInv
    <3>3. ASSUME NEW i \in DOMAIN inbox, inbox[i].from = c PROVE ~D
      <4>1. Wanted(inbox[i])
        BY DEF PlaceInv
      <4> QED BY <3>3, <4>1 DEF Wanted
    <3> QED BY <3>2, <3>3
  <2>2. B => ~H /\ ~C /\ ~D
    <3>1. \A t \in pendingRequests : t \in Tables /\ t \notin readyRequests /\ t \notin held
      BY DEF PlaceInv, Apart, Tables
    <3>2. \A t \in readyRequests \cup held : t \in Tables
      BY DEF Tables
    <3>3. B => ~H /\ ~C
      BY <3>1, <3>2 DEF PlaceInv
    <3>4. B => ~D
      BY <3>1 DEF PlaceInv, Wanted
    <3> QED BY <3>3, <3>4
  <2>3. (C => ~D) /\ (H => ~C /\ ~D)
    <3>1. \A t \in held : t \in Tables /\ t \notin readyRequests
      BY DEF PlaceInv, Apart, Tables
    <3>2. \A t \in readyRequests : t \in Tables
      BY DEF Tables
    <3>3. H => ~C
      BY <3>1, <3>2 DEF PlaceInv
    <3>4. H => ~D
      BY <3>1 DEF PlaceInv, Wanted
    <3>5. C => ~D
      BY <3>2 DEF PlaceInv, Wanted
    <3> QED BY <3>3, <3>4, <3>5
  <2>4. asked[c] # None => A \/ B \/ H \/ C \/ D
    BY DEF NoUpset, KeyInv, Placed, Tables
  <2>5. asked[c] = None => ~A /\ ~B /\ ~H /\ ~C /\ ~D
    <3>1. ASSUME NEW t \in Message, Wanted(t) PROVE asked[t.from] # None
      BY <3>1, NoneIsNoBody DEF Wanted, Message
    <3>2. \A i \in DOMAIN inbox : inbox[i] \in Message /\ Wanted(inbox[i])
      BY DEF PlaceInv, Types
    <3> QED BY <3>1, <3>2 DEF PlaceInv, Types, Tables
  <2> HIDE DEF A, B, H, C, D
  <2>6. LET n(b) == IF b THEN 1 ELSE 0
        IN  n(A) + n(B) + n(H) + n(C) + n(D) = IF asked[c] = None THEN 0 ELSE 1
    BY <2>1, <2>2, <2>3, <2>4, <2>5
  <2> QED BY <2>6 DEF Places, A, B, H, C, D
<1> QED BY <1>1, PlaceInit, PlaceNext, KeyInit, KeyNext, PTL DEF Spec
=============================================================================
