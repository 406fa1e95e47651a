---------------------------- MODULE PubSubProofs ----------------------------
(***************************************************************************)
(* What publish/subscribe and the event loop promise for any number of     *)
(* connections, any names and patterns, any pipelines of commands and any  *)
(* room in the sockets.                                                    *)
(***************************************************************************)
EXTENDS PubSub, WellFoundedInduction, TLAPS

(* The time that a leaf may take.                                           *)
USE SMTT(40), ZenonT(40), Z3T(40)

(***************************************************************************)
(* Types, and the inductive invariant as a predicate of a server record.   *)
(***************************************************************************)
Frames == {"reply", "message"}

Clients ==
  [open : BOOLEAN, subs : [Kinds -> SUBSET Names], proto : {2, 3},
   inMulti : BOOLEAN, multiError : BOOLEAN, queue : Seq(Commands),
   shouldClose : BOOLEAN, out : Seq(Frames), sent : Nat]

Servers ==
  [client : [Fds -> Clients],
   registry : [Kinds -> UNION {[names -> SUBSET Fds] : names \in SUBSET Names}],
   interest : [Fds -> SUBSET {"Read", "Write"}],
   selfPending : Seq(Frames), executing : Fds \cup {NoOne}, early : BOOLEAN,
   wire : [Fds -> Seq(Frames)], owed : [Fds -> Seq(Frames)]]

(* What the registry has to say of these clients.                           *)
Holders(client, k, n) == {fd \in Fds : client[fd].open /\ n \in client[fd].subs[k]}
Mirror(client, k) ==
  [n \in {m \in Names : Holders(client, k, m) # {}} |-> Holders(client, k, n)]

(* A client whose socket has taken w and whose peer is owed o: the stream   *)
(* is intact, and a RESP2 subscriber is not in a transaction.               *)
Sane(c, w, o) ==
  /\ c.sent <= Len(c.out) /\ Len(w) <= Room
  /\ o = w \o Unsent(c)
  /\ ~c.open => w = <<>> /\ o = <<>>
  /\ c.inMulti => c.proto # 2 \/ \A k \in Kinds : c.subs[k] = {}

(* The loop is asked for writability when output waits.                     *)
Asks(c, interest) ==
  c.open => interest # {} /\ (c.sent < Len(c.out) => "Write" \in interest)

(* The whole server, but that the loop may still have to be asked for some. *)
Good(S, served) ==
  /\ S \in Servers /\ S.early = FALSE
  /\ \A k \in Kinds : S.registry[k] = Mirror(S.client, k)
  /\ \A fd \in Fds : /\ Sane(S.client[fd], S.wire[fd], S.owed[fd])
                     /\ S.client[fd].open => S.interest[fd] # {}
                     /\ fd \notin served => Asks(S.client[fd], S.interest[fd])

(* Between two events no handler runs and nothing is parked.                *)
Idle(S) == S.executing = NoOne /\ S.selfPending = <<>>
IInv == Good(server, {}) /\ Idle(server)

(* A handler runs for fd, and has only replied since its output had b       *)
(* frames.                                                                  *)
Replied(out, b) == b <= Len(out) /\ \A i \in b + 1 .. Len(out) : out[i] = "reply"

Runs(S, fd, b) ==
  /\ Good(S, {fd})
  /\ S.executing = fd /\ S.client[fd].open
  /\ Replied(S.client[fd].out, b)

(***************************************************************************)
(* Changes that leave the registry alone.                                  *)
(***************************************************************************)

(* What the registry has to say depends on who is open and holds what.      *)
LEMMA MirrorStays ==
  ASSUME NEW a, NEW b, \A fd \in Fds : a[fd].open = b[fd].open /\ a[fd].subs = b[fd].subs,
         NEW k \in Kinds
  PROVE  Mirror(a, k) = Mirror(b, k)
<1>1. \A n \in Names : Holders(a, k, n) = Holders(b, k, n)
  BY DEF Holders
<1> QED
  BY <1>1 DEF Mirror

(* A handler changes a setting or the transaction of its client.            *)
WithClient(S, fd, c) == [S EXCEPT !.client[fd] = c]

LEMMA ClientChanges ==
  ASSUME NEW S, NEW x, Good(S, x), NEW fd \in Fds, NEW c \in Clients,
         c.open = S.client[fd].open, c.subs = S.client[fd].subs,
         c.out = S.client[fd].out, c.sent = S.client[fd].sent,
         c.inMulti => c.proto # 2 \/ \A k \in Kinds : c.subs[k] = {}
  PROVE  LET T == WithClient(S, fd, c)
         IN  /\ Good(T, x) /\ T.executing = S.executing /\ T.selfPending = S.selfPending
             /\ T.client[fd] = c
<1> DEFINE T == WithClient(S, fd, c)
<1>1. S \in Servers /\ S.client \in [Fds -> Clients]
  BY DEF Good, Servers
<1>2. T = [S EXCEPT !.client = [S.client EXCEPT ![fd] = c]] /\ [S.client EXCEPT ![fd] = c] \in [Fds -> Clients]
  BY <1>1 DEF WithClient
<1>3. T \in Servers
  BY <1>1, <1>2, ZenonT(40) DEF Servers
<1>4. /\ T.early = S.early /\ T.registry = S.registry /\ T.interest = S.interest
      /\ T.wire = S.wire /\ T.owed = S.owed
      /\ T.executing = S.executing /\ T.selfPending = S.selfPending
      /\ T.client[fd] = c /\ \A g \in Fds \ {fd} : T.client[g] = S.client[g]
  BY <1>1, <1>2 DEF Servers
<1> HIDE DEF T
<1>5. \A g \in Fds : T.client[g].open = S.client[g].open /\ T.client[g].subs = S.client[g].subs
  BY <1>4
<1>6. \A k \in Kinds : Mirror(T.client, k) = Mirror(S.client, k)
  BY <1>5, MirrorStays, ZenonT(40)
<1>7. Sane(S.client[fd], S.wire[fd], S.owed[fd])
  BY DEF Good
<1>8. Sane(c, S.wire[fd], S.owed[fd])
  BY <1>7 DEF Sane, Unsent
<1>9. Asks(c, S.interest[fd]) <=> Asks(S.client[fd], S.interest[fd])
  BY DEF Asks
<1> QED
  BY <1>3, <1>4, <1>6, <1>8, <1>9 DEF Good, T

(***************************************************************************)
(* Streams.                                                                *)
(***************************************************************************)

(* Sequences that agree at every place are the same.                        *)
LEMMA SameSeq ==
  ASSUME NEW s \in Seq(Frames), NEW t \in Seq(Frames), Len(s) = Len(t),
         \A i \in 1 .. Len(s) : s[i] = t[i]
  PROVE  s = t
OBVIOUS

(* What is left of a sequence behind its first n elements.                  *)
LEMMA Rest ==
  ASSUME NEW s \in Seq(Frames), NEW n \in 0 .. Len(s)
  PROVE  /\ SubSeq(s, n + 1, Len(s)) \in Seq(Frames)
         /\ Len(SubSeq(s, n + 1, Len(s))) = Len(s) - n
         /\ \A i \in 1 .. Len(s) - n : SubSeq(s, n + 1, Len(s))[i] = s[n + i]
OBVIOUS

(* Two sequences, one behind the other.                                     *)
LEMMA Joined ==
  ASSUME NEW s \in Seq(Frames), NEW t \in Seq(Frames)
  PROVE  /\ s \o t \in Seq(Frames) /\ Len(s) \in Nat /\ Len(t) \in Nat
         /\ Len(s \o t) = Len(s) + Len(t)
         /\ \A i \in 1 .. Len(s) : (s \o t)[i] = s[i]
         /\ \A i \in 1 .. Len(t) : (s \o t)[Len(s) + i] = t[i]
OBVIOUS

(* The order in which sequences are put behind each other does not matter.  *)
LEMMA JoinsAssociate ==
  ASSUME NEW s \in Seq(Frames), NEW t \in Seq(Frames), NEW u \in Seq(Frames)
  PROVE  (s \o t) \o u = s \o (t \o u)
<1> DEFINE st == s \o t
           tu == t \o u
           a  == st \o u
           b  == s \o tu
           l  == Len(s)
           m  == Len(t)
           n  == Len(u)
<1>1. /\ st \in Seq(Frames) /\ l \in Nat /\ m \in Nat /\ Len(st) = l + m
      /\ \A i \in 1 .. l : st[i] = s[i]
      /\ \A i \in 1 .. m : st[l + i] = t[i]
  BY Joined
<1>2. /\ tu \in Seq(Frames) /\ n \in Nat /\ Len(tu) = m + n
      /\ \A i \in 1 .. m : tu[i] = t[i]
      /\ \A i \in 1 .. n : tu[m + i] = u[i]
  BY Joined
<1> HIDE DEF st, tu
<1>3. /\ a \in Seq(Frames) /\ Len(a) = Len(st) + n
      /\ \A i \in 1 .. Len(st) : a[i] = st[i]
      /\ \A i \in 1 .. n : a[Len(st) + i] = u[i]
  BY <1>1, Joined, ZenonT(40)
<1>4. /\ b \in Seq(Frames) /\ Len(b) = l + Len(tu)
      /\ \A i \in 1 .. l : b[i] = s[i]
      /\ \A i \in 1 .. Len(tu) : b[l + i] = tu[i]
  BY <1>2, Joined, ZenonT(40)
<1> HIDE DEF a, b, l, m, n
<1>5. ASSUME NEW i \in 1 .. l PROVE a[i] = b[i]
  <2>1. i \in 1 .. Len(st)
    BY <1>1
  <2> QED
    BY <2>1, <1>1, <1>3, <1>4
<1>6. ASSUME NEW j \in 1 .. m PROVE a[l + j] = b[l + j]
  <2>1. l + j \in 1 .. Len(st) /\ j \in 1 .. Len(tu)
    BY <1>1, <1>2
  <2>2. a[l + j] = st[l + j] /\ st[l + j] = t[j] /\ b[l + j] = tu[j] /\ tu[j] = t[j]
    BY <2>1, <1>1, <1>2, <1>3, <1>4, ZenonT(40)
  <2> QED
    BY <2>2
<1>7. ASSUME NEW j \in 1 .. n PROVE a[(l + m) + j] = b[(l + m) + j]
  <2>1. m + j \in 1 .. Len(tu) /\ l + (m + j) = (l + m) + j
    BY <1>1, <1>2
  <2>2. a[(l + m) + j] = u[j] /\ b[l + (m + j)] = tu[m + j] /\ tu[m + j] = u[j]
    BY <2>1, <1>1, <1>2, <1>3, <1>4, ZenonT(40)
  <2> QED
    BY <2>1, <2>2
<1>8. ASSUME NEW i \in 1 .. Len(a) PROVE a[i] = b[i]
  <2>1. i \in 1 .. l \/ (\E j \in 1 .. m : i = l + j) \/ (\E j \in 1 .. n : i = (l + m) + j)
    <3>1. i \in 1 .. l \/ i - l \in 1 .. m \/ i - (l + m) \in 1 .. n
      BY <1>1, <1>2, <1>3
    <3>2. i = l + (i - l) /\ i = (l + m) + (i - (l + m))
      BY <1>1
    <3> QED
      BY <3>1, <3>2
  <2> QED
    BY <2>1, <1>5, <1>6, <1>7, ZenonT(40)
<1>9. Len(a) = Len(b)
  BY <1>1, <1>2, <1>3, <1>4
<1>10. a = b
  BY <1>3, <1>4, <1>8, <1>9, SameSeq, ZenonT(40)
<1> QED
  BY <1>10 DEF a, b, st, tu

(* What is appended comes behind what was left.                             *)
LEMMA RestGrows ==
  ASSUME NEW s \in Seq(Frames), NEW f \in Seq(Frames), NEW n \in 0 .. Len(s)
  PROVE  SubSeq(s \o f, n + 1, Len(s \o f)) = SubSeq(s, n + 1, Len(s)) \o f
<1> DEFINE l == Len(s)
           m == Len(f)
           sf == s \o f
           u == SubSeq(s, n + 1, l)
           a == SubSeq(sf, n + 1, Len(sf))
           b == u \o f
<1>1. /\ sf \in Seq(Frames) /\ l \in Nat /\ m \in Nat /\ n \in 0 .. l /\ Len(sf) = l + m
      /\ \A i \in 1 .. l : sf[i] = s[i]
      /\ \A i \in 1 .. m : sf[l + i] = f[i]
  BY Joined
<1>2. u \in Seq(Frames) /\ Len(u) = l - n /\ \A i \in 1 .. l - n : u[i] = s[n + i]
  BY Rest
<1> HIDE DEF sf, u
<1>3. n \in 0 .. Len(sf)
  BY <1>1
<1>4. a \in Seq(Frames) /\ Len(a) = Len(sf) - n /\ \A i \in 1 .. Len(sf) - n : a[i] = sf[n + i]
  BY <1>1, <1>3, Rest
<1>5. /\ b \in Seq(Frames) /\ Len(b) = Len(u) + m
      /\ \A i \in 1 .. Len(u) : b[i] = u[i]
      /\ \A i \in 1 .. m : b[Len(u) + i] = f[i]
  BY <1>2, Joined, ZenonT(40)
<1> HIDE DEF a, b, l, m
<1>6. ASSUME NEW i \in 1 .. l - n PROVE a[i] = b[i]
  <2>1. i \in 1 .. Len(sf) - n /\ i \in 1 .. Len(u) /\ n + i \in 1 .. l
    BY <1>1, <1>2
  <2>2. a[i] = sf[n + i] /\ sf[n + i] = s[n + i] /\ b[i] = u[i] /\ u[i] = s[n + i]
    BY <2>1, <1>1, <1>2, <1>4, <1>5, ZenonT(40)
  <2> QED
    BY <2>2
<1>7. ASSUME NEW j \in 1 .. m PROVE a[(l - n) + j] = b[(l - n) + j]
  <2>1. (l - n) + j \in 1 .. Len(sf) - n /\ n + ((l - n) + j) = l + j
    BY <1>1
  <2>2. a[(l - n) + j] = sf[n + ((l - n) + j)] /\ sf[l + j] = f[j] /\ b[Len(u) + j] = f[j]
    BY <2>1, <1>1, <1>4, <1>5, ZenonT(40)
  <2> QED
    BY <2>1, <2>2, <1>2
<1>8. ASSUME NEW i \in 1 .. Len(a) PROVE a[i] = b[i]
  <2>1. i \in 1 .. l - n \/ i - (l - n) \in 1 .. m
    BY <1>1, <1>4
  <2>2. i = (l - n) + (i - (l - n))
    BY <1>1
  <2> QED
    BY <2>1, <2>2, <1>6, <1>7
<1>9. Len(a) = Len(b)
  BY <1>1, <1>2, <1>4, <1>5
<1>10. a = b
  BY <1>4, <1>5, <1>8, <1>9, SameSeq, ZenonT(40)
<1> QED
  BY <1>10, ZenonT(40) DEF a, b, u, sf, l

(* What is left is its first k elements and what is left behind them.       *)
LEMMA RestSplits ==
  ASSUME NEW s \in Seq(Frames), NEW n \in 0 .. Len(s), NEW k \in 0 .. Len(s) - n
  PROVE  LET left == SubSeq(s, n + 1, Len(s))
         IN  /\ SubSeq(left, 1, k) \in Seq(Frames) /\ Len(SubSeq(left, 1, k)) = k
             /\ left = SubSeq(left, 1, k) \o SubSeq(s, (n + k) + 1, Len(s))
<1> DEFINE l == Len(s)
           u == SubSeq(s, n + 1, l)
           a == SubSeq(u, 1, k)
           b == SubSeq(s, (n + k) + 1, l)
           v == a \o b
<1>1. n + k \in 0 .. l /\ l \in Nat
  OBVIOUS
<1>2. u \in Seq(Frames) /\ Len(u) = l - n /\ \A i \in 1 .. l - n : u[i] = s[n + i]
  BY Rest
<1>3. b \in Seq(Frames) /\ Len(b) = l - (n + k) /\ \A i \in 1 .. l - (n + k) : b[i] = s[(n + k) + i]
  BY <1>1, Rest
<1> HIDE DEF u, b
<1>4. a \in Seq(Frames) /\ Len(a) = k /\ \A i \in 1 .. k : a[i] = u[i]
  BY <1>1, <1>2
<1> HIDE DEF a
<1>5. /\ v \in Seq(Frames) /\ Len(v) = Len(a) + Len(b)
      /\ \A i \in 1 .. Len(a) : v[i] = a[i]
      /\ \A i \in 1 .. Len(b) : v[Len(a) + i] = b[i]
  BY <1>3, <1>4, Joined, ZenonT(40)
<1> HIDE DEF v, l
<1>6. ASSUME NEW i \in 1 .. Len(u) PROVE u[i] = v[i]
  <2>1. CASE i <= k
    BY <2>1, <1>1, <1>4, <1>5
  <2>2. CASE i > k
    <3> DEFINE j == i - k
    <3>1. j \in 1 .. Len(b) /\ i = Len(a) + j /\ n + i = (n + k) + j /\ i \in 1 .. l - n
      BY <2>2, <1>1, <1>2, <1>3, <1>4
    <3> HIDE DEF j
    <3>2. v[Len(a) + j] = b[j] /\ b[j] = s[(n + k) + j] /\ u[i] = s[n + i]
      BY <3>1, <1>2, <1>3, <1>5, ZenonT(40)
    <3> QED
      BY <3>1, <3>2
  <2> QED
    BY <2>1, <2>2, <1>1
<1>7. Len(u) = Len(v)
  BY <1>1, <1>2, <1>3, <1>4, <1>5
<1>8. u = v
  BY <1>2, <1>5, <1>6, <1>7, SameSeq, ZenonT(40)
<1> QED
  BY <1>4, <1>8, ZenonT(40) DEF u, a, b, v, l

(* Frames are produced for a client.                                        *)
LEMMA SaneGrows ==
  ASSUME NEW c \in Clients, NEW w \in Seq(Frames), NEW o \in Seq(Frames), NEW f \in Seq(Frames),
         Sane(c, w, o), ~c.open => f = <<>>
  PROVE  LET d == [c EXCEPT !.out = @ \o f]
         IN  d \in Clients /\ o \o f \in Seq(Frames) /\ Sane(d, w, o \o f)
<1> DEFINE s == c.out
           d == [c EXCEPT !.out = s \o f]
<1>1. s \in Seq(Frames) /\ c.sent \in Nat /\ c.sent <= Len(s)
  BY DEF Clients, Sane
<1>2. s \o f \in Seq(Frames) /\ Len(s \o f) = Len(s) + Len(f) /\ Len(s) \in Nat /\ Len(f) \in Nat
  BY <1>1, Joined
<1>3. c.sent \in 0 .. Len(s)
  BY <1>1, <1>2
<1>4. d \in Clients
  BY <1>2, ZenonT(40) DEF Clients
<1>5. /\ d.out = s \o f /\ d.sent = c.sent /\ d.open = c.open /\ d.inMulti = c.inMulti
      /\ d.proto = c.proto /\ d.subs = c.subs
  BY DEF Clients
<1> HIDE DEF d
<1>6. Unsent(d) = Unsent(c) \o f /\ Unsent(c) \in Seq(Frames)
  <2>1. SubSeq(s, c.sent + 1, Len(s)) \in Seq(Frames)
    BY <1>1, <1>3, Rest, ZenonT(40)
  <2>2. SubSeq(s \o f, c.sent + 1, Len(s \o f)) = SubSeq(s, c.sent + 1, Len(s)) \o f
    BY <1>1, <1>3, RestGrows, ZenonT(40)
  <2> HIDE DEF s
  <2> QED
    BY <2>1, <2>2, <1>5, ZenonT(40) DEF Unsent, s
<1>7. o = w \o Unsent(c)
  BY DEF Sane
<1>8. o \o f = w \o Unsent(d)
  BY <1>6, <1>7, JoinsAssociate
<1>9. c.sent <= Len(s \o f)
  BY <1>1, <1>2
<1>10. f = <<>> => o \o f = o
  OBVIOUS
<1>11. o \o f \in Seq(Frames)
  OBVIOUS
<1>12. Sane(d, w, o \o f)
  BY <1>5, <1>8, <1>9, <1>10 DEF Sane
<1> QED
  BY <1>4, <1>11, <1>12 DEF d

(* The socket takes k of the frames that were not sent.                     *)
LEMMA SaneSends ==
  ASSUME NEW c \in Clients, NEW w \in Seq(Frames), NEW o, Sane(c, w, o), c.open,
         NEW k \in 0 .. Len(Unsent(c)), Len(w) + k <= Room
  PROVE  LET d == [c EXCEPT !.sent = @ + k]
             v == w \o SubSeq(Unsent(c), 1, k)
         IN  d \in Clients /\ v \in Seq(Frames) /\ Sane(d, v, o) /\ Len(Unsent(c)) = Len(c.out) - c.sent
<1> DEFINE s == c.out
           n == c.sent
           u == Unsent(c)
           d == [c EXCEPT !.sent = n + k]
           a == SubSeq(u, 1, k)
           b == SubSeq(s, (n + k) + 1, Len(s))
<1>1. s \in Seq(Frames) /\ n \in Nat /\ n <= Len(s) /\ Len(s) \in Nat /\ Len(w) \in Nat
  BY DEF Clients, Sane
<1>2. n \in 0 .. Len(s)
  BY <1>1
<1>3. u \in Seq(Frames) /\ Len(u) = Len(s) - n
  BY <1>1, <1>2, Rest DEF Unsent
<1>4. k \in 0 .. Len(s) - n /\ n + k \in Nat /\ n + k <= Len(s) /\ n + k \in 0 .. Len(s)
  BY <1>1, <1>3
<1>5. a \in Seq(Frames) /\ Len(a) = k /\ u = a \o b
  BY <1>1, <1>2, <1>4, RestSplits, ZenonT(40) DEF Unsent
<1>6. b \in Seq(Frames)
  BY <1>1, <1>4, Rest
<1>7. d \in Clients
  BY <1>4, ZenonT(40) DEF Clients
<1>8. /\ d.out = s /\ d.sent = n + k /\ d.open = c.open /\ d.inMulti = c.inMulti
      /\ d.proto = c.proto /\ d.subs = c.subs
  BY ZenonT(40) DEF Clients
<1>9. Unsent(d) = b
  BY <1>8, ZenonT(40) DEF Unsent
<1> HIDE DEF d, u, a, b
<1>10. w \o a \in Seq(Frames) /\ Len(w \o a) = Len(w) + k
  BY <1>5, Joined, ZenonT(40)
<1>11. o = w \o u
  BY DEF Sane, u
<1>12. o = (w \o a) \o b
  BY <1>5, <1>6, <1>11, JoinsAssociate
<1>13. Sane(d, w \o a, o)
  BY <1>4, <1>8, <1>9, <1>10, <1>12 DEF Sane
<1> QED
  BY <1>3, <1>7, <1>10, <1>13 DEF d, u, a

(***************************************************************************)
(* Output that is produced, parked and asked for.                          *)
(***************************************************************************)

(* A server whose registry may stay as it is.                               *)
LEMMA StaysGood ==
  ASSUME NEW S, NEW x, Good(S, x), NEW T \in Servers, NEW y,
         T.early = S.early, T.registry = S.registry,
         \A g \in Fds : T.client[g].open = S.client[g].open /\ T.client[g].subs = S.client[g].subs,
         \A g \in Fds : /\ Sane(T.client[g], T.wire[g], T.owed[g])
                        /\ T.client[g].open => T.interest[g] # {}
                        /\ g \notin y => Asks(T.client[g], T.interest[g])
  PROVE  Good(T, y)
<1>1. \A k \in Kinds : Mirror(T.client, k) = Mirror(S.client, k)
  BY MirrorStays, ZenonT(40)
<1> QED
  BY <1>1, ZenonT(40) DEF Good

(* Only what handlers note for themselves changes.                          *)
Noted(S, e, p) == [S EXCEPT !.executing = e, !.selfPending = p]

LEMMA NotesChange ==
  ASSUME NEW S, NEW x, Good(S, x), NEW e \in Fds \cup {NoOne}, NEW p \in Seq(Frames)
  PROVE  LET T == Noted(S, e, p)
         IN  /\ Good(T, x) /\ T.client = S.client /\ T.executing = e /\ T.selfPending = p
             /\ T.registry = S.registry
<1> DEFINE T == Noted(S, e, p)
<1>1. S \in Servers
  BY DEF Good
<1>2. T \in Servers
  BY <1>1, ZenonT(40) DEF Servers, Noted
<1>3. /\ T.client = S.client /\ T.registry = S.registry /\ T.interest = S.interest
      /\ T.selfPending = p /\ T.executing = e /\ T.early = S.early
      /\ T.wire = S.wire /\ T.owed = S.owed
  BY <1>1 DEF Servers, Noted
<1> HIDE DEF T
<1>4. Good(T, x)
  BY <1>2, <1>3, ZenonT(40) DEF Good
<1> QED
  BY <1>3, <1>4 DEF T

(* More clients may have to be asked for.                                   *)
LEMMA GoodWeakens ==
  ASSUME NEW S, NEW x, NEW y, Good(S, x), \A g \in x : g \in y
  PROVE  Good(S, y)
BY ZenonT(40) DEF Good

Longer(c, frames) == [c EXCEPT !.out = @ \o frames]

(* Frames are produced for clients that are still to be asked for.          *)
LEMMA Produces ==
  ASSUME NEW S, NEW x, Good(S, x), NEW f \in [Fds -> Seq(Frames)],
         \A g \in Fds : f[g] = <<>> \/ (g \in x /\ S.client[g].open)
  PROVE  LET T == Produce(S, f)
         IN  /\ Good(T, x) /\ T.executing = S.executing /\ T.selfPending = S.selfPending
             /\ T.registry = S.registry
             /\ \A g \in Fds : T.client[g] = Longer(S.client[g], f[g])
<1> DEFINE d == [g \in Fds |-> [S.client[g] EXCEPT !.out = @ \o f[g]]]
           o == [g \in Fds |-> S.owed[g] \o f[g]]
           T == Produce(S, f)
<1>1. /\ S \in Servers /\ S.client \in [Fds -> Clients] /\ S.wire \in [Fds -> Seq(Frames)]
      /\ S.owed \in [Fds -> Seq(Frames)]
  BY DEF Good, Servers
<1>2. T = [S EXCEPT !.client = d, !.owed = o]
  BY DEF Produce
<1>3. ASSUME NEW g \in Fds
      PROVE  /\ d[g] \in Clients /\ o[g] \in Seq(Frames) /\ Sane(d[g], S.wire[g], o[g])
             /\ d[g].open = S.client[g].open /\ d[g].subs = S.client[g].subs
             /\ f[g] = <<>> => d[g].out = S.client[g].out
             /\ d[g].sent = S.client[g].sent
  <2> DEFINE c == S.client[g]
             w == S.wire[g]
             p == S.owed[g]
             h == f[g]
             e == [c EXCEPT !.out = @ \o h]
  <2>1. c \in Clients /\ w \in Seq(Frames) /\ p \in Seq(Frames) /\ h \in Seq(Frames)
    BY <1>1
  <2>2. Sane(c, w, p) /\ (~c.open => h = <<>>)
    BY DEF Good
  <2>3. d[g] = e /\ o[g] = p \o h
    OBVIOUS
  <2> HIDE DEF c, w, p, h
  <2>4. e \in Clients /\ p \o h \in Seq(Frames) /\ Sane(e, w, p \o h)
    BY <2>1, <2>2, SaneGrows, ZenonT(40)
  <2>5. e.open = c.open /\ e.subs = c.subs /\ e.sent = c.sent /\ (h = <<>> => e.out = c.out)
    BY <2>1 DEF Clients
  <2> HIDE DEF e, d, o
  <2> QED
    BY <2>3, <2>4, <2>5 DEF c, w, p, h
<1>4. d \in [Fds -> Clients] /\ o \in [Fds -> Seq(Frames)]
  BY <1>3, ZenonT(40)
<1> HIDE DEF d, o
<1>5. T \in Servers
  BY <1>1, <1>2, <1>4, ZenonT(40) DEF Servers
<1>6. /\ T.client = d /\ T.registry = S.registry /\ T.interest = S.interest
      /\ T.selfPending = S.selfPending /\ T.executing = S.executing /\ T.early = S.early
      /\ T.wire = S.wire /\ T.owed = o
  BY <1>1, <1>2 DEF Servers
<1> HIDE DEF T
<1>7. ASSUME NEW g \in Fds
      PROVE  /\ Sane(T.client[g], T.wire[g], T.owed[g])
             /\ T.client[g].open => T.interest[g] # {}
             /\ g \notin x => Asks(T.client[g], T.interest[g])
  BY <1>3, <1>6 DEF Good, Asks
<1>8. Good(T, x)
  BY <1>3, <1>5, <1>6, <1>7, StaysGood, ZenonT(40)
<1> QED
  BY <1>6, <1>8 DEF d, T, Longer

(* The loop is asked for what has to be written.                            *)
LEMMA LoopAsked ==
  ASSUME NEW S, NEW x, Good(S, x), NEW to
  PROVE  LET T == modFd(S, to, {"Read", "Write"})
         IN  /\ Good(T, x \ to) /\ T.executing = S.executing /\ T.selfPending = S.selfPending
             /\ T.client = S.client
<1> DEFINE both == {"Read", "Write"}
           T == modFd(S, to, both)
           i == [fd \in Fds |-> IF fd \in to /\ S.interest[fd] # {} THEN both ELSE S.interest[fd]]
<1>1. S \in Servers /\ S.interest \in [Fds -> SUBSET both]
  BY DEF Good, Servers
<1>2. T = [S EXCEPT !.interest = i] /\ i \in [Fds -> SUBSET both]
  BY <1>1 DEF modFd
<1>3. \A g \in Fds : /\ i[g] = S.interest[g] \/ i[g] = both
                     /\ g \in to /\ S.interest[g] # {} => i[g] = both
  OBVIOUS
<1> HIDE DEF i
<1>4. T \in Servers
  BY <1>1, <1>2, ZenonT(40) DEF Servers
<1>5. /\ T.client = S.client /\ T.registry = S.registry /\ T.interest = i
      /\ T.selfPending = S.selfPending /\ T.executing = S.executing /\ T.early = S.early
      /\ T.wire = S.wire /\ T.owed = S.owed
  BY <1>1, <1>2 DEF Servers
<1> HIDE DEF T
<1>6. ASSUME NEW g \in Fds
      PROVE  /\ Sane(T.client[g], T.wire[g], T.owed[g])
             /\ T.client[g].open => T.interest[g] # {}
             /\ g \notin x \ to => Asks(T.client[g], T.interest[g])
  BY <1>3, <1>5, ZenonT(40) DEF Good, Asks
<1>7. Good(T, x \ to)
  BY <1>4, <1>5, <1>6, StaysGood, ZenonT(40)
<1> QED
  BY <1>5, <1>7 DEF T

(* T is S after output for others than the client that is served.           *)
Beside(S, T) ==
  /\ T.executing = S.executing
  /\ S.executing \in Fds => T.client[S.executing] = S.client[S.executing]
  /\ S.executing = NoOne => T.selfPending = S.selfPending

(* A message parks what is for the client that is served and asks the loop  *)
(* for the others.                                                          *)
LEMMA QueueWriteGood ==
  ASSUME NEW S, NEW x, Good(S, x), NEW n \in [Fds -> Nat]
  PROVE  Good(queueWrite(S, n), x) /\ Beside(S, queueWrite(S, n))
<1> DEFINE e  == S.executing
           to == Recipients(S, n) \ {e}
           m  == Messages(n, to)
           P  == Parked(S, n)
           Q  == Produce(P, m)
           T  == modFd(Q, to, {"Read", "Write"})
<1>1. S \in Servers /\ e \in Fds \cup {NoOne} /\ S.selfPending \in Seq(Frames)
  BY DEF Good, Servers
<1>2. /\ \A g \in to : g \in Fds /\ S.client[g].open /\ g # e
      /\ Recipients(S, n) \subseteq Fds
  BY DEF Recipients, IsOpen
<1>3. ASSUME NEW r, r \subseteq Fds
      PROVE  /\ Messages(n, r) \in [Fds -> Seq(Frames)]
             /\ \A g \in Fds : g \notin r => Messages(n, r)[g] = <<>>
  <2>1. ASSUME NEW g \in Fds
        PROVE  /\ [i \in 1 .. (IF g \in r THEN n[g] ELSE 0) |-> "message"] \in Seq(Frames)
               /\ g \notin r => [i \in 1 .. (IF g \in r THEN n[g] ELSE 0) |-> "message"] = <<>>
    BY DEF Frames
  <2> QED
    BY <2>1 DEF Messages
<1>4. /\ Good(P, x) /\ P.client = S.client /\ P.executing = e
      /\ e = NoOne => P.selfPending = S.selfPending
  <2>1. CASE e \in Recipients(S, n)
    <3> DEFINE p == S.selfPending \o Messages(n, {e})[e]
    <3>1. e \in Fds
      BY <2>1, <1>2
    <3>2. {e} \subseteq Fds /\ e # NoOne
      BY <3>1, PubSubAssumption
    <3>3. p \in Seq(Frames)
      BY <3>1, <3>2, <1>1, <1>3, Joined, ZenonT(40)
    <3>4. P = [S EXCEPT !.selfPending = p]
      BY <2>1 DEF Parked
    <3>5. P = Noted(S, e, p)
      BY <3>4, <1>1, ZenonT(40) DEF Servers, Noted
    <3> HIDE DEF p, P, e
    <3> QED
      BY <3>2, <3>3, <3>5, <1>1, NotesChange
  <2>2. CASE e \notin Recipients(S, n)
    BY <2>2 DEF Parked
  <2> QED
    BY <2>1, <2>2
<1> HIDE DEF P, to
<1>5. to \subseteq Fds /\ m \in [Fds -> Seq(Frames)] /\ \A g \in Fds : g \notin to => m[g] = <<>>
  BY <1>2, <1>3, ZenonT(40)
<1>6. Good(P, x \cup to)
  BY <1>4, GoodWeakens, ZenonT(40)
<1>7. \A g \in Fds : m[g] = <<>> \/ (g \in x \cup to /\ P.client[g].open)
  BY <1>2, <1>4, <1>5
<1> HIDE DEF m
<1>8. /\ Good(Q, x \cup to) /\ Q.executing = P.executing /\ Q.selfPending = P.selfPending
      /\ \A g \in Fds : Q.client[g] = Longer(P.client[g], m[g])
  BY <1>5, <1>6, <1>7, Produces
<1> HIDE DEF Q
<1>9. /\ Good(T, (x \cup to) \ to) /\ T.executing = Q.executing /\ T.selfPending = Q.selfPending
      /\ T.client = Q.client
  BY <1>8, LoopAsked, ZenonT(40)
<1>10. T = queueWrite(S, n)
  BY DEF queueWrite, Q, P, m, to
<1> HIDE DEF T
<1>11. Good(T, x)
  BY <1>9, GoodWeakens, ZenonT(40)
<1>12. ASSUME e \in Fds PROVE T.client[e] = S.client[e]
  <2>1. m[e] = <<>> /\ S.client[e] \in Clients
    BY <1>1, <1>2, <1>5, <1>12 DEF Servers
  <2>2. ASSUME NEW c \in Clients PROVE Longer(c, <<>>) = c
    <3>1. c.out \o <<>> = c.out
      BY DEF Clients
    <3> QED
      BY <3>1 DEF Clients, Longer
  <2> QED
    BY <2>1, <2>2, <1>4, <1>8, <1>9, <1>12
<1> QED
  BY <1>4, <1>8, <1>9, <1>10, <1>11, <1>12, ZenonT(40) DEF Beside

(* Publishing, and announcing a change of a key.                            *)
LEMMA PublishGood ==
  ASSUME NEW S, NEW x, Good(S, x), NEW ch
  PROVE  /\ Good(publishMessage(S, ch), x) /\ Beside(S, publishMessage(S, ch))
         /\ Good(publishShardMessage(S, ch), x) /\ Beside(S, publishShardMessage(S, ch))
<1> DEFINE map == S.registry["Pattern"]
           direct == channelSubscribers(S.registry["Channel"], ch)
           shard == channelSubscribers(S.registry["Shard"], ch)
           matching(fd) == {p \in DOMAIN map : Matches(p, ch) /\ fd \in map[p]}
           n == [fd \in Fds |-> (IF fd \in direct THEN 1 ELSE 0) + Cardinality(matching(fd))]
           m == [fd \in Fds |-> IF fd \in shard THEN 1 ELSE 0]
<1>1. S.registry \in [Kinds -> UNION {[names -> SUBSET Fds] : names \in SUBSET Names}]
  BY DEF Good, Servers
<1>2. DOMAIN map \subseteq Names
  BY <1>1 DEF Kinds
<1>3. \A fd \in Fds : Cardinality(matching(fd)) \in Nat
  BY <1>2, PubSubAssumption
<1>4. n \in [Fds -> Nat] /\ m \in [Fds -> Nat]
  BY <1>3
<1>5. publishMessage(S, ch) = queueWrite(S, n) /\ publishShardMessage(S, ch) = queueWrite(S, m)
  BY DEF publishMessage, publishShardMessage
<1> HIDE DEF n, m
<1> QED
  BY <1>4, <1>5, QueueWriteGood

LEMMA NotifyGood ==
  ASSUME NEW S, NEW x, Good(S, x)
  PROVE  Good(notifyKeyspaceEvent(S), x) /\ Beside(S, notifyKeyspaceEvent(S))
<1> DEFINE A == IF "K" \in NotifyFlags THEN publishMessage(S, KeyspaceChannel) ELSE S
           B == publishMessage(A, KeyeventChannel)
<1>1. Beside(S, S)
  BY DEF Beside
<1>2. Good(A, x) /\ Beside(S, A)
  BY <1>1, PublishGood
<1> HIDE DEF A
<1>3. Good(B, x) /\ Beside(A, B)
  BY <1>2, PublishGood
<1>4. Beside(S, B)
  BY <1>2, <1>3 DEF Beside
<1>5. notifyKeyspaceEvent(S) \in {S, A, B}
  BY DEF notifyKeyspaceEvent, A
<1> QED
  BY <1>1, <1>2, <1>3, <1>4, <1>5

(***************************************************************************)
(* The registry follows what the clients hold.                             *)
(***************************************************************************)

LEMMA MirrorAdds ==
  ASSUME NEW a, NEW b, NEW k, NEW names \in SUBSET Names, NEW fd,
         \A n \in Names : Holders(b, k, n) = Holders(a, k, n) \cup (IF n \in names THEN {fd} ELSE {})
  PROVE  addTo(Mirror(a, k), names, fd) = Mirror(b, k)
<1> DEFINE A == {m \in Names : Holders(a, k, m) # {}}
           B == {m \in Names : Holders(b, k, m) # {}}
           map == Mirror(a, k)
<1>1. DOMAIN map = A /\ \A n \in A : map[n] = Holders(a, k, n)
  BY DEF Mirror
<1>2. A \cup names = B
  OBVIOUS
<1>3. \A n \in B : (IF n \in A THEN map[n] ELSE {}) \cup (IF n \in names THEN {fd} ELSE {})
                     = Holders(b, k, n)
  BY <1>1
<1> HIDE DEF map
<1> QED
  BY <1>1, <1>2, <1>3 DEF addTo, Mirror, map

LEMMA MirrorLoses ==
  ASSUME NEW a, NEW b, NEW k, NEW names, NEW fd,
         \A n \in Names : Holders(b, k, n) = IF n \in names THEN Holders(a, k, n) \ {fd} ELSE Holders(a, k, n)
  PROVE  removeFrom(Mirror(a, k), names, fd) = Mirror(b, k)
<1> DEFINE A == {m \in Names : Holders(a, k, m) # {}}
           B == {m \in Names : Holders(b, k, m) # {}}
           map == Mirror(a, k)
           left(n) == IF n \in names THEN map[n] \ {fd} ELSE map[n]
<1>1. DOMAIN map = A /\ \A n \in A : map[n] = Holders(a, k, n)
  BY DEF Mirror
<1>2. \A n \in A : left(n) = Holders(b, k, n)
  BY <1>1
<1>3. {m \in A : left(m) # {}} = B
  <2>1. \A n \in B : n \in A
    OBVIOUS
  <2> QED
    BY <2>1, <1>2
<1> HIDE DEF left, map
<1>4. [n \in {m \in A : left(m) # {}} |-> left(n)] = [n \in B |-> Holders(b, k, n)]
  BY <1>2, <1>3
<1> QED
  BY <1>1, <1>4 DEF removeFrom, Mirror, map, left

(* A client that holds s, and the registry with it.                         *)
Holding(c, s) == [c EXCEPT !.subs = s]
Rewired(S, client, r) == [S EXCEPT !.client = client, !.registry = r]

LEMMA SubsChange ==
  ASSUME NEW S, NEW x, Good(S, x), NEW fd \in Fds, NEW s \in [Kinds -> SUBSET Names],
         S.client[fd].inMulti => S.client[fd].proto # 2 \/ \A k \in Kinds : s[k] = {},
         NEW cl, cl = [S.client EXCEPT ![fd] = Holding(S.client[fd], s)],
         NEW r, r = [k \in Kinds |-> Mirror(cl, k)]
  PROVE  LET T == Rewired(S, cl, r)
         IN  /\ Good(T, x) /\ T.executing = S.executing /\ T.selfPending = S.selfPending
             /\ T.client = cl /\ T.registry = r
<1> DEFINE T == Rewired(S, cl, r)
           c == S.client[fd]
           d == Holding(c, s)
<1>1. /\ S \in Servers /\ S.client \in [Fds -> Clients] /\ c \in Clients
  BY DEF Good, Servers
<1>2. /\ d \in Clients /\ d.open = c.open /\ d.out = c.out /\ d.sent = c.sent
      /\ d.inMulti = c.inMulti /\ d.proto = c.proto /\ d.subs = s
  BY <1>1, ZenonT(40) DEF Clients, Holding
<1> HIDE DEF c, d
<1>3. cl \in [Fds -> Clients] /\ cl[fd] = d /\ \A g \in Fds \ {fd} : cl[g] = S.client[g]
  BY <1>1, <1>2 DEF c, d
<1>4. r \in [Kinds -> UNION {[names -> SUBSET Fds] : names \in SUBSET Names}]
  <2>1. ASSUME NEW k \in Kinds
        PROVE  Mirror(cl, k) \in UNION {[names -> SUBSET Fds] : names \in SUBSET Names}
    <3> DEFINE B == {m \in Names : Holders(cl, k, m) # {}}
    <3>1. B \in SUBSET Names /\ \A n \in B : Holders(cl, k, n) \in SUBSET Fds
      BY DEF Holders
    <3> HIDE DEF B
    <3>2. [n \in B |-> Holders(cl, k, n)] \in [B -> SUBSET Fds]
      BY <3>1
    <3> QED
      BY <3>1, <3>2, ZenonT(40) DEF Mirror, B
  <2> QED
    BY <2>1
<1>5. T \in Servers
  BY <1>1, <1>3, <1>4, ZenonT(40) DEF Servers, Rewired
<1>6. /\ T.client = cl /\ T.registry = r /\ T.interest = S.interest
      /\ T.selfPending = S.selfPending /\ T.executing = S.executing /\ T.early = S.early
      /\ T.wire = S.wire /\ T.owed = S.owed
  BY <1>1 DEF Servers, Rewired
<1> HIDE DEF T
<1>7. Sane(c, S.wire[fd], S.owed[fd])
  BY DEF Good, c
<1>8. Sane(d, S.wire[fd], S.owed[fd])
  BY <1>2, <1>7, ZenonT(40) DEF Sane, Unsent, c
<1>9. Asks(d, S.interest[fd]) <=> Asks(c, S.interest[fd])
  BY <1>2 DEF Asks
<1>10. Good(T, x)
  BY <1>2, <1>3, <1>5, <1>6, <1>8, <1>9 DEF Good, c
<1> QED
  BY <1>6, <1>10 DEF T

(***************************************************************************)
(* The handlers.                                                           *)
(***************************************************************************)

(* Frames are appended to the output of the client that is served.          *)
LEMMA Appends ==
  ASSUME NEW S, NEW x, Good(S, x), NEW fd \in Fds, fd \in x, S.client[fd].open, NEW f \in Seq(Frames)
  PROVE  LET T == Produce(S, For(fd, f))
         IN  /\ Good(T, x) /\ T.executing = S.executing /\ T.selfPending = S.selfPending
             /\ T.client[fd] = Longer(S.client[fd], f)
<1> DEFINE h == For(fd, f)
<1>1. h \in [Fds -> Seq(Frames)] /\ h[fd] = f /\ \A g \in Fds : g # fd => h[g] = <<>>
  BY DEF For
<1> HIDE DEF h
<1>2. \A g \in Fds : h[g] = <<>> \/ (g \in x /\ S.client[g].open)
  BY <1>1
<1>3. LET T == Produce(S, h)
      IN  /\ Good(T, x) /\ T.executing = S.executing /\ T.selfPending = S.selfPending
          /\ \A g \in Fds : T.client[g] = Longer(S.client[g], h[g])
  BY <1>1, <1>2, Produces
<1> QED
  BY <1>1, <1>3 DEF h

(* The settings of a client that its handlers mind.                         *)
Kept(c, d) ==
  d.inMulti = c.inMulti /\ d.proto = c.proto /\ d.subs = c.subs /\ d.queue = c.queue

(* A handler replies.                                                       *)
LEMMA RepliesRun ==
  ASSUME NEW S, NEW fd \in Fds, NEW b \in Nat, Runs(S, fd, b), NEW n \in Nat
  PROVE  LET T == confirm(S, fd, n)
         IN  Runs(T, fd, b) /\ Kept(S.client[fd], T.client[fd])
<1> DEFINE f == [i \in 1 .. n |-> "reply"]
           c == S.client[fd]
           s == c.out
           T == confirm(S, fd, n)
<1>1. f \in Seq(Frames) /\ Len(f) = n /\ \A i \in 1 .. n : f[i] = "reply"
  BY DEF Frames
<1>2. Good(S, {fd}) /\ S.executing = fd /\ c.open /\ c \in Clients /\ s \in Seq(Frames)
  BY DEF Runs, Good, Servers, Clients
<1>3. b <= Len(s) /\ \A i \in b + 1 .. Len(s) : s[i] = "reply"
  BY DEF Runs, Replied
<1>4. T = Produce(S, For(fd, f))
  BY DEF confirm
<1> HIDE DEF f, s
<1>5. Good(T, {fd}) /\ T.executing = S.executing /\ T.client[fd] = Longer(c, f)
  BY <1>1, <1>2, <1>4, Appends
<1> HIDE DEF T, c
<1>6. Longer(c, f).open = c.open /\ Kept(c, Longer(c, f)) /\ Longer(c, f).out = s \o f
  BY <1>2, ZenonT(40) DEF Longer, Clients, Kept, s
<1>7. /\ Len(s) \in Nat /\ Len(s \o f) = Len(s) + n
      /\ \A i \in 1 .. Len(s) : (s \o f)[i] = s[i]
      /\ \A i \in 1 .. n : (s \o f)[Len(s) + i] = f[i]
  BY <1>1, <1>2, Joined, ZenonT(40)
<1>8. ASSUME NEW i \in b + 1 .. Len(s \o f) PROVE (s \o f)[i] = "reply"
  <2>1. CASE i <= Len(s)
    BY <2>1, <1>3, <1>7
  <2>2. CASE i > Len(s)
    <3>1. i - Len(s) \in 1 .. n /\ Len(s) + (i - Len(s)) = i
      BY <2>2, <1>7
    <3> QED
      BY <3>1, <1>1, <1>7
  <2> QED
    BY <2>1, <2>2, <1>7
<1>9. Replied(s \o f, b)
  BY <1>3, <1>7, <1>8 DEF Replied
<1>10. Runs(T, fd, b)
  BY <1>2, <1>5, <1>6, <1>9 DEF Runs
<1> QED
  BY <1>5, <1>6, <1>10 DEF T, c

(* A handler changes a setting of its client.                               *)
LEMMA SettingsRun ==
  ASSUME NEW S, NEW fd \in Fds, NEW b, Runs(S, fd, b), NEW c \in Clients,
         c.open = S.client[fd].open, c.subs = S.client[fd].subs,
         c.out = S.client[fd].out, c.sent = S.client[fd].sent,
         c.inMulti => c.proto # 2 \/ \A k \in Kinds : c.subs[k] = {}
  PROVE  Runs(WithClient(S, fd, c), fd, b) /\ WithClient(S, fd, c).client[fd] = c
<1> DEFINE T == WithClient(S, fd, c)
<1>1. Good(S, {fd})
  BY DEF Runs
<1>2. Good(T, {fd}) /\ T.executing = S.executing /\ T.client[fd] = c
  BY <1>1, ClientChanges
<1> HIDE DEF T
<1>3. Runs(T, fd, b)
  BY <1>2, ZenonT(40) DEF Runs
<1> QED
  BY <1>2, <1>3 DEF T

(* Frames for others do not disturb the handler.                            *)
LEMMA BesideRuns ==
  ASSUME NEW S, NEW T, NEW fd \in Fds, NEW b, Runs(S, fd, b), Good(T, {fd}), Beside(S, T)
  PROVE  Runs(T, fd, b) /\ T.client[fd] = S.client[fd]
BY DEF Runs, Beside

(* A handler runs for a client that is in no transaction.                   *)
RunsFree(S, fd, b) == Runs(S, fd, b) /\ ~S.client[fd].inMulti

(* A handler changes what its client holds, and the registry with it.       *)
LEMMA SubsRun ==
  ASSUME NEW S, NEW fd \in Fds, NEW b, Runs(S, fd, b), NEW s \in [Kinds -> SUBSET Names],
         S.client[fd].inMulti => \A k \in Kinds : s[k] = {},
         NEW cl, cl = [S.client EXCEPT ![fd] = Holding(S.client[fd], s)],
         NEW r, r = [k \in Kinds |-> Mirror(cl, k)]
  PROVE  LET T == Rewired(S, cl, r)
         IN  Runs(T, fd, b) /\ T.client[fd] = Holding(S.client[fd], s)
<1> DEFINE T == Rewired(S, cl, r)
           c == S.client[fd]
<1>1. Good(S, {fd}) /\ S.client \in [Fds -> Clients] /\ c \in Clients
  BY DEF Runs, Good, Servers
<1>2. Good(T, {fd}) /\ T.executing = S.executing /\ T.client = cl
  BY <1>1, SubsChange
<1>3. cl[fd] = Holding(c, s)
  BY <1>1
<1>4. Holding(c, s).open = c.open /\ Holding(c, s).out = c.out
  BY <1>1 DEF Holding, Clients
<1> HIDE DEF T
<1>5. Runs(T, fd, b)
  BY <1>2, <1>3, <1>4, ZenonT(40) DEF Runs
<1> QED
  BY <1>2, <1>3, <1>5, ZenonT(40) DEF T

(* Who holds what when the subscriptions of one client change.              *)
LEMMA HoldersChange ==
  ASSUME NEW client \in [Fds -> Clients], NEW fd \in Fds, client[fd].open,
         NEW s \in [Kinds -> SUBSET Names],
         NEW cl, cl = [client EXCEPT ![fd] = Holding(client[fd], s)],
         NEW k \in Kinds, NEW n \in Names
  PROVE  /\ n \in s[k] => Holders(cl, k, n) = Holders(client, k, n) \cup {fd}
         /\ n \notin s[k] => Holders(cl, k, n) = Holders(client, k, n) \ {fd}
         /\ (n \in s[k] <=> n \in client[fd].subs[k]) => Holders(cl, k, n) = Holders(client, k, n)
<1>1. /\ Holding(client[fd], s).open = TRUE /\ Holding(client[fd], s).subs = s
  BY DEF Holding, Clients
<1>2. cl[fd] = Holding(client[fd], s) /\ \A g \in Fds \ {fd} : cl[g] = client[g]
  OBVIOUS
<1> QED
  BY <1>1, <1>2 DEF Holders

LEMMA SubscribeRuns ==
  ASSUME NEW S, NEW fd \in Fds, NEW b \in Nat, RunsFree(S, fd, b),
         NEW kind \in Kinds, NEW names \in Seq(Names)
  PROVE  RunsFree(subscribeTo(S, fd, kind, names), fd, b)
<1> DEFINE c == S.client[fd]
           fresh == Range(names) \ c.subs[kind]
           s == [c.subs EXCEPT ![kind] = @ \cup fresh]
           cl == [S.client EXCEPT ![fd] = Holding(c, s)]
           r == [S.registry EXCEPT ![kind] = addTo(@, fresh, fd)]
           T == Rewired(S, cl, r)
<1>1. /\ Runs(S, fd, b) /\ ~c.inMulti /\ c.open
      /\ S \in Servers /\ S.client \in [Fds -> Clients] /\ S.registry = [k \in Kinds |-> Mirror(S.client, k)]
  BY DEF RunsFree, Runs, Good, Servers
<1>2. c \in Clients /\ c.subs \in [Kinds -> SUBSET Names] /\ fresh \in SUBSET Names
  BY <1>1 DEF Clients, Range
<1>3. subscribeTo(S, fd, kind, names) = confirm(T, fd, Len(names))
  BY <1>1, <1>2, ZenonT(40) DEF subscribeTo, Held, updateRegistry, Rewired, Holding, Servers, Clients
<1> HIDE DEF fresh
<1>4. s \in [Kinds -> SUBSET Names] /\ s[kind] = c.subs[kind] \cup fresh
      /\ \A k \in Kinds \ {kind} : s[k] = c.subs[k]
  BY <1>2
<1> HIDE DEF s
<1>5. \A k \in Kinds, n \in Names :
        /\ n \in s[k] => Holders(cl, k, n) = Holders(S.client, k, n) \cup {fd}
        /\ (n \in s[k] <=> n \in c.subs[k]) => Holders(cl, k, n) = Holders(S.client, k, n)
  BY <1>1, <1>4, HoldersChange
<1> HIDE DEF cl, c
<1>6. addTo(Mirror(S.client, kind), fresh, fd) = Mirror(cl, kind)
  <2>1. \A n \in Names : Holders(cl, kind, n)
                           = Holders(S.client, kind, n) \cup (IF n \in fresh THEN {fd} ELSE {})
    BY <1>4, <1>5
  <2> QED
    BY <2>1, <1>2, MirrorAdds
<1>7. ASSUME NEW k \in Kinds \ {kind} PROVE Mirror(S.client, k) = Mirror(cl, k)
  <2>1. \A n \in Names : Holders(cl, k, n) = Holders(S.client, k, n)
    BY <1>4, <1>5
  <2> QED
    BY <2>1 DEF Mirror
<1>8. r = [k \in Kinds |-> Mirror(cl, k)]
  BY <1>1, <1>6, <1>7
<1> HIDE DEF r
<1>9. Runs(T, fd, b) /\ T.client[fd] = Holding(c, s)
  BY <1>1, <1>4, <1>8, SubsRun DEF cl, c
<1> HIDE DEF T
<1>10. Holding(c, s).inMulti = c.inMulti
  BY <1>2 DEF Holding, Clients
<1>11. Len(names) \in Nat
  OBVIOUS
<1> QED
  BY <1>1, <1>3, <1>9, <1>10, <1>11, RepliesRun DEF RunsFree, Kept

LEMMA UnsubscribeRuns ==
  ASSUME NEW S, NEW fd \in Fds, NEW b \in Nat, RunsFree(S, fd, b),
         NEW kind \in Kinds, NEW names \in Seq(Names)
  PROVE  RunsFree(unsubscribeFrom(S, fd, kind, names), fd, b)
<1> DEFINE c == S.client[fd]
           gone == IF names = <<>> THEN c.subs[kind] ELSE Range(names) \cap c.subs[kind]
           s == [c.subs EXCEPT ![kind] = @ \ gone]
           cl == [S.client EXCEPT ![fd] = Holding(c, s)]
           r == [S.registry EXCEPT ![kind] = removeFrom(@, gone, fd)]
           T == Rewired(S, cl, r)
           n == IF names # <<>> THEN Len(names) ELSE IF c.subs[kind] = {} THEN 1 ELSE Cardinality(c.subs[kind])
<1>1. /\ Runs(S, fd, b) /\ ~c.inMulti /\ c.open
      /\ S \in Servers /\ S.client \in [Fds -> Clients] /\ S.registry = [k \in Kinds |-> Mirror(S.client, k)]
  BY DEF RunsFree, Runs, Good, Servers
<1>2. c \in Clients /\ c.subs \in [Kinds -> SUBSET Names]
  BY <1>1 DEF Clients
<1>3. n \in Nat
  BY <1>2, PubSubAssumption
<1>4. unsubscribeFrom(S, fd, kind, names) = confirm(T, fd, n)
  BY <1>1, <1>2, ZenonT(40) DEF unsubscribeFrom, Held, updateRegistry, Rewired, Holding, Servers, Clients
<1> HIDE DEF gone, n
<1>5. s \in [Kinds -> SUBSET Names] /\ s[kind] = c.subs[kind] \ gone
      /\ \A k \in Kinds \ {kind} : s[k] = c.subs[k]
  BY <1>2
<1> HIDE DEF s
<1>6. \A k \in Kinds, m \in Names :
        /\ m \notin s[k] => Holders(cl, k, m) = Holders(S.client, k, m) \ {fd}
        /\ (m \in s[k] <=> m \in c.subs[k]) => Holders(cl, k, m) = Holders(S.client, k, m)
  BY <1>1, <1>5, HoldersChange
<1> HIDE DEF cl, c
<1>7. removeFrom(Mirror(S.client, kind), gone, fd) = Mirror(cl, kind)
  <2>1. \A m \in Names : Holders(cl, kind, m) = IF m \in gone THEN Holders(S.client, kind, m) \ {fd}
                                                               ELSE Holders(S.client, kind, m)
    BY <1>5, <1>6
  <2> QED
    BY <2>1, MirrorLoses
<1>8. ASSUME NEW k \in Kinds \ {kind} PROVE Mirror(S.client, k) = Mirror(cl, k)
  <2>1. \A m \in Names : Holders(cl, k, m) = Holders(S.client, k, m)
    BY <1>5, <1>6
  <2> QED
    BY <2>1 DEF Mirror
<1>9. r = [k \in Kinds |-> Mirror(cl, k)]
  BY <1>1, <1>7, <1>8
<1> HIDE DEF r
<1>10. Runs(T, fd, b) /\ T.client[fd] = Holding(c, s)
  <2>1. cl = [S.client EXCEPT ![fd] = Holding(S.client[fd], s)] /\ ~S.client[fd].inMulti
    BY <1>1 DEF cl, c
  <2> QED
    BY <2>1, <1>1, <1>5, <1>9, SubsRun DEF c
<1> HIDE DEF T
<1>11. Holding(c, s).inMulti = c.inMulti
  BY <1>2 DEF Holding, Clients
<1> QED
  BY <1>1, <1>3, <1>4, <1>10, <1>11, RepliesRun DEF RunsFree, Kept

(* RESET and the end of a connection take a client out of the registry.     *)
LEMMA ClearIs ==
  ASSUME NEW S, NEW x, Good(S, x), NEW fd \in Fds, S.client[fd].open
  PROVE  LET cl == [S.client EXCEPT ![fd] = Holding(S.client[fd], NoSubs)]
         IN  clearSubscriptions(S, fd) = Rewired(S, cl, [k \in Kinds |-> Mirror(cl, k)])
<1> DEFINE c == S.client[fd]
           cl == [S.client EXCEPT ![fd] = Holding(c, NoSubs)]
           r == [k \in Kinds |-> removeFrom(S.registry[k], c.subs[k], fd)]
<1>1. S \in Servers /\ S.client \in [Fds -> Clients] /\ S.registry = [k \in Kinds |-> Mirror(S.client, k)]
  BY DEF Good, Servers
<1>2. c \in Clients /\ c.subs \in [Kinds -> SUBSET Names]
  BY <1>1 DEF Clients
<1>3. NoSubs \in [Kinds -> SUBSET Names] /\ \A k \in Kinds : NoSubs[k] = {}
  BY DEF NoSubs
<1>4. clearSubscriptions(S, fd) = [S EXCEPT !.registry = r, !.client[fd].subs = NoSubs]
  <2> DEFINE R == [S.registry EXCEPT !["Channel"] = removeFrom(@, c.subs["Channel"], fd),
                                     !["Pattern"] = removeFrom(@, c.subs["Pattern"], fd),
                                     !["Shard"]   = removeFrom(@, c.subs["Shard"], fd)]
  <2>1. R = r
    BY <1>1 DEF Kinds
  <2>2. clearSubscriptions(S, fd) = [S EXCEPT !.registry = R, !.client[fd].subs = NoSubs]
    BY <1>1, ZenonT(40) DEF clearSubscriptions, Held, Servers
  <2> QED
    BY <2>1, <2>2, ZenonT(40)
<1>5. clearSubscriptions(S, fd) = Rewired(S, cl, r)
  BY <1>1, <1>2, <1>4, ZenonT(40) DEF Rewired, Holding, Servers
<1>6. ASSUME NEW k \in Kinds PROVE r[k] = Mirror(cl, k)
  <2> DEFINE held == c.subs[k]
  <2>1. \A m \in Names :
          /\ m \notin NoSubs[k] => Holders(cl, k, m) = Holders(S.client, k, m) \ {fd}
          /\ (m \in NoSubs[k] <=> m \in c.subs[k]) => Holders(cl, k, m) = Holders(S.client, k, m)
    BY <1>1, <1>3, HoldersChange
  <2>2. \A m \in Names : Holders(cl, k, m) = IF m \in held THEN Holders(S.client, k, m) \ {fd}
                                                           ELSE Holders(S.client, k, m)
    BY <2>1, <1>3, ZenonT(40)
  <2> HIDE DEF held, cl
  <2>3. removeFrom(Mirror(S.client, k), held, fd) = Mirror(cl, k)
    BY <2>2, MirrorLoses
  <2> QED
    BY <2>3, <1>1 DEF held
<1>7. r = [k \in Kinds |-> Mirror(cl, k)]
  BY <1>6
<1> QED
  BY <1>5, <1>7

(* Reply is confirm for one name.                                           *)
LEMMA ReplyIs ==
  ASSUME NEW S, NEW fd
  PROVE  Reply(S, fd) = confirm(S, fd, 1)
<1>1. <<"reply">> = [i \in 1 .. 1 |-> "reply"]
  OBVIOUS
<1> QED
  BY <1>1 DEF Reply, confirm

(* What a transaction leaves behind is gone.                                *)
Ended(c) == [c EXCEPT !.inMulti = FALSE, !.multiError = FALSE, !.queue = <<>>]

LEMMA EndedIs ==
  ASSUME NEW S, NEW x, Good(S, x), NEW fd \in Fds
  PROVE  LET c == S.client[fd]
             T == discardTransaction(S, fd)
         IN  /\ T = WithClient(S, fd, Ended(c)) /\ Ended(c) \in Clients
             /\ ~Ended(c).inMulti /\ Ended(c).open = c.open /\ Ended(c).subs = c.subs
             /\ Ended(c).out = c.out /\ Ended(c).sent = c.sent /\ Ended(c).proto = c.proto
<1> DEFINE c == S.client[fd]
<1>1. S \in Servers /\ S.client \in [Fds -> Clients] /\ c \in Clients
  BY DEF Good, Servers
<1>2. discardTransaction(S, fd) = WithClient(S, fd, Ended(c))
  BY <1>1, ZenonT(40) DEF discardTransaction, WithClient, Ended, Servers, Clients
<1>3. <<>> \in Seq(Commands)
  OBVIOUS
<1> HIDE DEF c
<1>4. /\ Ended(c) \in Clients
      /\ ~Ended(c).inMulti /\ Ended(c).open = c.open /\ Ended(c).subs = c.subs
      /\ Ended(c).out = c.out /\ Ended(c).sent = c.sent /\ Ended(c).proto = c.proto
  BY <1>1, <1>3, ZenonT(40) DEF Ended, Clients
<1> QED
  BY <1>2, <1>4 DEF c

LEMMA DiscardRuns ==
  ASSUME NEW S, NEW fd \in Fds, NEW b, Runs(S, fd, b)
  PROVE  RunsFree(discardTransaction(S, fd), fd, b)
<1> DEFINE c == S.client[fd]
           d == Ended(c)
<1>1. Good(S, {fd})
  BY DEF Runs
<1>2. /\ discardTransaction(S, fd) = WithClient(S, fd, d) /\ d \in Clients
      /\ ~d.inMulti /\ d.open = c.open /\ d.subs = c.subs
      /\ d.out = c.out /\ d.sent = c.sent
  BY <1>1, EndedIs
<1> HIDE DEF d
<1>3. Runs(WithClient(S, fd, d), fd, b) /\ WithClient(S, fd, d).client[fd] = d
  BY <1>2, SettingsRun
<1> QED
  BY <1>2, <1>3 DEF RunsFree

(* HELLO outside a transaction.                                             *)
LEMMA HelloRuns ==
  ASSUME NEW S, NEW fd \in Fds, NEW b \in Nat, RunsFree(S, fd, b), NEW version \in {2, 3}
  PROVE  RunsFree(hello(S, fd, version), fd, b)
<1> DEFINE c == S.client[fd]
           d == [c EXCEPT !.proto = version]
           T == WithClient(S, fd, d)
<1>1. Runs(S, fd, b) /\ ~c.inMulti /\ S \in Servers /\ S.client \in [Fds -> Clients] /\ c \in Clients
  BY ZenonT(40) DEF RunsFree, Runs, Good, Servers
<1>2. hello(S, fd, version) = confirm(T, fd, 1)
  BY <1>1, ReplyIs DEF hello, WithClient, Servers, Clients
<1> HIDE DEF c
<1>3. /\ d \in Clients /\ ~d.inMulti /\ d.open = c.open /\ d.subs = c.subs
      /\ d.out = c.out /\ d.sent = c.sent
  BY <1>1, ZenonT(40) DEF Clients
<1> HIDE DEF d
<1>4. Runs(T, fd, b) /\ T.client[fd] = d
  BY <1>1, <1>3, SettingsRun DEF c
<1> HIDE DEF T
<1> QED
  BY <1>2, <1>3, <1>4, RepliesRun DEF RunsFree, Kept

(* The handlers of commands that MULTI queues.                              *)
LEMMA HandlerRuns ==
  ASSUME NEW S, NEW fd \in Fds, NEW b \in Nat, RunsFree(S, fd, b), NEW cmd \in Commands
  PROVE  RunsFree(Handler(S, fd, cmd), fd, b)
<1>1. ASSUME NEW T, Runs(T, fd, b), T.client[fd] = S.client[fd]
      PROVE  RunsFree(Reply(T, fd), fd, b)
  <2>1. Runs(confirm(T, fd, 1), fd, b) /\ Kept(T.client[fd], confirm(T, fd, 1).client[fd])
    BY <1>1, RepliesRun
  <2> QED
    BY <2>1, <1>1, ReplyIs DEF RunsFree, Kept
<1>2. Runs(S, fd, b) /\ Good(S, {fd})
  BY DEF RunsFree, Runs
<1>3. CASE cmd.op = "subscribe"
  <2>1. cmd.kind \in Kinds /\ cmd.names \in Seq(Names)
    BY <1>3 DEF Commands
  <2> QED
    BY <2>1, <1>3, SubscribeRuns DEF Handler
<1>4. CASE cmd.op = "unsubscribe"
  <2>1. cmd.kind \in Kinds /\ cmd.names \in Seq(Names)
    BY <1>4 DEF Commands
  <2> QED
    BY <2>1, <1>4, UnsubscribeRuns DEF Handler
<1>5. CASE cmd.op = "publish"
  <2> DEFINE T == publishMessage(S, cmd.channel)
  <2>1. Runs(T, fd, b) /\ T.client[fd] = S.client[fd]
    BY <1>2, PublishGood, BesideRuns, ZenonT(40)
  <2> QED
    BY <2>1, <1>1, <1>5 DEF Handler
<1>6. CASE cmd.op = "spublish"
  <2> DEFINE T == publishShardMessage(S, cmd.channel)
  <2>1. Runs(T, fd, b) /\ T.client[fd] = S.client[fd]
    BY <1>2, PublishGood, BesideRuns, ZenonT(40)
  <2> QED
    BY <2>1, <1>1, <1>6 DEF Handler
<1>7. CASE cmd.op = "set"
  <2> DEFINE T == notifyKeyspaceEvent(S)
  <2>1. Runs(T, fd, b) /\ T.client[fd] = S.client[fd]
    BY <1>2, NotifyGood, BesideRuns
  <2> QED
    BY <2>1, <1>1, <1>7 DEF Handler
<1>8. CASE cmd.op = "hello"
  <2>1. cmd.version \in {2, 3}
    BY <1>8 DEF Commands
  <2> QED
    BY <2>1, <1>8, HelloRuns DEF Handler
<1>9. CASE cmd.op \notin {"subscribe", "unsubscribe", "publish", "spublish", "set", "hello"}
  BY <1>1, <1>2, <1>9 DEF Handler
<1> QED
  BY <1>3, <1>4, <1>5, <1>6, <1>7, <1>8, <1>9

(***************************************************************************)
(* Runs of commands, one after the other.                                  *)
(***************************************************************************)

LEMMA Induction ==
  ASSUME NEW T, 0 \in T, \A n \in Nat : n \in T => n + 1 \in T
  PROVE  \A n \in Nat : n \in T
<1> DEFINE B == Nat \ T
<1>1. SUFFICES ASSUME B # {} PROVE FALSE
  OBVIOUS
<1>2. PICK m \in B : \A k \in B : ~(<<k, m>> \in OpToRel(<, Nat))
  BY <1>1, NatLessThanWellFounded, WFMin, ZenonT(40)
<1>3. m \in Nat /\ m # 0 /\ m \notin T
  OBVIOUS
<1>4. m - 1 \in Nat /\ m - 1 < m /\ (m - 1) + 1 = m
  BY <1>3
<1>5. m - 1 \notin B
  BY <1>2, <1>3, <1>4, ZenonT(40) DEF OpToRel
<1> QED
  BY <1>3, <1>4, <1>5

(* A run of n steps of F from s in I; it exists.                            *)
IsRun(f, n, I, s, F) ==
  f \in [0 .. n -> I] /\ f[0] = s /\ \A i \in 1 .. n : f[i] = F[i][f[i - 1]]

LEMMA RunExists ==
  ASSUME NEW n \in Nat, NEW I, NEW s \in I, NEW F \in [1 .. n -> [I -> I]]
  PROVE  \E f : IsRun(f, n, I, s, F)
<1> DEFINE Is(f, m) == /\ f \in [0 .. n -> I] /\ f[0] = s
                       /\ \A i \in 1 .. n : i <= m => f[i] = F[i][f[i - 1]]
           T == {m \in Nat : m <= n => \E f : Is(f, m)}
<1>1. 0 \in T
  <2> DEFINE f == [i \in 0 .. n |-> s]
  <2>1. Is(f, 0)
    OBVIOUS
  <2> QED
    BY <2>1
<1>2. ASSUME NEW m \in Nat, m \in T PROVE m + 1 \in T
  <2>1. SUFFICES ASSUME m + 1 <= n PROVE \E f : Is(f, m + 1)
    OBVIOUS
  <2>2. PICK f : Is(f, m)
    BY <2>1, <1>2
  <2> DEFINE v == F[m + 1][f[m]]
             g == [f EXCEPT ![m + 1] = v]
  <2>3. f[m] \in I /\ m + 1 \in 1 .. n
    BY <2>1, <2>2
  <2>4. v \in I
    BY <2>3
  <2> HIDE DEF v
  <2>5. g \in [0 .. n -> I] /\ g[m + 1] = v /\ \A i \in 0 .. n : i # m + 1 => g[i] = f[i]
    BY <2>2, <2>3, <2>4
  <2> HIDE DEF g
  <2>6. g[0] = s /\ g[m] = f[m]
    BY <2>2, <2>3, <2>5
  <2>7. ASSUME NEW i \in 1 .. n, i <= m + 1 PROVE g[i] = F[i][g[i - 1]]
    <3>1. CASE i = m + 1
      BY <3>1, <2>5, <2>6 DEF v
    <3>2. CASE i <= m
      <4>1. g[i] = f[i] /\ g[i - 1] = f[i - 1]
        BY <3>2, <2>5
      <4> QED
        BY <3>2, <4>1, <2>2
    <3> QED
      BY <3>1, <3>2, <2>7
  <2> QED
    BY <2>5, <2>6, <2>7
<1> HIDE DEF T
<1>3. n \in T
  BY <1>1, <1>2, Induction
<1> QED
  BY <1>3 DEF T, IsRun

(* A run that every step keeps in I ends there.                             *)
LEMMA RunStays ==
  ASSUME NEW n \in Nat, NEW I, NEW f, f[0] \in I, \A i \in 1 .. n : f[i - 1] \in I => f[i] \in I
  PROVE  f[n] \in I
<1> DEFINE T == {m \in Nat : m <= n => f[m] \in I}
<1>1. 0 \in T
  OBVIOUS
<1>2. ASSUME NEW m \in Nat, m \in T PROVE m + 1 \in T
  <2>1. SUFFICES ASSUME m + 1 <= n PROVE f[m + 1] \in I
    OBVIOUS
  <2>2. m + 1 \in 1 .. n /\ (m + 1) - 1 = m /\ f[m] \in I
    BY <2>1, <1>2
  <2> QED
    BY <2>2
<1> HIDE DEF T
<1>3. n \in T
  BY <1>1, <1>2, Induction
<1> QED
  BY <1>3 DEF T

(* Inside EXEC a command runs with the descriptor that is noted already.    *)
LEMMA CallRuns ==
  ASSUME NEW S, NEW fd \in Fds, NEW b \in Nat, RunsFree(S, fd, b), NEW cmd \in Commands
  PROVE  RunsFree(callCommand(S, fd, cmd), fd, b)
<1> DEFINE T == Handler(S, fd, cmd)
<1>1. RunsFree(T, fd, b)
  BY HandlerRuns
<1>2. S \in Servers /\ T \in Servers /\ S.executing = fd /\ T.executing = fd
  BY <1>1 DEF RunsFree, Runs, Good
<1>3. [S EXCEPT !.executing = fd] = S /\ [T EXCEPT !.executing = fd] = T
  BY <1>2 DEF Servers
<1>4. callCommand(S, fd, cmd) = [Handler([S EXCEPT !.executing = fd], fd, cmd) EXCEPT !.executing = fd]
  BY <1>2 DEF callCommand
<1> QED
  BY <1>1, <1>3, <1>4

LEMMA QueueRuns ==
  ASSUME NEW S, NEW fd \in Fds, NEW b \in Nat, RunsFree(S, fd, b), NEW queue \in Seq(Commands)
  PROVE  RunsFree(RunQueue(S, fd, queue), fd, b)
<1> DEFINE n == Len(queue)
           I == {T \in Servers : RunsFree(T, fd, b)}
           F == [i \in 1 .. n |-> [T \in I |-> callCommand(T, fd, queue[i])]]
           Is(f) == f = [i \in 0 .. n |-> IF i = 0 THEN S ELSE callCommand(f[i - 1], fd, queue[i])]
           run == CHOOSE f : Is(f)
<1>1. S \in I /\ n \in Nat
  BY DEF RunsFree, Runs, Good
<1>2. ASSUME NEW T \in I, NEW i \in 1 .. n PROVE callCommand(T, fd, queue[i]) \in I
  <2>1. queue[i] \in Commands
    OBVIOUS
  <2>2. RunsFree(callCommand(T, fd, queue[i]), fd, b)
    BY <2>1, CallRuns
  <2> QED
    BY <2>2, ZenonT(40) DEF RunsFree, Runs, Good
<1> HIDE DEF I
<1>3. F \in [1 .. n -> [I -> I]] /\ \A T \in I, i \in 1 .. n : F[i][T] = callCommand(T, fd, queue[i])
  BY <1>2
<1> HIDE DEF F, n
<1>4. PICK f : IsRun(f, n, I, S, F)
  BY <1>1, <1>3, RunExists
<1>5. Is(f)
  <2>1. ASSUME NEW i \in 0 .. n
        PROVE  f[i] = IF i = 0 THEN S ELSE callCommand(f[i - 1], fd, queue[i])
    <3>1. CASE i # 0
      <4>1. i \in 1 .. n /\ f[i - 1] \in I
        BY <3>1, <1>1, <1>4 DEF IsRun
      <4> QED
        BY <3>1, <4>1, <1>3, <1>4 DEF IsRun
    <3> QED
      BY <3>1, <1>4 DEF IsRun
  <2> QED
    BY <2>1, <1>4 DEF IsRun
<1>6. Is(run)
  BY <1>5, ZenonT(40)
<1>7. RunQueue(S, fd, queue) = run[n]
  BY DEF RunQueue, n
<1> HIDE DEF run
<1>8. run[0] = S /\ \A i \in 1 .. n : run[i] = callCommand(run[i - 1], fd, queue[i])
  BY <1>1, <1>6
<1>9. \A i \in 1 .. n : run[i - 1] \in I => run[i] \in I
  BY <1>2, <1>8
<1>10. run[n] \in I
  BY <1>1, <1>8, <1>9, RunStays
<1> QED
  BY <1>7, <1>10 DEF I

(* QUIT, also for input that is no command.                                 *)
Leaving(c) == [c EXCEPT !.shouldClose = TRUE]

LEMMA QuitIs ==
  ASSUME NEW S, NEW fd \in Fds, NEW x, Good(Reply(S, fd), x)
  PROVE  LET T == Reply(S, fd)
             c == T.client[fd]
             d == Leaving(c)
         IN  /\ quit(S, fd) = WithClient(T, fd, d) /\ d \in Clients /\ d.open = c.open
             /\ d.subs = c.subs /\ d.out = c.out /\ d.sent = c.sent
             /\ d.inMulti => d.proto # 2 \/ \A k \in Kinds : d.subs[k] = {}
<1> DEFINE T == Reply(S, fd)
           c == T.client[fd]
           d == Leaving(c)
<1>1. /\ T \in Servers /\ T.client \in [Fds -> Clients] /\ c \in Clients
      /\ c.inMulti => c.proto # 2 \/ \A k \in Kinds : c.subs[k] = {}
  BY ZenonT(40) DEF Good, Servers, Sane
<1> HIDE DEF T
<1>2. quit(S, fd) = WithClient(T, fd, d)
  BY <1>1 DEF quit, WithClient, Leaving, Servers, T
<1> HIDE DEF c
<1>3. /\ d \in Clients /\ d.open = c.open /\ d.subs = c.subs /\ d.out = c.out
      /\ d.sent = c.sent /\ d.inMulti = c.inMulti /\ d.proto = c.proto
  BY <1>1, ZenonT(40) DEF Leaving, Clients
<1> QED
  BY <1>1, <1>2, <1>3, ZenonT(40) DEF T, c

(* Any handler, as dispatch calls it.                                       *)
LEMMA AnyHandlerRuns ==
  ASSUME NEW S, NEW fd \in Fds, NEW b \in Nat, Runs(S, fd, b), NEW cmd \in Commands,
         S.client[fd].inMulti => isTransactionControl(cmd.op),
         cmd.op = "multi" => S.client[fd].proto # 2 \/ \A k \in Kinds : S.client[fd].subs[k] = {}
  PROVE  Runs(AnyHandler(S, fd, cmd), fd, b)
<1> DEFINE c == S.client[fd]
<1>1. /\ Good(S, {fd}) /\ S \in Servers /\ S.client \in [Fds -> Clients] /\ c \in Clients
      /\ c.inMulti => c.proto # 2 \/ \A k \in Kinds : c.subs[k] = {}
  BY ZenonT(40) DEF Runs, Good, Servers, Sane
<1>2. ASSUME NEW T, Runs(T, fd, b) PROVE Runs(Reply(T, fd), fd, b)
  BY <1>2, ReplyIs, RepliesRun, ZenonT(40)
<1>3. RunsFree(discardTransaction(S, fd), fd, b)
  BY DiscardRuns
<1>4. CASE cmd.op = "multi"
  <2> DEFINE d == [c EXCEPT !.inMulti = TRUE]
             T == WithClient(S, fd, d)
  <2>1. AnyHandler(S, fd, cmd) = Reply(T, fd)
    BY <1>1, <1>4 DEF AnyHandler, multi, WithClient, Servers
  <2>2. c.proto # 2 \/ \A k \in Kinds : c.subs[k] = {}
    BY <1>4
  <2>3. /\ d \in Clients /\ d.open = c.open /\ d.subs = c.subs /\ d.out = c.out
        /\ d.sent = c.sent /\ d.proto = c.proto
    BY <1>1, ZenonT(40) DEF Clients
  <2> HIDE DEF d
  <2>4. Runs(T, fd, b)
    BY <2>2, <2>3, SettingsRun
  <2> QED
    BY <2>1, <2>4, <1>2
<1>5. CASE cmd.op = "exec"
  <2> DEFINE E == discardTransaction(S, fd)
  <2>1. Runs(Reply(S, fd), fd, b) /\ Runs(Reply(E, fd), fd, b)
    BY <1>2, <1>3 DEF RunsFree
  <2>2. RunsFree(Reply(E, fd), fd, b)
    BY <1>3, ReplyIs, RepliesRun DEF RunsFree, Kept
  <2>3. c.queue \in Seq(Commands)
    BY <1>1 DEF Clients
  <2>4. Runs(RunQueue(Reply(E, fd), fd, c.queue), fd, b)
    BY <2>2, <2>3, QueueRuns DEF RunsFree
  <2>5. AnyHandler(S, fd, cmd) \in {Reply(S, fd), Reply(E, fd), RunQueue(Reply(E, fd), fd, c.queue)}
    BY <1>5 DEF AnyHandler, exec
  <2> QED
    BY <2>1, <2>4, <2>5
<1>6. CASE cmd.op = "discard"
  <2>1. AnyHandler(S, fd, cmd) \in {Reply(S, fd), Reply(discardTransaction(S, fd), fd)}
    BY <1>6 DEF AnyHandler, discard
  <2> QED
    BY <2>1, <1>2, <1>3 DEF RunsFree
<1>7. CASE cmd.op = "quit"
  <2> DEFINE T == Reply(S, fd)
             d == Leaving(T.client[fd])
  <2>1. Runs(T, fd, b) /\ Good(T, {fd})
    BY <1>2 DEF Runs
  <2>2. /\ quit(S, fd) = WithClient(T, fd, d) /\ d \in Clients /\ d.open = T.client[fd].open
        /\ d.subs = T.client[fd].subs /\ d.out = T.client[fd].out /\ d.sent = T.client[fd].sent
        /\ d.inMulti => d.proto # 2 \/ \A k \in Kinds : d.subs[k] = {}
    BY <2>1, QuitIs, ZenonT(40)
  <2> HIDE DEF T, d
  <2>3. Runs(WithClient(T, fd, d), fd, b)
    BY <2>1, <2>2, SettingsRun
  <2> QED
    BY <2>2, <2>3, <1>7 DEF AnyHandler
<1>8. CASE cmd.op = "reset"
  <2> DEFINE A == clearSubscriptions(S, fd)
             B == discardTransaction(A, fd)
             e == B.client[fd]
             d == [e EXCEPT !.proto = 2]
             T == WithClient(B, fd, d)
  <2>1. Runs(A, fd, b)
    <3> DEFINE cl == [S.client EXCEPT ![fd] = Holding(c, NoSubs)]
               r == [k \in Kinds |-> Mirror(cl, k)]
    <3>1. A = Rewired(S, cl, r)
      BY <1>1, ClearIs DEF Runs
    <3>2. NoSubs \in [Kinds -> SUBSET Names] /\ \A k \in Kinds : NoSubs[k] = {}
      BY DEF NoSubs
    <3> HIDE DEF r, cl
    <3>3. Runs(Rewired(S, cl, r), fd, b)
      BY <3>2, SubsRun DEF r, cl
    <3> QED
      BY <3>1, <3>3
  <2> HIDE DEF A
  <2>2. Runs(B, fd, b) /\ ~e.inMulti
    BY <2>1, DiscardRuns DEF RunsFree
  <2> HIDE DEF B
  <2>3. B \in Servers /\ B.client \in [Fds -> Clients] /\ e \in Clients
    BY <2>2, ZenonT(40) DEF Runs, Good, Servers
  <2>4. AnyHandler(S, fd, cmd) = Reply(T, fd)
    BY <2>3, <1>8 DEF AnyHandler, reset, A, B, WithClient, Servers
  <2> HIDE DEF e
  <2>5. /\ d \in Clients /\ d.open = e.open /\ d.subs = e.subs /\ d.out = e.out
        /\ d.sent = e.sent /\ ~d.inMulti
    BY <2>2, <2>3, ZenonT(40) DEF Clients
  <2> HIDE DEF d
  <2>6. Runs(T, fd, b)
    BY <2>2, <2>5, SettingsRun DEF e
  <2> QED
    BY <2>4, <2>6, <1>2
<1>9. CASE cmd.op \notin {"multi", "exec", "discard", "quit", "reset"}
  <2>1. AnyHandler(S, fd, cmd) = Handler(S, fd, cmd) /\ ~c.inMulti
    BY <1>9 DEF AnyHandler, isTransactionControl
  <2> QED
    BY <2>1, HandlerRuns DEF RunsFree
<1> QED
  BY <1>4, <1>5, <1>6, <1>7, <1>8, <1>9

(***************************************************************************)
(* Between two commands.                                                   *)
(***************************************************************************)

(* The client that is served may have output that nobody asked the loop for.*)
Between(S, fd) == Good(S, {fd}) /\ Idle(S) /\ S.client[fd].open

(* A command is refused, queued or answered without a handler.              *)
LEMMA ReplyBetween ==
  ASSUME NEW S, NEW fd \in Fds, Between(S, fd), NEW c \in Clients,
         c.open = S.client[fd].open, c.subs = S.client[fd].subs,
         c.out = S.client[fd].out, c.sent = S.client[fd].sent,
         c.inMulti => c.proto # 2 \/ \A k \in Kinds : c.subs[k] = {}
  PROVE  Between(Reply(WithClient(S, fd, c), fd), fd)
<1> DEFINE T == WithClient(S, fd, c)
           f == <<"reply">>
           U == Produce(T, For(fd, f))
<1>1. /\ Good(T, {fd}) /\ T.executing = S.executing /\ T.selfPending = S.selfPending
      /\ T.client[fd] = c
  <2>1. Good(S, {fd})
    BY DEF Between
  <2> QED
    BY <2>1, ClientChanges
<1> HIDE DEF T
<1>2. f \in Seq(Frames) /\ c.open
  <2>1. f \in Seq(Frames)
    BY DEF Frames
  <2> QED
    BY <2>1 DEF Between
<1> HIDE DEF f
<1>3. /\ Good(U, {fd}) /\ U.executing = T.executing /\ U.selfPending = T.selfPending
      /\ U.client[fd] = Longer(c, f)
  BY <1>1, <1>2, Appends
<1>4. Longer(c, f).open = c.open
  BY DEF Longer, Clients
<1>5. U = Reply(T, fd)
  BY DEF Reply, f
<1> HIDE DEF U
<1> QED
  BY <1>1, <1>3, <1>4, <1>5, ZenonT(40) DEF Between, Idle, T

(* The handler returns, and what was parked goes behind its reply.          *)
LEMMA UnparkedBetween ==
  ASSUME NEW S, NEW fd \in Fds, NEW b \in Nat, Runs(S, fd, b)
  PROVE  Between(Unparked(S, fd, b), fd)
<1> DEFINE s == S.client[fd].out
           added == SubSeq(s, b + 1, Len(s))
           p == S.selfPending
           U == Produce(S, For(fd, p))
           none == <<>>
           T == Noted(U, NoOne, none)
<1>1. /\ Good(S, {fd}) /\ S.client[fd].open /\ s \in Seq(Frames) /\ p \in Seq(Frames)
      /\ S.client[fd] \in Clients
  BY ZenonT(40) DEF Runs, Good, Servers, Clients
<1>2. b \in 0 .. Len(s) /\ \A i \in b + 1 .. Len(s) : s[i] = "reply"
  BY <1>1 DEF Runs, Replied
<1>3. "message" \notin Range(added)
  <2>1. /\ added \in Seq(Frames) /\ Len(added) = Len(s) - b
        /\ \A i \in 1 .. Len(s) - b : added[i] = s[b + i]
    BY <1>1, <1>2, Rest
  <2> HIDE DEF added
  <2>2. ASSUME NEW i \in DOMAIN added PROVE added[i] # "message"
    <3>1. i \in 1 .. Len(s) - b /\ b + i \in b + 1 .. Len(s)
      BY <2>1, <1>1, <1>2
    <3> QED
      BY <3>1, <2>1, <1>2, ZenonT(40)
  <2> QED
    BY <2>2 DEF Range
<1> HIDE DEF p, s, added
<1>4. Good(U, {fd}) /\ U.client[fd] = Longer(S.client[fd], p)
  BY <1>1, Appends
<1>5. Longer(S.client[fd], p).open = S.client[fd].open
  BY <1>1, ZenonT(40) DEF Longer, Clients
<1> HIDE DEF U
<1>6. NoOne \in Fds \cup {NoOne} /\ none \in Seq(Frames)
  OBVIOUS
<1> HIDE DEF none
<1>7. Good(T, {fd}) /\ T.client = U.client /\ T.executing = NoOne /\ T.selfPending = none
  <2>1. Good(U, {fd})
    BY <1>4
  <2> QED
    BY <2>1, <1>6, NotesChange
<1>8. U \in Servers /\ U.early = FALSE
  BY <1>4 DEF Good
<1>9. Unparked(S, fd, b) = [U EXCEPT !.executing = NoOne, !.selfPending = <<>>,
                                     !.early = @ \/ "message" \in Range(added)]
  BY DEF Unparked, U, s, added, p
<1>10. Unparked(S, fd, b) = T
  BY <1>3, <1>8, <1>9, ZenonT(40) DEF Noted, Servers, none
<1> HIDE DEF T
<1> QED
  BY <1>1, <1>4, <1>5, <1>7, <1>10, ZenonT(40) DEF Between, Idle, none

LEMMA DispatchBetween ==
  ASSUME NEW S, NEW fd \in Fds, Between(S, fd), NEW cmd \in Commands
  PROVE  Between(dispatch(S, fd, cmd), fd)
<1> DEFINE c == S.client[fd]
<1>1. /\ Good(S, {fd}) /\ S \in Servers /\ S.client \in [Fds -> Clients] /\ c \in Clients
      /\ c.inMulti => c.proto # 2 \/ \A k \in Kinds : c.subs[k] = {}
      /\ S.executing = NoOne /\ S.selfPending = <<>>
  BY ZenonT(40) DEF Between, Idle, Good, Servers, Sane
<1>2. CASE dispatch(S, fd, cmd) = reject(S, fd, cmd)
  <2>1. CASE cmd.op = "exec"
    <3> DEFINE d == Ended(c)
    <3>1. /\ discardTransaction(S, fd) = WithClient(S, fd, d) /\ d \in Clients
          /\ ~d.inMulti /\ d.open = c.open /\ d.subs = c.subs /\ d.out = c.out /\ d.sent = c.sent
      BY <1>1, EndedIs
    <3> HIDE DEF d
    <3>2. Between(Reply(WithClient(S, fd, d), fd), fd)
      BY <3>1, ReplyBetween
    <3> QED
      BY <3>1, <3>2, <2>1, <1>2 DEF reject
  <2>2. CASE cmd.op # "exec"
    <3> DEFINE d == [c EXCEPT !.multiError = @ \/ c.inMulti]
    <3>1. reject(S, fd, cmd) = Reply(WithClient(S, fd, d), fd)
      BY <2>2, <1>1 DEF reject, WithClient, Servers
    <3>2. /\ d \in Clients /\ d.open = c.open /\ d.subs = c.subs /\ d.out = c.out
          /\ d.sent = c.sent /\ d.inMulti = c.inMulti /\ d.proto = c.proto
      BY <1>1, ZenonT(40) DEF Clients
    <3> HIDE DEF d
    <3>3. Between(Reply(WithClient(S, fd, d), fd), fd)
      BY <3>2, <1>1, ReplyBetween
    <3> QED
      BY <3>1, <3>3, <1>2
  <2> QED
    BY <2>1, <2>2
<1>3. CASE dispatch(S, fd, cmd) = Reply([S EXCEPT !.client[fd].queue = Append(@, cmd)], fd)
  <2> DEFINE q == Append(c.queue, cmd)
             d == [c EXCEPT !.queue = q]
  <2>1. [S EXCEPT !.client[fd].queue = Append(@, cmd)] = WithClient(S, fd, d) /\ q \in Seq(Commands)
    BY <1>1 DEF WithClient, Servers, Clients
  <2> HIDE DEF q
  <2>2. /\ d \in Clients /\ d.open = c.open /\ d.subs = c.subs /\ d.out = c.out
        /\ d.sent = c.sent /\ d.inMulti = c.inMulti /\ d.proto = c.proto
    BY <2>1, <1>1, ZenonT(40) DEF Clients
  <2> HIDE DEF d
  <2>3. Between(Reply(WithClient(S, fd, d), fd), fd)
    BY <2>2, <1>1, ReplyBetween
  <2> QED
    BY <2>1, <2>3, <1>3, ZenonT(40)
<1>4. CASE /\ dispatch(S, fd, cmd) = Unparked(AnyHandler([S EXCEPT !.executing = fd], fd, cmd), fd, Len(c.out))
           /\ ~(c.proto = 2 /\ inSubscriberMode(c) /\ ~isAllowedInSubscriberMode(cmd.op))
           /\ ~(c.inMulti /\ ~isTransactionControl(cmd.op))
  <2> DEFINE none == <<>>
             T == Noted(S, fd, none)
             b == Len(c.out)
  <2>1. [S EXCEPT !.executing = fd] = T /\ none \in Seq(Frames)
    BY <1>1, ZenonT(40) DEF Noted, Servers
  <2> HIDE DEF none
  <2>2. Good(T, {fd}) /\ T.client = S.client /\ T.executing = fd
    BY <2>1, <1>1, NotesChange
  <2>3. b \in Nat /\ Replied(c.out, b)
    BY <1>1 DEF Clients, Replied
  <2> HIDE DEF T, b
  <2>4. Runs(T, fd, b)
    BY <2>2, <2>3 DEF Runs, Between
  <2>5. cmd.op = "multi" => c.proto # 2 \/ \A k \in Kinds : c.subs[k] = {}
    BY <1>4 DEF inSubscriberMode, isAllowedInSubscriberMode
  <2>6. Runs(AnyHandler(T, fd, cmd), fd, b)
    BY <2>2, <2>3, <2>4, <2>5, <1>4, AnyHandlerRuns
  <2> QED
    BY <2>1, <2>3, <2>6, <1>4, UnparkedBetween DEF b
<1> QED
  BY <1>2, <1>3, <1>4 DEF dispatch

(***************************************************************************)
(* Reading, writing and closing.                                           *)
(***************************************************************************)

(* Between two events.                                                      *)
Rested(S) == Good(S, {}) /\ Idle(S)

(* Nothing has happened to a connection that is new or none.                *)
LEMMA FreshSane ==
  /\ NewClient \in Clients /\ NewClient.open = TRUE /\ Sane(NewClient, <<>>, <<>>)
  /\ Closed \in Clients /\ Closed.open = FALSE /\ Sane(Closed, <<>>, <<>>)
  /\ \A k \in Kinds : NewClient.subs[k] = {}
  /\ NewClient.out = <<>> /\ NewClient.sent = 0
<1>1. NoSubs \in [Kinds -> SUBSET Names] /\ \A k \in Kinds : NoSubs[k] = {}
  BY DEF NoSubs
<1>2. <<>> \in Seq(Commands) /\ <<>> \in Seq(Frames)
  OBVIOUS
<1>3. NewClient \in Clients
  BY <1>1, <1>2 DEF NewClient, Clients
<1>4. Closed \in Clients
  BY <1>3, ZenonT(40) DEF Closed, Clients
<1>5. /\ NewClient.open = TRUE /\ ~NewClient.inMulti
      /\ NewClient.out = <<>> /\ NewClient.sent = 0 /\ NewClient.subs = NoSubs
  BY DEF NewClient
<1>6. /\ Closed.open = FALSE /\ ~Closed.inMulti
      /\ Closed.out = <<>> /\ Closed.sent = 0
  BY <1>3, <1>5 DEF Closed, Clients
<1>7. ASSUME NEW c, c.out = <<>>, c.sent = 0, ~c.inMulti PROVE Sane(c, <<>>, <<>>)
  <2>1. SubSeq(<<>>, 0 + 1, Len(<<>>)) = <<>> /\ Len(<<>>) = 0 /\ <<>> \o <<>> = <<>>
    OBVIOUS
  <2>2. Unsent(c) = <<>>
    BY <2>1, <1>7 DEF Unsent
  <2>3. Room \in Nat
    BY PubSubAssumption
  <2> QED
    BY <2>1, <2>2, <2>3, <1>7 DEF Sane
<1> QED
  BY <1>1, <1>3, <1>4, <1>5, <1>6, <1>7

LEMMA CloseRests ==
  ASSUME NEW S, NEW fd \in Fds, Between(S, fd)
  PROVE  Rested(closeClient(S, fd)) /\ ~closeClient(S, fd).client[fd].open
<1> DEFINE cl == [S.client EXCEPT ![fd] = Holding(S.client[fd], NoSubs)]
           r == [k \in Kinds |-> Mirror(cl, k)]
           A == Rewired(S, cl, r)
           T == [A EXCEPT !.client[fd] = Closed, !.interest[fd] = {}, !.wire[fd] = <<>>, !.owed[fd] = <<>>]
<1>1. Good(S, {fd}) /\ Idle(S) /\ S.client[fd].open /\ S.client \in [Fds -> Clients]
  BY ZenonT(40) DEF Between, Good, Servers
<1>2. closeClient(S, fd) = T
  <2>1. clearSubscriptions(S, fd) = A
    BY <1>1, ClearIs
  <2> QED
    BY <2>1, <1>1 DEF closeClient, IsOpen
<1>3. NoSubs \in [Kinds -> SUBSET Names] /\ \A k \in Kinds : NoSubs[k] = {}
  BY DEF NoSubs
<1>4. cl[fd].subs = NoSubs
  BY <1>1 DEF Holding, Clients
<1>5. /\ Good(A, {fd}) /\ A.executing = S.executing /\ A.selfPending = S.selfPending
      /\ A.client = cl
  <2>1. /\ cl = [S.client EXCEPT ![fd] = Holding(S.client[fd], NoSubs)]
        /\ r = [k \in Kinds |-> Mirror(cl, k)]
    OBVIOUS
  <2>2. Good(S, {fd})
    BY <1>1
  <2>3. /\ NoSubs \in [Kinds -> SUBSET Names]
        /\ S.client[fd].inMulti => S.client[fd].proto # 2 \/ \A k \in Kinds : NoSubs[k] = {}
    BY <1>3
  <2> HIDE DEF r, cl
  <2> QED
    BY <2>1, <2>2, <2>3, SubsChange
<1> HIDE DEF A, cl
<1>6. A \in Servers /\ A.early = FALSE /\ A.client \in [Fds -> Clients]
      /\ A.interest \in [Fds -> SUBSET {"Read", "Write"}]
      /\ A.wire \in [Fds -> Seq(Frames)] /\ A.owed \in [Fds -> Seq(Frames)]
  BY <1>5, ZenonT(40) DEF Good, Servers
<1>7. Closed \in Clients /\ Closed.open = FALSE /\ Sane(Closed, <<>>, <<>>)
  BY FreshSane
<1>8. T \in Servers
  <2> DEFINE a == [A.client EXCEPT ![fd] = Closed]
             i == [A.interest EXCEPT ![fd] = {}]
             w == [A.wire EXCEPT ![fd] = <<>>]
             o == [A.owed EXCEPT ![fd] = <<>>]
  <2>1. T = [A EXCEPT !.client = a, !.interest = i, !.wire = w, !.owed = o]
    BY <1>6 DEF Servers
  <2>2. /\ a \in [Fds -> Clients] /\ i \in [Fds -> SUBSET {"Read", "Write"}]
        /\ w \in [Fds -> Seq(Frames)] /\ o \in [Fds -> Seq(Frames)]
    BY <1>6, <1>7
  <2> HIDE DEF a, i, w, o, T
  <2> QED
    BY <2>1, <2>2, <1>6, ZenonT(40) DEF Servers
<1>9. /\ T.registry = A.registry /\ T.selfPending = A.selfPending
      /\ T.executing = A.executing /\ T.early = A.early
      /\ T.client[fd] = Closed /\ T.wire[fd] = <<>> /\ T.owed[fd] = <<>>
      /\ \A g \in Fds \ {fd} : /\ T.client[g] = A.client[g] /\ T.interest[g] = A.interest[g]
                               /\ T.wire[g] = A.wire[g] /\ T.owed[g] = A.owed[g]
  BY <1>6 DEF Servers
<1> HIDE DEF T
<1>10. ASSUME NEW k \in Kinds PROVE Mirror(T.client, k) = Mirror(A.client, k)
  <2>1. \A n \in Names : Holders(T.client, k, n) = Holders(A.client, k, n)
    BY <1>3, <1>4, <1>5, <1>7, <1>9 DEF Holders
  <2> QED
    BY <2>1 DEF Mirror
<1>11. ASSUME NEW g \in Fds
       PROVE  /\ Sane(T.client[g], T.wire[g], T.owed[g])
              /\ T.client[g].open => T.interest[g] # {}
              /\ Asks(T.client[g], T.interest[g])
  <2>1. CASE g = fd
    BY <2>1, <1>7, <1>9 DEF Asks
  <2>2. CASE g # fd
    BY <2>2, <1>5, <1>9 DEF Good
  <2> QED
    BY <2>1, <2>2
<1>12. Good(T, {})
  BY <1>5, <1>8, <1>9, <1>10, <1>11 DEF Good
<1> QED
  BY <1>1, <1>2, <1>5, <1>7, <1>9, <1>12 DEF Rested, Idle

(* The socket and the output of a client change.                            *)
Moved(S, fd, c, w) == [S EXCEPT !.client[fd] = c, !.wire[fd] = w]

LEMMA SocketMoves ==
  ASSUME NEW S, NEW fd \in Fds, Between(S, fd), NEW c \in Clients, NEW w \in Seq(Frames),
         c.open, c.subs = S.client[fd].subs, Sane(c, w, S.owed[fd])
  PROVE  LET T == Moved(S, fd, c, w)
         IN  Between(T, fd) /\ T.client[fd] = c
<1> DEFINE T == Moved(S, fd, c, w)
           cl == [S.client EXCEPT ![fd] = c]
           ws == [S.wire EXCEPT ![fd] = w]
<1>1. /\ Good(S, {fd}) /\ S \in Servers /\ S.client \in [Fds -> Clients]
      /\ S.wire \in [Fds -> Seq(Frames)] /\ S.client[fd].open
  BY ZenonT(40) DEF Between, Good, Servers
<1>2. T = [S EXCEPT !.client = cl, !.wire = ws]
  BY <1>1 DEF Moved, Servers
<1>3. /\ cl \in [Fds -> Clients] /\ ws \in [Fds -> Seq(Frames)] /\ cl[fd] = c /\ ws[fd] = w
      /\ \A g \in Fds \ {fd} : cl[g] = S.client[g] /\ ws[g] = S.wire[g]
  BY <1>1
<1> HIDE DEF cl, ws
<1>4. T \in Servers
  BY <1>1, <1>2, <1>3, ZenonT(40) DEF Servers
<1>5. /\ T.client = cl /\ T.registry = S.registry /\ T.interest = S.interest
      /\ T.selfPending = S.selfPending /\ T.executing = S.executing /\ T.early = S.early
      /\ T.wire = ws /\ T.owed = S.owed
  BY <1>1, <1>2 DEF Servers
<1> HIDE DEF T
<1>6. ASSUME NEW g \in Fds
      PROVE  /\ Sane(T.client[g], T.wire[g], T.owed[g])
             /\ T.client[g].open => T.interest[g] # {}
             /\ g \notin {fd} => Asks(T.client[g], T.interest[g])
  <2>1. CASE g = fd
    BY <2>1, <1>1, <1>3, <1>5, ZenonT(40) DEF Good
  <2>2. CASE g # fd
    BY <2>2, <1>3, <1>5 DEF Good, Between
  <2> QED
    BY <2>1, <2>2
<1>7. \A g \in Fds : T.client[g].open = S.client[g].open /\ T.client[g].subs = S.client[g].subs
  <2>1. c.open = TRUE /\ S.client[fd].open = TRUE
    BY <1>1 DEF Clients
  <2> QED
    BY <2>1, <1>3, <1>5, ZenonT(40)
<1>8. Good(T, {fd})
  BY <1>1, <1>4, <1>5, <1>6, <1>7, StaysGood, ZenonT(40)
<1> QED
  BY <1>3, <1>5, <1>8 DEF Between, Idle, T

LEMMA LoopRests ==
  ASSUME NEW S, NEW fd \in Fds, Between(S, fd)
  PROVE  Rested(modFd(S, {fd}, {"Read", "Write"}))
<1> DEFINE T == modFd(S, {fd}, {"Read", "Write"})
<1>1. Good(T, {fd} \ {fd}) /\ T.executing = S.executing /\ T.selfPending = S.selfPending
  BY LoopAsked DEF Between
<1> HIDE DEF T
<1>2. {fd} \ {fd} = {}
  OBVIOUS
<1> QED
  BY <1>1, <1>2, ZenonT(40) DEF Between, Rested, Idle, T

(* The loop need no longer be asked for a client whose output is empty.     *)
LEMMA LoopDismissed ==
  ASSUME NEW S, NEW fd \in Fds, Between(S, fd), S.client[fd].sent = 0, S.client[fd].out = <<>>
  PROVE  Rested(modFd(S, {fd}, {"Read"}))
<1> DEFINE T == modFd(S, {fd}, {"Read"})
           i == [g \in Fds |-> IF g \in {fd} /\ S.interest[g] # {} THEN {"Read"} ELSE S.interest[g]]
<1>1. /\ Good(S, {fd}) /\ S \in Servers /\ S.interest \in [Fds -> SUBSET {"Read", "Write"}]
      /\ Idle(S)
  BY ZenonT(40) DEF Between, Good, Servers
<1>2. T = [S EXCEPT !.interest = i] /\ i \in [Fds -> SUBSET {"Read", "Write"}]
  BY <1>1 DEF modFd
<1>3. /\ S.interest[fd] # {} => i[fd] # {}
      /\ \A g \in Fds \ {fd} : i[g] = S.interest[g]
  OBVIOUS
<1> HIDE DEF i
<1>4. T \in Servers
  BY <1>1, <1>2, ZenonT(40) DEF Servers
<1>5. /\ T.client = S.client /\ T.registry = S.registry /\ T.interest = i
      /\ T.selfPending = S.selfPending /\ T.executing = S.executing /\ T.early = S.early
      /\ T.wire = S.wire /\ T.owed = S.owed
  BY <1>1, <1>2 DEF Servers
<1> HIDE DEF T
<1>6. ~(S.client[fd].sent < Len(S.client[fd].out))
  <2>1. Len(<<>>) = 0
    OBVIOUS
  <2> QED
    BY <2>1
<1>7. ASSUME NEW g \in Fds
      PROVE  /\ Sane(T.client[g], T.wire[g], T.owed[g])
             /\ T.client[g].open => T.interest[g] # {}
             /\ Asks(T.client[g], T.interest[g])
  BY <1>1, <1>3, <1>5, <1>6 DEF Good, Asks
<1>8. Good(T, {})
  BY <1>1, <1>4, <1>5, <1>7, StaysGood, ZenonT(40)
<1> QED
  BY <1>1, <1>5, <1>8 DEF Rested, Idle, T

(* The write loop sends what fits, and leaves the loop asked for the rest.  *)
LEMMA FlushRests ==
  ASSUME NEW S, NEW fd \in Fds, Between(S, fd), NEW broken
  PROVE  Rested(flushOutput(S, fd, broken))
<1> DEFINE c == S.client[fd]
           w == S.wire[fd]
           o == S.owed[fd]
           u == Unsent(c)
           n == Min({Len(u), Room - Len(w)})
           v == w \o SubSeq(u, 1, n)
           d == [c EXCEPT !.sent = @ + n]
           e == [d EXCEPT !.out = <<>>, !.sent = 0]
           T == Moved(S, fd, d, v)
           U == Moved(S, fd, e, v)
<1>1. /\ Good(S, {fd}) /\ S \in Servers /\ c \in Clients /\ w \in Seq(Frames) /\ c.open
      /\ S.client \in [Fds -> Clients] /\ S.wire \in [Fds -> Seq(Frames)]
      /\ Sane(c, w, o)
  BY ZenonT(40) DEF Between, Good, Servers
<1>2. n \in 0 .. Len(u) /\ Len(w) + n <= Room
  <2>1. c.out \in Seq(Frames) /\ c.sent \in 0 .. Len(c.out) /\ Len(w) \in Nat /\ Len(w) <= Room
    BY <1>1 DEF Clients, Sane
  <2>2. u \in Seq(Frames)
    BY <2>1, Rest DEF Unsent
  <2> DEFINE l == Len(u)
             m == Room - Len(w)
  <2>3. l \in Nat /\ m \in Nat /\ Len(w) + m = Room
    BY <2>1, <2>2, PubSubAssumption
  <2> HIDE DEF l, m
  <2>4. \E y \in {l, m} : \A z \in {l, m} : y <= z
    BY <2>3
  <2>5. Min({l, m}) \in {l, m} /\ \A z \in {l, m} : Min({l, m}) <= z
    BY <2>4, ZenonT(40) DEF Min
  <2> QED
    BY <2>1, <2>3, <2>5 DEF l, m
<1>3. /\ flushOutput(S, fd, broken)
           \in {closeClient(S, fd), modFd(T, {fd}, {"Read", "Write"}), closeClient(T, fd),
                modFd(U, {fd}, {"Read"})}
      /\ n < Len(u) => flushOutput(S, fd, broken)
                         \in {closeClient(S, fd), modFd(T, {fd}, {"Read", "Write"})}
  <2>1. T = [S EXCEPT !.wire[fd] = @ \o SubSeq(u, 1, n), !.client[fd].sent = @ + n]
    BY <1>1, ZenonT(40) DEF Moved, Servers
  <2>2. U = [T EXCEPT !.client[fd].out = <<>>, !.client[fd].sent = 0]
    <3> HIDE DEF d, v, c, w
    <3> QED
      BY <1>1, ZenonT(40) DEF Moved, Servers
  <2> HIDE DEF T, U, n
  <2> QED
    BY <2>1, <2>2 DEF flushOutput, n
<1> HIDE DEF n, u, w, o, c
<1>4. d \in Clients /\ v \in Seq(Frames) /\ Sane(d, v, o) /\ Len(u) = Len(c.out) - c.sent
  BY <1>1, <1>2, SaneSends, ZenonT(40) DEF u
<1>5. d.open /\ d.subs = c.subs /\ d.out = c.out /\ d.sent = c.sent + n /\ d.inMulti = c.inMulti
  BY <1>1 DEF Clients
<1> HIDE DEF d, v
<1>6. Between(T, fd)
  BY <1>4, <1>5, SocketMoves DEF c, o
<1>7. CASE n = Len(u)
  <2>1. e \in Clients
    <3>1. <<>> \in Seq(Frames)
      OBVIOUS
    <3> QED
      BY <3>1, <1>4, ZenonT(40) DEF Clients
  <2>2. /\ e.open = d.open /\ e.subs = d.subs /\ e.out = <<>> /\ e.sent = 0
        /\ e.inMulti = d.inMulti /\ e.proto = d.proto
    BY <1>4 DEF Clients
  <2> HIDE DEF e
  <2>3. c.out \in Seq(Frames) /\ c.sent \in Nat
    BY <1>1 DEF Clients
  <2>4. d.sent = Len(d.out)
    BY <2>3, <1>4, <1>5, <1>7
  <2>5. Unsent(d) = <<>> /\ Unsent(e) = <<>>
    <3>1. ASSUME NEW s \in Seq(Frames) PROVE SubSeq(s, Len(s) + 1, Len(s)) = <<>>
      OBVIOUS
    <3>2. <<>> \in Seq(Frames) /\ Len(<<>>) = 0
      OBVIOUS
    <3>3. SubSeq(<<>>, 0 + 1, Len(<<>>)) = <<>>
      BY <3>1, <3>2
    <3> QED
      BY <3>1, <3>3, <2>2, <2>3, <2>4, <1>5 DEF Unsent
  <2>6. e.sent <= Len(e.out)
    <3>1. Len(<<>>) = 0
      OBVIOUS
    <3> QED
      BY <3>1, <2>2
  <2>7. Sane(e, v, o)
    BY <2>2, <2>5, <2>6, <1>4 DEF Sane
  <2>8. Between(U, fd) /\ U.client[fd] = e
    <3>1. e.open /\ e.subs = S.client[fd].subs /\ Sane(e, v, S.owed[fd]) /\ v \in Seq(Frames)
      BY <2>2, <2>7, <1>4, <1>5 DEF c, o
    <3> QED
      BY <3>1, <2>1, SocketMoves
  <2> QED
    BY <2>2, <2>8, <1>3, <1>6, LoopDismissed, CloseRests, LoopRests
<1>8. CASE n < Len(u)
  BY <1>3, <1>6, <1>8, LoopRests, CloseRests
<1> QED
  BY <1>2, <1>7, <1>8

(* A connection is served, or was and is closed.                            *)
Serving(S, fd) == Good(S, {fd}) /\ Idle(S)

LEMMA ServingRests ==
  ASSUME NEW S, NEW fd \in Fds
  PROVE  /\ Rested(S) => Serving(S, fd)
         /\ Serving(S, fd) /\ ~S.client[fd].open => Rested(S)
         /\ Serving(S, fd) /\ S.client[fd].open => Between(S, fd)
<1>1. Good(S, {}) => Good(S, {fd})
  BY ZenonT(40) DEF Good
<1>2. Good(S, {fd}) /\ ~S.client[fd].open => Good(S, {})
  BY ZenonT(40) DEF Good, Asks
<1> QED
  BY <1>1, <1>2 DEF Rested, Serving, Between

LEMMA QuitBetween ==
  ASSUME NEW S, NEW fd \in Fds, Between(S, fd)
  PROVE  Between(quit(S, fd), fd)
<1> DEFINE c == S.client[fd]
           T == Reply(S, fd)
           d == Leaving(T.client[fd])
<1>1. /\ S \in Servers /\ S.client \in [Fds -> Clients] /\ c \in Clients
      /\ c.inMulti => c.proto # 2 \/ \A k \in Kinds : c.subs[k] = {}
  BY ZenonT(40) DEF Between, Good, Servers, Sane
<1>2. S = WithClient(S, fd, c)
  BY <1>1 DEF WithClient, Servers
<1>3. Between(T, fd)
  <2>1. Between(Reply(WithClient(S, fd, c), fd), fd)
    BY <1>1, ReplyBetween
  <2> QED
    BY <2>1, <1>2
<1>4. /\ quit(S, fd) = WithClient(T, fd, d) /\ d \in Clients /\ d.open = T.client[fd].open
      /\ d.subs = T.client[fd].subs /\ d.out = T.client[fd].out /\ d.sent = T.client[fd].sent
      /\ d.inMulti => d.proto # 2 \/ \A k \in Kinds : d.subs[k] = {}
  BY <1>3, QuitIs, ZenonT(40) DEF Between
<1> HIDE DEF T, d
<1>5. LET U == WithClient(T, fd, d)
      IN  /\ Good(U, {fd}) /\ U.executing = T.executing /\ U.selfPending = T.selfPending
          /\ U.client[fd] = d
  <2>1. Good(T, {fd})
    BY <1>3 DEF Between
  <2> QED
    BY <2>1, <1>4, ClientChanges
<1> QED
  BY <1>3, <1>4, <1>5, ZenonT(40) DEF Between, Idle

LEMMA ProcessOneServes ==
  ASSUME NEW S, NEW fd \in Fds, Serving(S, fd), NEW cmd \in Commands, NEW broken
  PROVE  Serving(ProcessOne(S, fd, cmd, broken), fd)
<1> DEFINE T == IF cmd.op = "bad" THEN quit(S, fd) ELSE dispatch(S, fd, cmd)
           F == flushOutput(T, fd, broken)
<1>1. SUFFICES ASSUME S.client[fd].open PROVE Serving(CloseIfAsked(T, fd, broken), fd)
  BY DEF ProcessOne, IsOpen
<1>2. Between(T, fd)
  BY <1>1, ServingRests, QuitBetween, DispatchBetween
<1> HIDE DEF T
<1>3. Rested(F)
  BY <1>2, FlushRests
<1> HIDE DEF F
<1>4. Serving(closeClient(F, fd), fd)
  <2>1. CASE F.client[fd].open
    BY <2>1, <1>3, ServingRests, CloseRests
  <2>2. CASE ~F.client[fd].open
    BY <2>2, <1>3, ServingRests DEF closeClient, IsOpen
  <2> QED
    BY <2>1, <2>2
<1>5. Serving(T, fd)
  BY <1>2 DEF Between, Serving
<1> QED
  BY <1>4, <1>5 DEF CloseIfAsked, F

LEMMA InputServes ==
  ASSUME NEW S, NEW fd \in Fds, Serving(S, fd), NEW cmds \in Seq(Commands), NEW broken
  PROVE  Serving(processInputBuffer(S, fd, cmds, broken), fd)
<1> DEFINE n == Len(cmds)
           I == {T \in Servers : Serving(T, fd)}
           F == [i \in 1 .. n |-> [T \in I |-> ProcessOne(T, fd, cmds[i], broken)]]
           Is(f) == f = [i \in 0 .. n |-> IF i = 0 THEN S ELSE ProcessOne(f[i - 1], fd, cmds[i], broken)]
           run == CHOOSE f : Is(f)
<1>1. S \in I /\ n \in Nat
  BY DEF Serving, Good
<1>2. ASSUME NEW T \in I, NEW i \in 1 .. n PROVE ProcessOne(T, fd, cmds[i], broken) \in I
  <2>1. cmds[i] \in Commands
    OBVIOUS
  <2>2. Serving(ProcessOne(T, fd, cmds[i], broken), fd)
    BY <2>1, ProcessOneServes
  <2> QED
    BY <2>2, ZenonT(40) DEF Serving, Good
<1> HIDE DEF I
<1>3. F \in [1 .. n -> [I -> I]] /\ \A T \in I, i \in 1 .. n : F[i][T] = ProcessOne(T, fd, cmds[i], broken)
  BY <1>2
<1> HIDE DEF F, n
<1>4. PICK f : IsRun(f, n, I, S, F)
  BY <1>1, <1>3, RunExists
<1>5. Is(f)
  <2>1. ASSUME NEW i \in 0 .. n
        PROVE  f[i] = IF i = 0 THEN S ELSE ProcessOne(f[i - 1], fd, cmds[i], broken)
    <3>1. CASE i # 0
      <4>1. i \in 1 .. n /\ f[i - 1] \in I
        BY <3>1, <1>1, <1>4 DEF IsRun
      <4> QED
        BY <3>1, <4>1, <1>3, <1>4 DEF IsRun
    <3> QED
      BY <3>1, <1>4 DEF IsRun
  <2> QED
    BY <2>1, <1>4 DEF IsRun
<1>6. Is(run)
  BY <1>5, ZenonT(40)
<1>7. processInputBuffer(S, fd, cmds, broken) = run[n]
  BY DEF processInputBuffer, n
<1> HIDE DEF run
<1>8. run[0] = S /\ \A i \in 1 .. n : run[i] = ProcessOne(run[i - 1], fd, cmds[i], broken)
  BY <1>1, <1>6
<1>9. \A i \in 1 .. n : run[i - 1] \in I => run[i] \in I
  BY <1>2, <1>8
<1>10. run[n] \in I
  BY <1>1, <1>8, <1>9, RunStays
<1> QED
  BY <1>7, <1>10 DEF I

LEMMA EventRests ==
  ASSUME NEW S, NEW fd \in Fds, Rested(S), S.client[fd].open, NEW cmds \in Seq(Commands),
         NEW writable, NEW eof, NEW broken
  PROVE  Rested(onClientEvent(S, fd, writable, cmds, eof, broken))
<1> DEFINE A == IF writable THEN flushOutput(S, fd, broken) ELSE S
           B == processInputBuffer(A, fd, cmds, broken)
<1>1. Rested(A)
  BY ServingRests, FlushRests
<1> HIDE DEF A
<1>2. Serving(B, fd)
  BY <1>1, ServingRests, InputServes, ZenonT(40)
<1> HIDE DEF B
<1>3. Rested(AfterInput(B, fd, eof, broken))
  <2>1. CASE ~B.client[fd].open
    BY <2>1, <1>2, ServingRests DEF AfterInput, IsOpen
  <2>2. CASE B.client[fd].open
    BY <2>2, <1>2, ServingRests, CloseRests, FlushRests DEF AfterInput, IsOpen
  <2> QED
    BY <2>1, <2>2
<1> QED
  BY <1>1, <1>3 DEF onClientEvent, ReadIfOpen, readFromClient, A, B

(***************************************************************************)
(* The invariant holds initially and every step keeps it.                  *)
(***************************************************************************)

LEMMA InitRests ==
  ASSUME Init
  PROVE  Rested(server)
<1>1. /\ server.client = [fd \in Fds |-> Closed] /\ server.registry = [k \in Kinds |-> <<>>]
      /\ server.interest = [fd \in Fds |-> {}] /\ server.selfPending = <<>>
      /\ server.executing = NoOne /\ server.early = FALSE
      /\ server.wire = [fd \in Fds |-> <<>>] /\ server.owed = [fd \in Fds |-> <<>>]
  BY DEF Init
<1>2. Closed \in Clients /\ Closed.open = FALSE /\ Sane(Closed, <<>>, <<>>)
  BY FreshSane
<1>3. <<>> \in [{} -> SUBSET Fds] /\ <<>> \in Seq(Frames)
  OBVIOUS
<1>4. <<>> \in UNION {[names -> SUBSET Fds] : names \in SUBSET Names}
  BY <1>3, ZenonT(40)
<1>5. server \in Servers
  <2> DEFINE R == UNION {[names -> SUBSET Fds] : names \in SUBSET Names}
  <2>1. server.registry \in [Kinds -> R]
    <3> HIDE DEF R
    <3> QED
      BY <1>1, <1>4, ZenonT(40) DEF R
  <2>2. /\ server.client \in [Fds -> Clients] /\ server.interest \in [Fds -> SUBSET {"Read", "Write"}]
        /\ server.selfPending \in Seq(Frames) /\ server.executing \in Fds \cup {NoOne}
        /\ server.early \in BOOLEAN
        /\ server.wire \in [Fds -> Seq(Frames)] /\ server.owed \in [Fds -> Seq(Frames)]
    BY <1>1, <1>2, <1>3, ZenonT(40)
  <2>3. server = [client |-> server.client, registry |-> server.registry,
                  interest |-> server.interest, selfPending |-> server.selfPending,
                  executing |-> server.executing, early |-> server.early,
                  wire |-> server.wire, owed |-> server.owed]
    BY DEF Init
  <2> QED
    BY <2>1, <2>2, <2>3, ZenonT(40) DEF Servers
<1>6. ASSUME NEW k \in Kinds PROVE server.registry[k] = Mirror(server.client, k)
  <2>1. {m \in Names : Holders(server.client, k, m) # {}} = {}
    BY <1>1, <1>2 DEF Holders
  <2>2. [n \in {} |-> Holders(server.client, k, n)] = <<>>
    OBVIOUS
  <2> QED
    BY <2>1, <2>2, <1>1 DEF Mirror
<1>7. ASSUME NEW fd \in Fds
      PROVE  /\ Sane(server.client[fd], server.wire[fd], server.owed[fd])
             /\ ~server.client[fd].open
  BY <1>1, <1>2
<1>8. Good(server, {})
  BY <1>1, <1>5, <1>6, <1>7 DEF Good, Asks
<1> QED
  BY <1>1, <1>8 DEF Rested, Idle

LEMMA AcceptRests ==
  ASSUME Rested(server), NEW fd \in Fds, onAcceptable(fd)
  PROVE  Rested(server')
<1> DEFINE S == server
           T == server'
           cl == [S.client EXCEPT ![fd] = NewClient]
           i == [S.interest EXCEPT ![fd] = {"Read"}]
<1>1. /\ Good(S, {}) /\ S \in Servers /\ S.client \in [Fds -> Clients]
      /\ S.interest \in [Fds -> SUBSET {"Read", "Write"}] /\ ~S.client[fd].open
  BY DEF Rested, Good, Servers, onAcceptable, IsOpen
<1>2. /\ NewClient \in Clients /\ NewClient.open = TRUE /\ Sane(NewClient, <<>>, <<>>)
      /\ \A k \in Kinds : NewClient.subs[k] = {}
      /\ NewClient.out = <<>> /\ NewClient.sent = 0
  BY FreshSane
<1>3. T = [S EXCEPT !.client = cl, !.interest = i]
  BY <1>1 DEF onAcceptable, Servers
<1>4. /\ cl \in [Fds -> Clients] /\ i \in [Fds -> SUBSET {"Read", "Write"}]
      /\ cl[fd] = NewClient /\ i[fd] = {"Read"}
      /\ \A g \in Fds \ {fd} : cl[g] = S.client[g] /\ i[g] = S.interest[g]
  BY <1>1, <1>2
<1> HIDE DEF cl, i, T, S
<1>5. T \in Servers
  BY <1>1, <1>3, <1>4, ZenonT(40) DEF Servers
<1>6. /\ T.client = cl /\ T.registry = S.registry /\ T.interest = i
      /\ T.selfPending = S.selfPending /\ T.executing = S.executing /\ T.early = S.early
      /\ T.wire = S.wire /\ T.owed = S.owed
  BY <1>1, <1>3 DEF Servers
<1>7. ASSUME NEW k \in Kinds PROVE Mirror(T.client, k) = Mirror(S.client, k)
  <2>1. \A n \in Names : Holders(T.client, k, n) = Holders(S.client, k, n)
    BY <1>1, <1>2, <1>4, <1>6 DEF Holders
  <2> QED
    BY <2>1 DEF Mirror
<1>8. ASSUME NEW g \in Fds
      PROVE  /\ Sane(T.client[g], T.wire[g], T.owed[g])
             /\ T.client[g].open => T.interest[g] # {}
             /\ Asks(T.client[g], T.interest[g])
  <2>1. CASE g = fd
    <3>1. S.wire[fd] = <<>> /\ S.owed[fd] = <<>>
      BY <1>1, ZenonT(40) DEF Good, Sane
    <3>2. /\ T.client[g] = NewClient /\ T.wire[g] = <<>> /\ T.owed[g] = <<>>
          /\ T.interest[g] = {"Read"}
      BY <2>1, <3>1, <1>4, <1>6, ZenonT(40)
    <3>3. ~(NewClient.sent < Len(NewClient.out))
      BY <1>2
    <3>4. {"Read"} # {}
      OBVIOUS
    <3> QED
      BY <3>2, <3>3, <3>4, <1>2, ZenonT(40) DEF Asks
  <2>2. CASE g # fd
    BY <2>2, <1>1, <1>4, <1>6 DEF Good
  <2> QED
    BY <2>1, <2>2
<1>9. Good(T, {})
  BY <1>1, <1>5, <1>6, <1>7, <1>8, ZenonT(40) DEF Good
<1> QED
  BY <1>6, <1>9 DEF Rested, Idle, S, T

LEMMA PeerReadsRests ==
  ASSUME Rested(server), NEW fd \in Fds, PeerReads(fd)
  PROVE  Rested(server')
<1> DEFINE S == server
           T == server'
           c == S.client[fd]
           w == S.wire[fd]
           o == S.owed[fd]
           ws == [S.wire EXCEPT ![fd] = Tail(w)]
           os == [S.owed EXCEPT ![fd] = Tail(o)]
<1>1. /\ Good(S, {}) /\ S \in Servers /\ S.client \in [Fds -> Clients] /\ c \in Clients
      /\ S.wire \in [Fds -> Seq(Frames)] /\ S.owed \in [Fds -> Seq(Frames)]
      /\ w # <<>> /\ w \in Seq(Frames) /\ Sane(c, w, o)
  BY DEF Rested, Good, Servers, PeerReads
<1>2. T = [S EXCEPT !.wire = ws, !.owed = os]
  BY <1>1 DEF PeerReads, Servers
<1> HIDE DEF c, w, o
<1>3. Tail(w) \in Seq(Frames) /\ Tail(o) \in Seq(Frames) /\ Sane(c, Tail(w), Tail(o))
  <2> DEFINE u == Unsent(c)
  <2>1. c.out \in Seq(Frames) /\ c.sent \in 0 .. Len(c.out)
    BY <1>1 DEF Clients, Sane
  <2>2. u \in Seq(Frames)
    BY <2>1, Rest DEF Unsent
  <2> HIDE DEF u
  <2>3. Len(w) \in Nat /\ Len(w) # 0 /\ 1 \in 0 .. Len(w) /\ Len(u) \in Nat
    BY <1>1, <2>2
  <2>4. w \o u \in Seq(Frames) /\ Len(w \o u) = Len(w) + Len(u)
    BY <1>1, <2>2, Joined
  <2>5. ASSUME NEW s \in Seq(Frames), Len(s) # 0 PROVE Tail(s) = SubSeq(s, 1 + 1, Len(s))
    BY <2>5
  <2>6. w \o u \in Seq(Frames) /\ Len(w \o u) # 0
    BY <2>3, <2>4
  <2>7. SubSeq(w \o u, 1 + 1, Len(w \o u)) = SubSeq(w, 1 + 1, Len(w)) \o u
    BY <1>1, <2>2, <2>3, RestGrows
  <2>8. Tail(w \o u) = Tail(w) \o u
    BY <1>1, <2>3, <2>5, <2>6, <2>7
  <2>9. Tail(w) \in Seq(Frames) /\ Len(Tail(w)) <= Room
    BY <1>1, <2>3, PubSubAssumption DEF Sane
  <2>10. o = w \o u /\ c.open
    BY <1>1 DEF Sane, u, Clients
  <2>11. Tail(o) = Tail(w) \o Unsent(c)
    BY <2>8, <2>10 DEF u
  <2>12. Tail(w) \o u \in Seq(Frames)
    BY <2>2, <2>9, Joined
  <2> QED
    BY <1>1, <2>9, <2>10, <2>11, <2>12 DEF Sane, u
<1>4. /\ ws \in [Fds -> Seq(Frames)] /\ os \in [Fds -> Seq(Frames)]
      /\ ws[fd] = Tail(w) /\ os[fd] = Tail(o)
      /\ \A g \in Fds \ {fd} : ws[g] = S.wire[g] /\ os[g] = S.owed[g]
  BY <1>1, <1>3
<1> HIDE DEF ws, os, T, S
<1>5. T \in Servers
  BY <1>1, <1>2, <1>4, ZenonT(40) DEF Servers
<1>6. /\ T.client = S.client /\ T.registry = S.registry /\ T.interest = S.interest
      /\ T.selfPending = S.selfPending /\ T.executing = S.executing /\ T.early = S.early
      /\ T.wire = ws /\ T.owed = os
  BY <1>1, <1>2 DEF Servers
<1>7. \A g \in Fds : Sane(T.client[g], T.wire[g], T.owed[g])
  BY <1>1, <1>3, <1>4, <1>6, ZenonT(40) DEF Good, c
<1>8. Good(T, {})
  BY <1>1, <1>5, <1>6, <1>7, ZenonT(40) DEF Good
<1> QED
  BY <1>6, <1>8 DEF Rested, Idle, S, T

LEMMA StepRests ==
  ASSUME Rested(server), Next
  PROVE  Rested(server')
<1>1. CASE serverCron
  <2> DEFINE T == notifyKeyspaceEvent(server)
  <2>1. Good(T, {}) /\ Beside(server, T)
    BY NotifyGood DEF Rested
  <2>2. server' = T
    BY <1>1 DEF serverCron
  <2> HIDE DEF T
  <2> QED
    BY <2>1, <2>2 DEF Rested, Idle, Beside
<1>2. ASSUME NEW fd \in Fds, Read(fd) PROVE Rested(server')
  <2>1. PICK cmds \in Talk[fd] \cup {<<>>}, writable \in BOOLEAN, eof \in BOOLEAN, broken \in BOOLEAN :
          /\ IsOpen(server, fd) /\ server' = onClientEvent(server, fd, writable, cmds, eof, broken)
    BY <1>2 DEF Read
  <2>2. cmds \in Seq(Commands)
    <3>1. \A sent \in Talk[fd] : sent \in Seq(Commands)
      BY PubSubAssumption, ZenonT(40)
    <3>2. <<>> \in Seq(Commands)
      OBVIOUS
    <3> QED
      BY <3>1, <3>2, ZenonT(40)
  <2> QED
    BY <2>1, <2>2, EventRests DEF IsOpen
<1>3. ASSUME NEW fd \in Fds, Write(fd) PROVE Rested(server')
  BY <1>3, ServingRests, FlushRests DEF Write, IsOpen
<1> QED
  BY <1>1, <1>2, <1>3, AcceptRests, PeerReadsRests DEF Next

(* The inductive invariant of the Server object: the registry is the mirror *)
(* of what the clients hold, every stream is intact, and the loop is asked  *)
(* for the output that waits.                                               *)
THEOREM InductiveInvariant == Spec => []IInv
<1>1. Init => IInv
  BY InitRests DEF IInv, Rested
<1>2. IInv /\ [Next]_server => IInv'
  <2>1. IInv /\ UNCHANGED server => IInv'
    BY DEF IInv
  <2> QED
    BY <2>1, StepRests DEF IInv, Rested
<1> QED
  BY <1>1, <1>2, PTL DEF Spec

(* Server::pubsub_ and what the open connections hold agree, for any        *)
(* pipelines, closings, resets and connections that take a descriptor over. *)
THEOREM RegistryFollows == Spec => []RegistryExact
<1>1. IInv => RegistryExact
  BY DEF IInv, Good, RegistryExact, Mirror, Holders, IsOpen, Held
<1> QED
  BY <1>1, InductiveInvariant, PTL

(* What was produced for a connection reaches its socket once and in order, *)
(* however the writes are cut, and nothing stays parked (flushOutput,       *)
(* queueWrite, dispatch).                                                   *)
THEOREM StreamsStayIntact == Spec => []StreamIntact
<1>1. IInv => StreamIntact
  BY ZenonT(40) DEF IInv, Good, Idle, StreamIntact, Sane, IsOpen
<1> QED
  BY <1>1, InductiveInvariant, PTL

(* While commands run for a client nothing but their replies is appended to *)
(* its output (self_pending_).                                              *)
THEOREM OwnMessagesWait == Spec => []OwnMessageBehindReply
<1>1. IInv => OwnMessageBehindReply
  BY DEF IInv, Good, OwnMessageBehindReply
<1> QED
  BY <1>1, InductiveInvariant, PTL

(* No order of MULTI, HELLO, SUBSCRIBE and EXEC leaves a RESP2 subscriber   *)
(* in a transaction that it can neither run nor discard (dispatch).         *)
THEOREM TransactionsCanEnd == Spec => []NeverRestrictedInMulti
<1>1. IInv => NeverRestrictedInMulti
  BY ZenonT(40) DEF IInv, Good, Sane, NeverRestrictedInMulti, inSubscriberMode, IsOpen
<1> QED
  BY <1>1, InductiveInvariant, PTL

(* Between two events the loop has been asked for writability wherever      *)
(* output waits, with which a level-triggered poll reports the socket       *)
(* (modFd in queueWrite and flushOutput): what OutputMoves needs of safety. *)
WaitingIsAskedFor ==
  \A fd \in Fds : IsOpen(server, fd) /\ Unsent(server.client[fd]) # <<>> => "Write" \in server.interest[fd]

THEOREM OutputIsAskedFor == Spec => []WaitingIsAskedFor
<1>1. ASSUME IInv, NEW fd \in Fds, server.client[fd].open, Unsent(server.client[fd]) # <<>>
      PROVE  "Write" \in server.interest[fd]
  <2> DEFINE c == server.client[fd]
  <2>1. c \in Clients /\ Sane(c, server.wire[fd], server.owed[fd]) /\ Asks(c, server.interest[fd])
    BY <1>1, ZenonT(40) DEF IInv, Good, Servers
  <2> HIDE DEF c
  <2>2. c.out \in Seq(Frames) /\ c.sent \in 0 .. Len(c.out) /\ Len(c.out) \in Nat
    BY <2>1 DEF Clients, Sane
  <2>3. ASSUME c.sent = Len(c.out) PROVE FALSE
    <3>1. ASSUME NEW s \in Seq(Frames) PROVE SubSeq(s, Len(s) + 1, Len(s)) = <<>>
      OBVIOUS
    <3>2. Unsent(c) = <<>>
      BY <3>1, <2>2, <2>3 DEF Unsent
    <3> QED
      BY <3>2, <1>1 DEF c
  <2>4. c.sent < Len(c.out)
    BY <2>2, <2>3
  <2> QED
    BY <2>1, <2>4, <1>1 DEF Asks, c
<1>2. IInv => WaitingIsAskedFor
  BY <1>1 DEF WaitingIsAskedFor, IsOpen
<1> QED
  BY <1>2, InductiveInvariant, PTL

=============================================================================
