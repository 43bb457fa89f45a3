-------------------------- MODULE HttpServerProofs --------------------------
(***************************************************************************)
(* The connection permits of the HTTP front end and the answers a client   *)
(* gets, for any number of connections, of restarts and any cap.           *)
(***************************************************************************)
EXTENDS HttpServer, FiniteSetTheorems, TLAPS

(* The provers a leaf is tried with, unless it names its own.              *)
USE SMT, Zenon, SMTT(30)

(* Where a connection may be before a server has taken it, while a handler *)
(* or the accept loop has its permit, and before its first answer.         *)
Untaken == {"none", "backlog", "closed"}
Taken == {"route", "read", "serve", "send", "last", "finish", "unstarted", "closed"}
Unanswered == {"none", "backlog", "route", "read", "serve", "send", "last", "unstarted"}

ConnectionOK(c) ==
  /\ gen[c] = None => at[c] \in Untaken
  /\ gen[c] # None => at[c] \in Taken
  /\ c \notin stalled =>
       /\ at[c] \in Unanswered => Len(wire[c]) = 0
       /\ at[c] = "finish" => Len(wire[c]) = 1
       /\ at[c] = "closed" => Len(wire[c]) <= 1

Codes == {None, 200, 400, 401, 404, 408, 411, 413, 500, 503}

Types ==
  /\ up \in BOOLEAN /\ starts \in Nat /\ (up => starts # 0)
  /\ permits \in [1 .. starts -> Int]
  /\ gen \in [Connections -> (1 .. starts) \cup {None}]
  /\ at \in [Connections -> Untaken \cup Taken]
  /\ code \in [Connections -> Codes] /\ wire \in [Connections -> Seq(Codes)]
  /\ stalled \subseteq Connections

Inv == Types /\ PermitsExact /\ \A c \in Connections : ConnectionOK(c)

-----------------------------------------------------------------------------
LEMMA HeldFinite ==
  ASSUME HttpAssumption, NEW g
  PROVE  IsFiniteSet(Held(g)) /\ Cardinality(Held(g)) \in Nat
<1>1. Held(g) \subseteq Connections
  BY DEF Held
<1> QED
  BY <1>1, FS_Subset, FS_CardinalityType DEF HttpAssumption

(* A step of one connection that keeps or never had its permit.            *)
LEMMA StayOK ==
  ASSUME HttpAssumption, Inv, NEW c \in Connections, NEW l \in Untaken \cup Taken,
         at' = [at EXCEPT ![c] = l], UNCHANGED <<up, starts, permits, gen>>,
         at[c] # "closed", gen[c] # None => l \in Taken \ {"closed"}, gen[c] = None => l \in Untaken,
         code' \in [Connections -> Codes], wire' \in [Connections -> Seq(Codes)],
         UNCHANGED stalled,
         \A d \in Connections : d # c => wire'[d] = wire[d],
         c \notin stalled => /\ l \in Unanswered => Len(wire'[c]) = 0
                             /\ l = "finish" => Len(wire'[c]) = 1
                             /\ l = "closed" => Len(wire'[c]) <= 1
  PROVE  Inv'
<1>1. /\ at' \in [Connections -> Untaken \cup Taken] /\ at'[c] = l
      /\ \A d \in Connections : d # c => at'[d] = at[d]
  BY DEF Inv, Types
<1>2. Types'
  BY <1>1 DEF Inv, Types
<1>3. ASSUME NEW g \in 1 .. starts PROVE Held(g)' = Held(g)
  <2>1. gen[c] = g => l # "closed"
    BY <1>3 DEF HttpAssumption
  <2> QED
    BY <1>1, <2>1 DEF Held
<1>4. PermitsExact'
  BY <1>3 DEF Inv, PermitsExact
<1>5. ASSUME NEW d \in Connections PROVE ConnectionOK(d)'
  BY <1>1 DEF Inv, ConnectionOK
<1> QED
  BY <1>2, <1>4, <1>5 DEF Inv

LEMMA StartOK ==
  ASSUME HttpAssumption, Inv, Start
  PROVE  Inv'
<1>1. starts' = starts + 1 /\ starts' \in Nat /\ 1 .. starts' = (1 .. starts) \cup {starts'}
  BY DEF Inv, Types, Start
<1>2. permits \in Seq(Int) /\ Len(permits) = starts
  BY DEF Inv, Types
<1>3. /\ permits' \in [1 .. starts' -> Int] /\ permits'[starts'] = MaxConnections
      /\ \A g \in 1 .. starts : permits'[g] = permits[g]
  <2>1. permits' = Append(permits, MaxConnections) /\ MaxConnections \in Int
    BY DEF Start, HttpAssumption
  <2>2. /\ permits' \in Seq(Int) /\ Len(permits') = starts'
        /\ permits'[starts'] = MaxConnections
        /\ \A g \in 1 .. starts : permits'[g] = permits[g]
    BY <2>1, <1>1, <1>2
  <2> QED
    BY <2>2
<1>4. Types'
  BY <1>1, <1>3 DEF Inv, Types, Start
<1>5. \A g \in 1 .. starts : Held(g)' = Held(g)
  BY DEF Held, Start
<1>6. ASSUME NEW g, g = starts' PROVE Held(g)' = {}
  <2>1. \A c \in Connections : gen[c] # g
    BY <1>1, <1>6 DEF Inv, Types, HttpAssumption
  <2> QED
    BY <2>1 DEF Held, Start
<1>7. PermitsExact'
  <2> SUFFICES ASSUME NEW g \in 1 .. starts'
               PROVE  permits'[g] + Cardinality(Held(g)') = MaxConnections
    BY DEF PermitsExact, Held
  <2>1. CASE g \in 1 .. starts
    BY <2>1, <1>3, <1>5 DEF Inv, PermitsExact
  <2>2. CASE g = starts'
    <3>1. Held(g)' = {}
      BY <2>2, <1>6
    <3> QED
      BY <2>2, <3>1, <1>3, FS_EmptySet DEF HttpAssumption
  <2> QED
    BY <1>1, <2>1, <2>2
<1>8. \A c \in Connections : ConnectionOK(c)'
  BY DEF Inv, ConnectionOK, Start
<1> QED
  BY <1>4, <1>7, <1>8 DEF Inv

(* One permit changes hands: the connection c joins or leaves those held   *)
(* by generation g.                                                        *)
LEMMA PermitMoves ==
  ASSUME HttpAssumption, Inv, NEW c \in Connections, NEW g \in 1 .. starts, NEW d \in {-1, 1},
         starts' = starts, permits' = [permits EXCEPT ![g] = @ + d],
         \A h \in 1 .. starts : h # g => Held(h)' = Held(h),
         \/ d = 1 /\ c \in Held(g) /\ Held(g)' = Held(g) \ {c}
         \/ d = -1 /\ c \notin Held(g) /\ Held(g)' = Held(g) \cup {c}
  PROVE  PermitsExact' /\ permits' \in [1 .. starts' -> Int]
<1>1. /\ permits' \in [1 .. starts -> Int] /\ permits'[g] = permits[g] + d
      /\ \A h \in 1 .. starts : h # g => permits'[h] = permits[h]
  BY DEF Inv, Types
<1>2. IsFiniteSet(Held(g)) /\ Cardinality(Held(g)) \in Nat
  BY HeldFinite
<1>3. Cardinality(Held(g)') = Cardinality(Held(g)) - d
  <2>1. CASE d = 1
    BY <2>1, <1>2, FS_RemoveElement
  <2>2. CASE d = -1
    BY <2>2, <1>2, FS_AddElement
  <2> QED
    BY <2>1, <2>2
<1>4. permits[g] \in Int /\ permits[g] + Cardinality(Held(g)) = MaxConnections
  BY DEF Inv, Types, PermitsExact
<1>5. ASSUME NEW h \in 1 .. starts PROVE permits'[h] + Cardinality(Held(h)') = MaxConnections
  <2>1. CASE h = g
    BY <2>1, <1>1, <1>2, <1>3, <1>4
  <2>2. CASE h # g
    BY <2>2, <1>1 DEF Inv, PermitsExact
  <2> QED
    BY <2>1, <2>2
<1> QED
  BY <1>1, <1>5 DEF PermitsExact, Held

LEMMA ProcessOK ==
  ASSUME HttpAssumption, Inv, NEW c \in Connections, ProcessRequest(c)
  PROVE  Inv'
<1>0. gen[c] = None /\ at[c] = "backlog" /\ starts \in 1 .. starts
  <2>1. up /\ at[c] = "backlog" /\ ConnectionOK(c)
    BY DEF ProcessRequest, Inv
  <2>2. "backlog" \notin Taken
    BY DEF Taken
  <2>3. gen[c] = None
    BY <2>1, <2>2 DEF ConnectionOK
  <2>4. starts \in Nat /\ starts # 0
    BY <2>1 DEF Inv, Types
  <2> QED
    BY <2>1, <2>3, <2>4
<1>1. CASE permits[starts] = 0 /\ Refuse(c)
  <2>1. /\ wire' \in [Connections -> Seq(Codes)]
        /\ \A d \in Connections : d # c => wire'[d] = wire[d]
        /\ c \notin stalled => Len(wire'[c]) = 1
    <3>1. wire \in [Connections -> Seq(Codes)] /\ wire[c] \in Seq(Codes) /\ 503 \in Codes
      BY DEF Inv, Types, Codes
    <3>2. c \notin stalled => Len(wire[c]) = 0
      BY <1>0 DEF Inv, ConnectionOK, Unanswered
    <3>3. Append(wire[c], 503) \in Seq(Codes) /\ (c \notin stalled => Len(Append(wire[c], 503)) = 1)
      BY <3>1, <3>2
    <3> QED
      BY <3>1, <3>3, <1>1 DEF Refuse
  <2>2. /\ at' = [at EXCEPT ![c] = "closed"] /\ UNCHANGED <<up, starts, permits, gen, stalled>>
        /\ code' \in [Connections -> Codes] /\ "closed" \in Untaken \cup Taken
    BY <1>1 DEF Refuse, ProcessRequest, Inv, Types, Untaken
  <2> QED
    <3>1. PICK l \in Untaken \cup Taken : l = "closed"
      BY <2>2
    <3>2. l \in Untaken /\ l \notin Unanswered /\ l # "finish"
      BY <3>1 DEF Untaken, Unanswered
    <3>3. ASSUME c \notin stalled PROVE Len(wire'[c]) <= 1
      <4>1. Len(wire'[c]) = 1
        BY <2>1, <3>3
      <4> QED
        BY <4>1
    <3>4. at' = [at EXCEPT ![c] = l] /\ at[c] # "closed" /\ gen[c] = None
      BY <1>0, <2>2, <3>1
    <3> QED
      BY <3>2, <3>3, <3>4, <2>1, <2>2, StayOK, Zenon
<1>2. CASE /\ permits' = [permits EXCEPT ![starts] = @ - 1] /\ gen' = [gen EXCEPT ![c] = starts]
           /\ \E started \in BOOLEAN : at' = [at EXCEPT ![c] = IF started THEN "route" ELSE "unstarted"]
           /\ UNCHANGED wire
  <2>1. PICK l \in {"route", "unstarted"} : at' = [at EXCEPT ![c] = l]
    BY <1>2, Zenon
  <2>2. /\ at' \in [Connections -> Untaken \cup Taken] /\ at'[c] = l
        /\ gen' \in [Connections -> (1 .. starts) \cup {None}] /\ gen'[c] = starts
        /\ \A d \in Connections : d # c => at'[d] = at[d] /\ gen'[d] = gen[d]
    BY <2>1, <1>0, <1>2 DEF Inv, Types, Taken
  <2>3. \A h \in 1 .. starts : h # starts => Held(h)' = Held(h)
    BY <1>0, <2>2 DEF Held, HttpAssumption
  <2>4. c \notin Held(starts) /\ Held(starts)' = Held(starts) \cup {c}
    <3>1. None # starts
      BY DEF HttpAssumption, Inv, Types
    <3>2. \A d \in Connections : (gen'[d] = starts' /\ at'[d] # "closed")
                                   <=> (d = c \/ (gen[d] = starts /\ at[d] # "closed"))
      BY <2>2 DEF ProcessRequest
    <3> QED
      BY <1>0, <3>1, <3>2 DEF Held
  <2>5. permits' = [permits EXCEPT ![starts] = @ + (-1)]
    BY <1>2, Zenon DEF Inv, Types
  <2>6. starts' = starts
    BY DEF ProcessRequest
  <2>7. PermitsExact' /\ permits' \in [1 .. starts' -> Int]
    <3>1. PICK g \in 1 .. starts : g = starts
      BY <1>0
    <3>2. Held(g)' = Held(starts)'
      BY <3>1, <2>6 DEF Held
    <3> QED
      BY <3>1, <3>2, <1>0, <2>3, <2>4, <2>5, <2>6, PermitMoves, Zenon
  <2>8. Types'
    BY <1>2, <2>2, <2>7 DEF Types, Inv, ProcessRequest
  <2>9. ASSUME NEW d \in Connections PROVE ConnectionOK(d)'
    BY <1>0, <1>2, <2>2 DEF Inv, Types, ConnectionOK, ProcessRequest, Taken, Unanswered, HttpAssumption
  <2> QED
    BY <2>7, <2>8, <2>9 DEF Inv
<1> QED
  BY <1>1, <1>2 DEF ProcessRequest

(* A handler that moves on without writing.                                *)
LEMMA HandlerOK ==
  ASSUME HttpAssumption, Inv, NEW c \in Connections,
         NEW l \in {"read", "serve", "send", "last"},
         at[c] \in {"route", "read", "serve"}, at' = [at EXCEPT ![c] = l],
         code' \in [Connections -> Codes], UNCHANGED <<up, starts, permits, gen, wire, stalled>>
  PROVE  Inv'
<1>1. at[c] # "closed" /\ at[c] \in Unanswered /\ at[c] \notin Untaken
  BY DEF Unanswered, Untaken
<1>2. l \in Taken \ {"closed"} /\ l # "finish" /\ l \in Untaken \cup Taken
  BY DEF Taken
<1>3. gen[c] # None /\ (c \notin stalled => Len(wire[c]) = 0)
  BY <1>1 DEF Inv, ConnectionOK
<1>4. wire' = wire /\ wire' \in [Connections -> Seq(Codes)]
  BY DEF Inv, Types
<1>5. c \notin stalled => Len(wire'[c]) = 0
  BY <1>3, <1>4
<1> QED
  BY <1>1, <1>2, <1>3, <1>4, <1>5, StayOK, Zenon

LEMMA RouteOK ==
  ASSUME HttpAssumption, Inv, NEW c \in Connections, Route(c) \/ Read(c) \/ Serve(c)
  PROVE  Inv'
<1>0. /\ UNCHANGED <<up, starts, permits, gen, wire, stalled>>
      /\ at[c] \in {"route", "read", "serve"} /\ code \in [Connections -> Codes]
  BY Zenon DEF Route, Read, Serve, Inv, Types
<1> DEFINE Moved == \E l \in {"read", "serve", "send", "last"} : at' = [at EXCEPT ![c] = l]
           Coded == code' = code \/ \E x \in Codes : code' = [code EXCEPT ![c] = x]
<1>1. ASSUME Moved, Coded PROVE Inv'
  <2>1. code' \in [Connections -> Codes]
    BY <1>0, <1>1
  <2>2. PICK l \in {"read", "serve", "send", "last"} : at' = [at EXCEPT ![c] = l]
    BY <1>1, Zenon
  <2> QED
    BY <1>0, <2>1, <2>2, HandlerOK, Zenon
<1> HIDE DEF Moved, Coded
<1>2. CASE Route(c)
  <2>1. Moved
    BY <1>2 DEF Route, Answer, Moved
  <2>2. Coded
    BY <1>2 DEF Route, Answer, Codes, Coded
  <2> QED
    BY <2>1, <2>2, <1>1
<1>3. CASE Read(c)
  <2>1. Moved
    BY <1>3 DEF Read, Answer, Moved
  <2>2. Framing(req[c]) \in Codes
    BY DEF Framing, Codes
  <2>3. Coded
    BY <1>3, <2>2 DEF Read, Answer, Coded
  <2> QED
    BY <2>1, <2>3, <1>1
<1>4. CASE Serve(c)
  <2>1. Moved
    BY <1>4 DEF Serve, Answer, Moved
  <2>2. Coded
    BY <1>4 DEF Serve, Answer, Codes, Coded
  <2> QED
    BY <2>1, <2>2, <1>1
<1> QED
  BY <1>2, <1>3, <1>4

LEMMA SendOK ==
  ASSUME HttpAssumption, Inv, NEW c \in Connections, Send(c) \/ SendFails(c)
  PROVE  Inv'
<1>0. /\ at[c] # "closed" /\ at[c] \in Unanswered /\ gen[c] # None
      /\ wire \in [Connections -> Seq(Codes)] /\ code \in [Connections -> Codes]
      /\ UNCHANGED <<up, starts, permits, gen, stalled>>
      /\ Append(wire[c], code[c]) \in Seq(Codes)
  <2>1. at[c] \in {"send", "last"}
    BY Zenon DEF Send, SendFails
  <2>2. at[c] \notin Untaken /\ at[c] \in Unanswered /\ at[c] # "closed"
    BY <2>1 DEF Untaken, Unanswered
  <2>3. gen[c] # None
    BY <2>2 DEF Inv, ConnectionOK
  <2>4. wire \in [Connections -> Seq(Codes)] /\ code \in [Connections -> Codes]
    BY DEF Inv, Types
  <2>5. Append(wire[c], code[c]) \in Seq(Codes)
    BY <2>4
  <2> QED
    BY <2>2, <2>3, <2>4, <2>5, Zenon DEF Send, SendFails
<1>1. CASE Send(c)
  <2>1. /\ wire' \in [Connections -> Seq(Codes)] /\ code' \in [Connections -> Codes]
        /\ \A d \in Connections : d # c => wire'[d] = wire[d]
        /\ wire'[c] = Append(wire[c], code[c])
    BY <1>0, <1>1 DEF Send
  <2>2. c \notin stalled /\ Len(wire[c]) = 0
    BY <1>0, <1>1 DEF Send, Inv, ConnectionOK
  <2>3. Len(wire'[c]) = 1
    BY <1>0, <2>1, <2>2
  <2>4. PICK l \in Taken \ {"closed"} : l = "finish"
    BY DEF Taken
  <2>5. l \in Untaken \cup Taken /\ l \notin Unanswered /\ l # "closed"
    BY <2>4 DEF Unanswered
  <2>6. at' = [at EXCEPT ![c] = l]
    BY <1>1, <2>4 DEF Send
  <2> QED
    BY <1>0, <2>1, <2>3, <2>4, <2>5, <2>6, StayOK, Zenon
<1>2. CASE SendFails(c)
  <2>1. /\ wire' \in [Connections -> Seq(Codes)]
        /\ \A d \in Connections : d # c => wire'[d] = wire[d]
        /\ c \in stalled
    BY <1>0, <1>2 DEF SendFails
  <2>2. PICK l \in {"last", "finish"} : at' = [at EXCEPT ![c] = l]
    BY <1>2 DEF SendFails, Answer
  <2>3. code' \in [Connections -> Codes]
    <3>1. code' = code \/ code' = [code EXCEPT ![c] = 500]
      BY <1>2 DEF SendFails, Answer
    <3>2. 500 \in Codes
      BY DEF Codes
    <3> QED
      BY <1>0, <3>1, <3>2, ZenonT(30)
  <2>4. l \in Taken \ {"closed"} /\ l \in Untaken \cup Taken
    BY DEF Taken
  <2> QED
    BY <1>0, <2>1, <2>2, <2>3, <2>4, StayOK, Zenon
<1> QED
  BY <1>1, <1>2

LEMMA FinishOK ==
  ASSUME HttpAssumption, Inv, NEW c \in Connections, Finish(c)
  PROVE  Inv'
<1>1. at[c] # "closed" /\ gen[c] # None /\ at[c] \notin Untaken
  <2>1. at[c] \in {"finish", "unstarted"}
    BY DEF Finish
  <2>2. at[c] # "closed" /\ at[c] \notin Untaken
    BY <2>1 DEF Untaken
  <2> QED
    BY <2>2 DEF Inv, ConnectionOK
<1>2. PICK g \in 1 .. starts : g = gen[c]
  BY <1>1 DEF Inv, Types
<1>3. /\ at' \in [Connections -> Untaken \cup Taken] /\ at'[c] = "closed"
      /\ \A d \in Connections : d # c => at'[d] = at[d]
      /\ permits' = [permits EXCEPT ![g] = @ + 1]
      /\ UNCHANGED <<up, starts, gen, code, wire, stalled>>
  BY <1>2 DEF Finish, shutdown_request, Inv, Types, Untaken
<1>4. \A h \in 1 .. starts : h # g => Held(h)' = Held(h)
  BY <1>2, <1>3 DEF Held
<1>5. c \in Held(g) /\ Held(g)' = Held(g) \ {c}
  BY <1>1, <1>2, <1>3 DEF Held
<1>6. PermitsExact' /\ permits' \in [1 .. starts' -> Int]
  BY <1>3, <1>4, <1>5, PermitMoves, Zenon
<1>7. Types'
  BY <1>3, <1>6 DEF Types, Inv
<1>8. ASSUME NEW d \in Connections, d # c PROVE ConnectionOK(d)'
  BY <1>3, <1>8 DEF Inv, ConnectionOK
<1>9. ConnectionOK(c)'
  <2>1. ASSUME c \notin stalled PROVE Len(wire[c]) <= 1
    <3>1. at[c] = "finish" \/ at[c] \in Unanswered
      BY DEF Finish, Unanswered
    <3>2. Len(wire[c]) = 0 \/ Len(wire[c]) = 1
      BY <3>1, <2>1 DEF Inv, ConnectionOK
    <3>3. Len(wire[c]) \in Nat
      BY DEF Inv, Types
    <3>4. \A n \in Nat : n = 0 \/ n = 1 => n <= 1
      OBVIOUS
    <3> QED
      BY <3>2, <3>3, <3>4, Zenon
  <2> QED
    BY <1>1, <1>3, <2>1 DEF ConnectionOK, Taken, Unanswered
<1> QED
  BY <1>6, <1>7, <1>8, <1>9 DEF Inv

LEMMA OthersOK ==
  ASSUME HttpAssumption, Inv, NEW c \in Connections,
         Reset(c) \/ Stall(c) \/ \E r \in Requests : Connect(c, r)
  PROVE  Inv'
<1>0. /\ wire \in [Connections -> Seq(Codes)] /\ code \in [Connections -> Codes]
      /\ wire[c] \in Seq(Codes) /\ Len(wire[c]) \in Nat
  BY DEF Inv, Types
<1>1. CASE Stall(c)
  <2>1. Types'
    BY <1>1 DEF Inv, Types, Stall
  <2>2. PermitsExact'
    BY <1>1 DEF Inv, PermitsExact, Held, Stall
  <2>3. \A d \in Connections : ConnectionOK(d)'
    BY <1>1 DEF Inv, ConnectionOK, Stall
  <2> QED
    BY <2>1, <2>2, <2>3 DEF Inv
<1>2. ASSUME NEW l \in {"backlog", "closed"}, at[c] \in {"none", "backlog"},
             at' = [at EXCEPT ![c] = l], UNCHANGED <<up, starts, permits, gen, code, wire, stalled>>
      PROVE  Inv'
  <2>1. at[c] \notin Taken /\ at[c] # "closed" /\ at[c] \in Unanswered
    BY <1>2 DEF Taken, Unanswered
  <2>2. gen[c] = None /\ (c \notin stalled => Len(wire'[c]) = 0)
    BY <1>2, <2>1 DEF Inv, ConnectionOK
  <2>3. l \in Untaken /\ l \in Untaken \cup Taken /\ l # "finish"
    BY DEF Untaken
  <2>4. \A n \in Nat : n = 0 => n <= 1
    OBVIOUS
  <2>5. c \notin stalled => Len(wire'[c]) <= 1
    BY <1>0, <1>2, <2>2, <2>4, Zenon
  <2> QED
    BY <1>0, <1>2, <2>1, <2>2, <2>3, <2>5, StayOK, Zenon
<1>3. CASE Reset(c)
  BY <1>2, <1>3 DEF Reset
<1>4. ASSUME NEW r \in Requests, Connect(c, r) PROVE Inv'
  BY <1>2, <1>4 DEF Connect
<1> QED
  BY <1>1, <1>3, <1>4

LEMMA InitOK ==
  ASSUME HttpAssumption, Init
  PROVE  Inv
<1>1. permits \in [1 .. starts -> Int] /\ 1 .. starts = {}
  BY DEF Init
<1>2. Types
  <2>1. "none" \in Untaken \cup Taken /\ None \in Codes /\ <<>> \in Seq(Codes)
    BY DEF Untaken, Codes
  <2>2. /\ at \in [Connections -> Untaken \cup Taken] /\ code \in [Connections -> Codes]
        /\ wire \in [Connections -> Seq(Codes)] /\ gen \in [Connections -> (1 .. starts) \cup {None}]
    BY <2>1 DEF Init
  <2>3. up = FALSE /\ starts = 0 /\ stalled = {}
    BY DEF Init
  <2> QED
    BY <1>1, <2>2, <2>3, Zenon DEF Types
<1>3. PermitsExact
  BY <1>1 DEF PermitsExact
<1>4. \A c \in Connections : ConnectionOK(c)
  BY DEF Init, ConnectionOK, Untaken, Unanswered
<1> QED
  BY <1>2, <1>3, <1>4 DEF Inv

LEMMA NextOK ==
  ASSUME HttpAssumption, Inv, [Next]_vars
  PROVE  Inv'
<1>1. CASE Start
  BY <1>1, StartOK
<1>2. CASE Stop \/ UNCHANGED vars
  <2>1. UNCHANGED <<starts, permits, gen, at, code, wire, stalled>> /\ up' \in BOOLEAN /\ (up' => up)
    <3>1. CASE Stop
      BY <3>1, Zenon DEF Stop
    <3>2. CASE UNCHANGED vars
      BY <3>2 DEF vars, Inv, Types
    <3> QED
      BY <1>2, <3>1, <3>2
  <2>2. Types'
    BY <2>1 DEF Inv, Types
  <2>3. PermitsExact' /\ \A c \in Connections : ConnectionOK(c)'
    BY <2>1 DEF Inv, PermitsExact, Held, ConnectionOK
  <2> QED
    BY <2>2, <2>3 DEF Inv
<1>3. ASSUME NEW c \in Connections,
             Handle(c) \/ AcceptLoop(c) \/ Stall(c) \/ \E r \in Requests : Connect(c, r)
      PROVE  Inv'
  BY <1>3, RouteOK, SendOK, FinishOK, ProcessOK, OthersOK DEF Handle, AcceptLoop
<1> QED
  BY <1>1, <1>2, <1>3 DEF Next

(* Whatever the number of connections, of restarts and the cap: every      *)
(* permit of a server is free or held by exactly one connection it took,   *)
(* through refusals, threads that do not start and writes that fail; and a *)
(* client that keeps reading gets at most one response, and one from every *)
(* handler that ran.                                                       *)
THEOREM AnswersAndPermitsAreExact ==
  ASSUME HttpAssumption
  PROVE  Spec => []HttpExact
<1>1. Init => Inv
  BY InitOK
<1>2. Inv /\ [Next]_vars => Inv'
  BY NextOK
<1>3. Inv => HttpExact
  <2> SUFFICES ASSUME Inv, NEW c \in Connections, c \notin stalled
               PROVE  Len(wire[c]) <= 1 /\ (at[c] = "finish" => Len(wire[c]) = 1)
    BY DEF HttpExact, Inv, OneAnswer
  <2>1. at[c] \in Unanswered \cup {"finish", "closed"}
    BY DEF Inv, Types, Untaken, Taken, Unanswered
  <2>2. Len(wire[c]) \in Nat
    BY DEF Inv, Types
  <2>3. \A n \in Nat : n = 0 \/ n = 1 => n <= 1
    OBVIOUS
  <2> QED
    BY <2>1, <2>2, <2>3, Zenon DEF Inv, ConnectionOK
<1> QED
  BY <1>1, <1>2, <1>3, PTL DEF Spec
=============================================================================
