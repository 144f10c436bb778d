-------------------------------- MODULE Game --------------------------------
(***************************************************************************)
(* The network game: the server of src/user/TestServer.cc and the windows  *)
(* of its players, src/user/TestGame.cc.  One turn of the server's loop is *)
(* one action: it reads at most one message, moves the ball and sends      *)
(* every listed client the ball or, when the game is over, its result.     *)
(* The packets of one sender stay in order (module Network) and may be     *)
(* lost.  A client is the last byte of its address, as in connections[].   *)
(***************************************************************************)
EXTENDS Integers, FiniteSets, Sequences, SequencesExt

CONSTANTS
    Player,            \* the clients: the players' machines
    NoPlayer,          \* no client: a null pointer
    Depth,             \* the packets that are kept for a process, at most
    Width, Height,     \* the picture
    Margin, Size,      \* 17 and 16: the goals, the ball
    LeftPaddleEdge, RightPaddleEdge, HalfPaddle,
    KeyStep, Speed, StartX, StartY, StartPaddle

ASSUME PlayerAssumption == IsFiniteSet(Player) /\ NoPlayer \notin Player
ASSUME DepthAssumption == Depth \in Nat \ {0}

\* What the numbers of the source satisfy (160, 120, 17, 16, 33, 127, 25, 10, 3,
\* 72, 52, 60) and the ball needs to stay in the picture.
ASSUME GeometryAssumption ==
    /\ {Width, Height, Margin, Size, LeftPaddleEdge, RightPaddleEdge, HalfPaddle,
        KeyStep, Speed, StartX, StartY, StartPaddle} \subseteq Nat
    /\ Speed > 0 /\ Speed <= Height - Size
    /\ LeftPaddleEdge + Speed + Size <= RightPaddleEdge
    /\ Margin + Speed <= LeftPaddleEdge /\ RightPaddleEdge + Speed + Margin <= Width
    /\ LeftPaddleEdge <= StartX /\ StartX + Size <= RightPaddleEdge
    /\ StartY + Size <= Height
    /\ HalfPaddle <= StartPaddle /\ StartPaddle <= Height - HalfPaddle

Clients == INSTANCE LinkedList WITH Node <- Player, Null <- NoPlayer

VARIABLES
    server,                \* the Game and the clients of the server
    toServer, toClient,    \* packets on their way, in order
    isSad, isHappy,        \* TestGame: the face each window shows
    told,                  \* for the properties: the results sent since the game began
    lost                   \* and who lost a ball since its last packet was one

packets == <<toServer, toClient>>
views == <<isSad, isHappy>>
gameVars == <<server, packets, views, told, lost>>

Keys == {"c", "w", "s"}

-----------------------------------------------------------------------------
\* The ball.

Placed(speed) == [x |-> StartX, y |-> StartY, vx |-> speed, vy |-> speed]

Hits(y, paddle) == y > paddle - HalfPaddle - Size /\ y < paddle + HalfPaddle

OffBottomLate(y) == IF y > Height THEN y - 2 * (y - Height) ELSE y
OffBottom(y) == IF y + Size > Height THEN y - 2 * (y + Size - Height) ELSE y

\* Ball::Move: the ball and what it returns, the winner, -2 for a miss or -1.
\* Behind a goal it stops, at the top and the bottom and at a paddle it bounces.
Move(b, paddles) ==
    LET x == b.x + b.vx
        y == b.y + b.vy
        top == y < 0
        below == IF top THEN -y ELSE y
        bottom == below + Size > Height
        high == OffBottom(below)
        vy == IF top = bottom THEN b.vy ELSE -b.vy
        left == x < LeftPaddleEdge /\ x - b.vx >= LeftPaddleEdge
        off == IF left THEN x - 2 * (x - LeftPaddleEdge) ELSE x
        vx == IF left THEN -b.vx ELSE b.vx
        right == off + Size > RightPaddleEdge /\ off + Size - vx <= RightPaddleEdge
        Result(atX, atY, newVx, newVy, state) ==
            [ball |-> [x |-> atX, y |-> atY, vx |-> newVx, vy |-> newVy], state |-> state]
    IN  IF x < Margin THEN Result(x, y, 0, 0, 1)
        ELSE IF x + Size > Width - Margin THEN Result(x, below, 0, 0, 0)
        ELSE IF left /\ ~Hits(high, paddles[0]) THEN Result(x, high, b.vx, vy, -2)
        ELSE IF ~right THEN Result(off, high, vx, vy, -1)
        ELSE IF Hits(high, paddles[1])
             THEN Result(off - 2 * (off + Size - RightPaddleEdge), high, -vx, vy, -1)
             ELSE Result(off, high, vx, vy, -2)

-----------------------------------------------------------------------------
\* The server: a turn handles a message, updates the game and sends.

StartPaddles == [i \in 0 .. 1 |-> StartPaddle]
IsGameOver(s) == s.state > -1

Update(s) ==
    IF IsGameOver(s) THEN s
    ELSE LET next == Move(s.ball, s.paddlePositions)
         IN  [s EXCEPT !.ball = next.ball, !.state = next.state]

\* The client enters the list; the second one starts the game, and any later one
\* stops the ball for good.
Joined(s, c, others, starts) ==
    [s EXCEPT !.clients = Clients!Push(others, c),
              !.playerNum[c] = others.size,
              !.connections = @ \cup {c},
              !.ball = Placed(IF starts THEN Speed ELSE 0),
              !.state = -1,
              !.paddlePositions = IF starts THEN StartPaddles ELSE @]

\* "c:" of a client that is not connected.
ConnectLate(s, c) ==
    LET others == IF IsGameOver(s) THEN Clients!EmptyList ELSE s.clients
    IN  Joined(s, c, others, others.size = 2)
ConnectToAll(s, c) == Joined(s, c, s.clients, s.clients.size + 1 = 2)
Connect(s, c) ==
    LET others == IF IsGameOver(s) THEN Clients!EmptyList ELSE s.clients
    IN  Joined(s, c, others, others.size + 1 = 2)

\* "w:" and "s:" move the paddle of a player, within the picture; after a miss
\* the paddles are frozen, but for one turn only.
Steered(paddle, key) ==
    IF key = "w"
    THEN IF paddle - KeyStep - HalfPaddle < 0 THEN HalfPaddle ELSE paddle - KeyStep
    ELSE IF paddle + KeyStep + HalfPaddle > Height THEN Height - HalfPaddle ELSE paddle + KeyStep
Steer(s, c, key) ==
    IF s.state # -2 /\ c \in s.connections /\ s.playerNum[c] < 2
    THEN [s EXCEPT !.paddlePositions[s.playerNum[c]] = Steered(@, key)]
    ELSE s

Handle(s, c, key) ==
    IF key # "c" THEN Steer(s, c, key)
    ELSE IF c \in s.connections THEN s ELSE Connect(s, c)

\* What is sent to whom: the ball, or "w" to the winner and "l" to the others.
ListedConnected(s) == ToSet(Clients!Forward(s.clients)) \cap s.connections
Listed(s) == ToSet(Clients!Forward(s.clients))
Message(s, c) ==
    CASE ~IsGameOver(s) -> "b"
      [] IsGameOver(s) /\ s.playerNum[c] = s.state -> "w"
      [] IsGameOver(s) /\ s.playerNum[c] # s.state -> "l"

\* The results close the connections.  A packet without room is lost.
Send(s) ==
    LET fits == {c \in Listed(s) : Len(toClient[c]) < Depth}
    IN  /\ server' = IF IsGameOver(s) THEN [s EXCEPT !.connections = @ \ Listed(s)] ELSE s
        /\ toClient' = [c \in Player |-> IF c \in fits THEN Append(toClient[c], Message(s, c))
                                         ELSE toClient[c]]
        /\ lost' = IF IsGameOver(s) THEN lost ELSE lost \cup (Listed(s) \ fits)
        /\ told' = [c \in Player |-> IF ~IsGameOver(s) THEN {}
                                     ELSE IF c \in Listed(s) THEN told[c] \cup {Message(s, c)}
                                     ELSE told[c]]
        /\ UNCHANGED views

\* One turn: ReadSocket does not wait for a packet.
ReadNothing ==
    /\ toServer = <<>>
    /\ \E s \in {Update(server)} : Send(s)
    /\ UNCHANGED toServer
Read(c, key) ==
    /\ toServer # <<>> /\ Head(toServer) = <<c, key>>
    /\ toServer' = Tail(toServer)
    /\ \E s \in {Handle(server, c, key)} : \E t \in {Update(s)} : Send(t)
Turn == ReadNothing \/ \E c \in Player, key \in Keys : Read(c, key)

-----------------------------------------------------------------------------
\* The window of a player: a turn shows what it has read and sends its keys.

ShowsSad(c, message) ==
    CASE message = "b" -> isHappy' = isHappy \ {c} /\ UNCHANGED isSad
      [] message = "l" -> isSad' = isSad \cup {c} /\ UNCHANGED isHappy
      [] message = "w" -> isHappy' = isHappy \cup {c} /\ UNCHANGED isSad
Shows(c, message) ==
    CASE message = "b" -> isSad' = isSad \ {c} /\ isHappy' = isHappy \ {c}
      [] message = "l" -> isSad' = isSad \cup {c} /\ UNCHANGED isHappy
      [] message = "w" -> isHappy' = isHappy \cup {c} /\ UNCHANGED isSad

Receive(c) ==
    /\ toClient[c] # <<>>
    /\ Shows(c, Head(toClient[c]))
    /\ toClient' = [toClient EXCEPT ![c] = Tail(@)]
    /\ lost' = IF toClient[c] = <<"b">> THEN lost \ {c} ELSE lost
    /\ UNCHANGED <<server, toServer, told>>
Press(c, key) ==
    /\ Len(toServer) < Depth
    /\ toServer' = Append(toServer, <<c, key>>)
    /\ UNCHANGED <<server, toClient, views, told, lost>>

\* The network loses a packet.  One to the server that is lost is not sent.
LoseToClient(c) ==
    /\ toClient[c] # <<>>
    /\ toClient' = [toClient EXCEPT ![c] = Tail(@)]
    /\ lost' = IF Head(toClient[c]) = "b" THEN lost \cup {c} ELSE lost
    /\ UNCHANGED <<server, toServer, views, told>>

GameInit ==
    /\ server = [ball |-> Placed(0), state |-> -2, paddlePositions |-> StartPaddles,
                 connections |-> {}, clients |-> Clients!EmptyList,
                 playerNum |-> [c \in Player |-> 0]]
    /\ toServer = <<>> /\ toClient = [c \in Player |-> <<>>]
    /\ isSad = {} /\ isHappy = {}
    /\ told = [c \in Player |-> {}] /\ lost = {}

GameNext ==
    \/ Turn
    \/ \E c \in Player :
        Receive(c) \/ LoseToClient(c) \/ \E key \in Keys : Press(c, key)

GameSpec == GameInit /\ [][GameNext]_gameVars

\* The server's loop goes on, and of the packets to a window some are received.
GameFairSpec == GameSpec /\ WF_gameVars(Turn) /\ \A c \in Player : SF_gameVars(Receive(c))

-----------------------------------------------------------------------------

Playing == server.ball.vx # 0

Balls == [x : Int, y : Int, vx : {-Speed, 0, Speed}, vy : {-Speed, 0, Speed}]
Servers ==
    [ball : Balls, state : -2 .. 1,
     paddlePositions : [0 .. 1 -> HalfPaddle .. Height - HalfPaddle],
     connections : SUBSET Player, clients : Clients!ListType, playerNum : [Player -> Nat]]

GameTypeOK ==
    /\ server \in Servers
    /\ toServer \in Seq(Player \X Keys) /\ toClient \in [Player -> Seq({"b", "w", "l"})]
    /\ Len(toServer) <= Depth /\ \A c \in Player : Len(toClient[c]) <= Depth
    /\ isSad \subseteq Player /\ isHappy \subseteq Player

\* The list and the array of connections agree while a game goes on, the players
\* have the numbers from zero in the order they came, and of a game that is over
\* exactly one client is ever told that it has won, however often it is told.
MembersExact ==
    LET list == Clients!Forward(server.clients)
    IN  /\ GameTypeOK
        /\ IsInjective(list) /\ Len(list) = server.clients.size
        /\ \A k \in DOMAIN list : server.playerNum[list[k]] = Len(list) - k
        /\ server.connections = IF IsGameOver(server) THEN {} ELSE ToSet(list)
        /\ IsGameOver(server) =>
            /\ Len(list) = 2
            /\ {told[c] : c \in ToSet(list)} = {{"w"}, {"l"}}

\* The windows draw the ball that is sent to them into a buffer of the size of
\* the picture, without looking (TestGame.cc:270): every ball that is sent is
\* inside.
BallInPicture ==
    ~IsGameOver(server) =>
        /\ server.ball.x \in 0 .. Width - Size
        /\ server.ball.y \in 0 .. Height - Size

\* A window forgets the result of a game when the next one begins: it has both
\* faces to show (and shows the sad one) only after the network lost a ball.
ShownIsLast == \A c \in isSad \cap isHappy : c \in lost

\* The face that a window draws: the sad one first (TestGame.cc:244-264).
Face(c) == IF c \in isSad THEN "l" ELSE IF c \in isHappy THEN "w" ELSE "b"

\* The window of whoever played shows the result of this game, the happy face to
\* the winner and the sad one to the loser, unless the next game begins first or
\* a sad face of an earlier game hides a happy one.
ResultsArrive ==
    \A c \in Player :
        IsGameOver(server) /\ c \in ToSet(Clients!Forward(server.clients))
        ~> \/ Face(c) = Message(server, c) \/ ~IsGameOver(server)
           \/ c \in isSad \cap isHappy

\* Without that exception it does not hold: only a ball clears the faces, and the
\* balls of a whole game may be lost.
WinnersSeeIt ==
    \A c \in Player :
        IsGameOver(server) /\ c \in ToSet(Clients!Forward(server.clients))
        ~> Face(c) = Message(server, c) \/ ~IsGameOver(server)

\* "type t in both windows and the game will start" (NetworkReadme.txt): if
\* packets of both arrive again and again, a game is on again and again.  (Of two
\* clients: a third one stops the ball, and nothing starts it again.)
Asks(c) == Press(c, "c")
RematchStarts ==
    (\A c \in Player : []<><<Asks(c)>>_gameVars)
    => []<>Playing
=============================================================================
