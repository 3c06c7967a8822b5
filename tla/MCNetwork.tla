----------------------------- MODULE MCNetwork -----------------------------
(***************************************************************************)
(* The server's threads, one connection's codec and the chat client, side  *)
(* by side.  They share no state, so a behaviour is one of one part, the   *)
(* others at rest where they began.                                        *)
(***************************************************************************)
EXTENDS LuaServer, Codec, ChatClient

CONSTANTS c1, c2

VARIABLE part  \* the part that runs

allVars == <<part, vars, codecVars, clientVars>>

(* The server: two connections, three messages in bursts of up to two, two *)
(* timers.                                                                 *)
MCConns == {c1, c2}

(* The codec: bytes of one bit and headers of four: lengths -8 .. 7, of    *)
(* which 0 .. 4 are accepted.  The messages include the empty one, one of  *)
(* the limit that looks like a header of its own, one just above the limit *)
(* and one whose length reads back as a negative number.                   *)
MCMessages == {<<>>, <<0>>, <<0, 0, 0, 1>>, <<1, 0, 1, 0, 1>>, <<0, 0, 0, 1, 0, 0, 0, 0>>}

ASSUME CodecParameters

(* The client: three lines and three connections: lines typed before,      *)
(* during, between and after connections.                                  *)
ASSUME ClientParameters

PartsInit == part \in {"server", "codec", "client"} /\ Init /\ CodecInit /\ ClientInit

Server(A) == part = "server" /\ A /\ UNCHANGED <<part, codecVars, clientVars>>
Codec(A)  == part = "codec"  /\ A /\ UNCHANGED <<part, vars, clientVars>>
Client(A) == part = "client" /\ A /\ UNCHANGED <<part, vars, codecVars>>

PartsNext == Server(Next) \/ Codec(CodecNext) \/ Client(ClientNext)

(* Each part's own fairness. *)
PartsFairness ==
  /\ WF_allVars(Server(Boot)) /\ WF_allVars(Server(MainStep)) /\ WF_allVars(Server(WorkerStep))
  /\ WF_allVars(Codec(\E n \in 1 .. Len(wire) : Receive(n))) /\ WF_allVars(Codec(OnMessage))
  /\ WF_allVars(Client(TypingStep)) /\ WF_allVars(Client(LoopStep))

PartsSpec == PartsInit /\ [][PartsNext]_allVars /\ PartsFairness

=============================================================================
