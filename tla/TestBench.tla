-------------------------------- MODULE TestBench --------------------------------
(***************************************************************************)
(* What the client programs on the PC work with: their database, and the   *)
(* UUT behind a UDP network.                                               *)
(*                                                                         *)
(* The UUT is TestService, which UutPipeline implements.  The network may  *)
(* reorder datagrams; a lossy one loses them, a duplicating one delivers   *)
(* answers twice.  A datagram the UUT has no room for counts as lost.      *)
(***************************************************************************)
EXTENDS TestsDb

CONSTANT Network   \* the kinds of network the clients may meet

ASSUME NetworkAssumption == Network \subseteq {"reliable", "lossy", "duplicating"}

Byte == 0..255
Peripheral == {"UART", "I2C", "SPI", "ADC", "TIM"}
Verdict == {"SUCCESS", "FAILED"}

\* OutMsg of the clients; the client stands for its socket.
Message == [client : Client, test_id : Nat, peripheral : SUBSET Peripheral,
            n_iter : Byte, p_len : Byte]

VARIABLES
  network,
  requests,      \* the messages on their way to the UUT
  responses,     \* the answers on their way back.  The client gets the result and the id
                 \* of req; peri is history; copy tells a duplicate from the original
  accepted, concluded   \* the UUT, see TestService

uutVars == <<accepted, concluded>>
netVars == <<requests, responses>>
benchVars == <<network, netVars, uutVars, dbVars>>

-----------------------------------------------------------------------------
Wanted(r) == r.peripheral
Valid(r) == Wanted(r) # {} /\ r.n_iter > 0 /\ r.p_len > 0

Uut == INSTANCE TestService WITH Request <- Message

BenchInit ==
  /\ network \in Network
  /\ requests = {} /\ responses = {}
  /\ Uut!Init
  /\ DbInit

\* A request arrives: an invalid one is logged by the UUT and forgotten.
UutReceive(r) ==
  /\ requests' = requests \ {r}
  /\ \/ Valid(r) /\ Uut!Accept(r)
     \/ ~Valid(r) /\ UNCHANGED uutVars
  /\ UNCHANGED <<responses, dbVars, pc>>

UutRespond(r, p) ==
  /\ Uut!Conclude(r, p)
  /\ responses' = responses \cup
       {[req |-> c.req, peri |-> c.peri, result |-> c.result, copy |-> 1]
          : c \in concluded' \ concluded}
  /\ UNCHANGED <<requests, dbVars, pc>>

UutStep ==
  /\ UNCHANGED network
  /\ \/ \E r \in requests : UutReceive(r)
     \/ \E n \in DOMAIN accepted : \E p \in Wanted(accepted[n]) : UutRespond(accepted[n], p)

Lose ==
  /\ network = "lossy"
  /\ \/ \E r \in requests : requests' = requests \ {r} /\ UNCHANGED responses
     \/ \E m \in responses : responses' = responses \ {m} /\ UNCHANGED requests
  /\ UNCHANGED <<network, uutVars, dbVars, pc>>

Duplicate ==
  /\ network = "duplicating"
  /\ \E m \in responses :
       m.copy = 1 /\ responses' = responses \cup {[m EXCEPT !.copy = 2]}
  /\ UNCHANGED <<network, requests, uutVars, dbVars, pc>>

BenchStep == UutStep \/ Lose \/ Duplicate

\* Mutant: the result of sendto is ignored.
SendMessageUnchecked(c, m, to) ==
  /\ pc[c] = "send"
  /\ requests' \in {requests, requests \cup {m}}
  /\ Goto(c, to)
  /\ UNCHANGED <<network, responses, uutVars, dbVars>>

\* udp_send_data: the socket takes the whole datagram, or the program ends.
SendMessage(c, m, to) ==
  /\ pc[c] = "send"
  /\ \/ requests' = requests \cup {m} /\ Goto(c, to)
     \/ UNCHANGED requests /\ Goto(c, "udp_error")
  /\ UNCHANGED <<network, responses, uutVars, dbVars>>

\* udp_receive_data takes any datagram that has come to the client's socket.
ToClient(c) == {m \in responses : m.req.client = c}

-----------------------------------------------------------------------------
BenchTypeOK ==
  /\ network \in Network
  /\ requests \subseteq Message
  /\ responses \subseteq [req : Message, peri : Peripheral, result : Verdict, copy : 1..2]
  /\ accepted \in Seq(Message)
  /\ concluded \subseteq [req : Message, peri : Peripheral, result : Verdict]
  /\ testLogs \in Seq([test_id : Nat, result : BOOLEAN, req : Message])
  /\ dbWriter \in Client \cup {NoClient}
  /\ dbReaders \subseteq Client
  /\ Locked => dbReaders = {}
  /\ overlapped \in BOOLEAN

\* A logged result is the UUT's: the request has concluded on each of its peripherals,
\* and the row says success if and only if all of them succeeded.
LoggedResultTrue ==
  \A n \in DOMAIN testLogs : LET row == testLogs[n] IN
    /\ \A p \in Wanted(row.req) : Uut!Concluded(row.req, p)
    /\ row.result <=> \A p \in Wanted(row.req) :
                        [req |-> row.req, peri |-> p, result |-> "SUCCESS"] \in concluded

\* So it is as long as the network duplicates nothing, although udp_receive_data takes any
\* answer for its own.
LoggedVerdictTrue == network # "duplicating" => LoggedResultTrue
=============================================================================
