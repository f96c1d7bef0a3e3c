------------------------------- MODULE NetifTx -------------------------------
(***************************************************************************)
(* The link output of the lwIP port, low_level_output of netif.c, on top   *)
(* of the polled Ethernet driver: one frame at a time is copied into a Tx  *)
(* buffer, transmitted with a confirmation request, and confirmations are  *)
(* collected right after.  There is no other caller of TxConfirmation.     *)
(***************************************************************************)
EXTENDS EthTx

CONSTANT FrameLengths  \* p->tot_len of the frames lwIP sends, header included

HeaderLength == 14
Mtu          == 1500   \* netif->mtu

ASSUME NetifConstants == FrameLengths \subseteq HeaderLength .. HeaderLength + Mtu

VARIABLE out  \* where low_level_output stands, and the buffer it fills

netifVars == <<vars, out>>

Idle == [pc |-> "idle", bufferIdx |-> 0, length |-> 0]

\* The state in which EcuM enters lwIP: Eth_Init was called, and one call of
\* Eth_SetControllerMode, its result ignored, worked or did not.  The project
\* polls the driver.
NetifInit ==
  /\ TxIntEnabled = FALSE
  /\ FreshRing
  /\ coreInit = TRUE /\ cntrlInit \in BOOLEAN /\ hwActive = cntrlInit
  /\ out = Idle

-----------------------------------------------------------------------------
(* low_level_output, which returns ERR_OK whatever happens. *)

\* Eth_ProvideTxBuffer granted a buffer and the frame is copied into it.
OutputFill(len) ==
  /\ ProvideGrant(len)
  /\ out' = [pc |-> "filled", bufferIdx |-> CurrTxIdx, length |-> len]

\* Eth_ProvideTxBuffer refused, and the frame is dropped.
OutputRefused(len) ==
  /\ \/ ProvideOverflow(len)
     \/ (ProvideBusy(len) \/ ~DriverReady) /\ UNCHANGED vars
  /\ UNCHANGED out

\* lwIP calls netif->linkoutput.
OutputStart(len) ==
  /\ out.pc = "idle"
  /\ OutputFill(len) \/ OutputRefused(len)

\* Mutant: the frame length is passed on where the payload length belongs,
\* counted from the wrong end of the header.
OutputTransmit_WrongLength ==
  /\ out.pc = "filled"
  /\ IF TransmitAccepted(out.bufferIdx, out.length + HeaderLength)
     THEN /\ lTransmit(out.bufferIdx, TRUE)
          /\ out' = [out EXCEPT !.pc = "transmitted"]
     ELSE out' = Idle /\ UNCHANGED vars

\* Eth_Transmit of the payload; a refusal leaves the buffer behind.
OutputTransmit ==
  /\ out.pc = "filled"
  /\ IF TransmitAccepted(out.bufferIdx, out.length - HeaderLength)
     THEN /\ lTransmit(out.bufferIdx, TRUE)
          /\ out' = [out EXCEPT !.pc = "transmitted"]
     ELSE out' = Idle /\ UNCHANGED vars

\* Eth_TxConfirmation, until its scan is over.
OutputConfirm ==
  \/ /\ out.pc = "transmitted"
     /\ TxConfirmation
     /\ out' = [out EXCEPT !.pc = "confirming"]
  \/ /\ out.pc = "confirming"
     /\ ScanStep /\ UNCHANGED out
  \/ /\ out.pc = "confirming"
     /\ TxConfirmationReturns /\ out' = Idle

NetifNext ==
  \/ \E len \in FrameLengths : OutputStart(len)
  \/ OutputTransmit
  \/ OutputConfirm
  \/ Dma /\ UNCHANGED out

NetifSpec == NetifInit /\ [][NetifNext]_netifVars

\* The hardware goes on, calls of low_level_output end, and short frames keep
\* coming: StatusReport_1000ms sends one every second.
NetifFairness ==
  /\ WF_netifVars(Dma /\ UNCHANGED out)
  /\ WF_netifVars(OutputTransmit \/ OutputConfirm)
  /\ \A len \in FrameLengths :
       len <= PayloadLimit => WF_netifVars(OutputStart(len))

NetifFairSpec == NetifSpec /\ NetifFairness

-----------------------------------------------------------------------------
(* Properties. *)

\* No buffer leaks: one that is neither queued, sent nor free is the one the
\* running call of low_level_output is filling.
OnlyTheFilledBufferIsHeld ==
  \A i \in Buffers :
    Used(i) /\ ~Initiated(i) => out.pc = "filled" /\ out.bufferIdx = i

\* The driver refuses no call low_level_output makes of Eth_Transmit, so every
\* frame that got a buffer is handed to the DMA.
GrantedFramesAreTransmitted ==
  [][~(out.pc = "filled" /\ out'.pc = "idle")]_netifVars

\* "This function should do the actual transmission of the packet": if the
\* controller started, and frames keep coming, frames keep being transmitted.
TransmissionGoesOn == cntrlInit => []<>(out.pc = "transmitted")
=============================================================================
