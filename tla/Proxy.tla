------------------------------- MODULE Proxy --------------------------------
(***************************************************************************)
(* A session of the HTTP proxy with its transfer: HttpSession, where the   *)
(* time between the header of a download and the end of ProcessRequest is  *)
(* spent in the steps of ProxyTransfer, on the thread that runs HandleRead.*)
(* Other handlers of the session may run on the other threads meanwhile.   *)
(***************************************************************************)
EXTENDS HttpSession, ProxyTransfer

proxyVars == <<vars, transferVars>>

ProxyInit == Init /\ InitTransfer

Transferring == reader = "header" /\ phase \notin {"idle", "refused", "ended", "threw"}

\* The header was written: ProcessRequest goes on with the transfer.
HeaderWritten == reader = "header" /\ Collect /\ UNCHANGED vars

\* A write to the client throws once its side, or ours, is closed.
ClientGone(i) == (peer # "open" \/ shut) /\ DeliverThrows(i)

Transfer == /\ Transferring
            /\ Fetch \/ Decode \/ \E i \in DOMAIN file.modes : ClientGone(i)
            /\ UNCHANGED vars

\* How the transfer ends decides what ProcessRequest does to the session.
HeaderUnwritten == phase = "idle" /\ HeaderFails /\ UNCHANGED transferVars

TransferRefused == /\ phase = "refused" /\ NoCDN
                   /\ phase' = "idle"
                   /\ UNCHANGED <<sessionVars, body, ec, decoderVars>>

TransferEnded == phase \in {"ended", "threw"} /\ Relay /\ UNCHANGED transferVars

Respond == \/ (RespondError \/ BeginHeader) /\ UNCHANGED transferVars
           \/ HeaderWritten \/ Transfer
           \/ HeaderUnwritten \/ TransferRefused \/ TransferEnded

Read == (ReadRequest \/ ReadEndOfStream \/ ReadFails) /\ UNCHANGED transferVars

WriteCompletes == \E failed \in BOOLEAN : WriteEnds(failed) /\ UNCHANGED transferVars

ProxyNext ==
    \/ (ClientSends \/ \E how \in Peers \ {"open"} : ClientLeaves(how)) /\ UNCHANGED transferVars
    \/ Read \/ Respond \/ WriteCompletes
    \/ HandleWrite /\ UNCHANGED transferVars
    \/ Destroyed /\ UNCHANGED transferVars

\* Operations complete, those of the CDNs' connections too, and handlers
\* return.
ProxySpec == /\ ProxyInit /\ [][ProxyNext]_proxyVars
             /\ WF_proxyVars(Read) /\ WF_proxyVars(Respond) /\ WF_proxyVars(WriteCompletes)
             /\ WF_proxyVars(HandleWrite /\ UNCHANGED transferVars)
=============================================================================
