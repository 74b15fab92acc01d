----------------------------- MODULE NokiaHandler -----------------------------
(***************************************************************************)
(* NokiaSocketCbHandler: the demuxer callback handler that receives the   *)
(* PAT, PMT and ECM sections of the tuned channel from the Nokia front    *)
(* end over a UDP socket and publishes them to kPat0, kPmt0, kEcm0 and    *)
(* kDrm0.                                                                 *)
(*                                                                         *)
(* Threads:                                                               *)
(*   socket  - openLoop: recvfrom, then the whole message under           *)
(*             mStreamStatusMtx;                                          *)
(*   switch  - notifyStreamSwitched(uri), called by MediaSourceHandler::  *)
(*             open under the same mutex;                                 *)
(*   feip    - the front end, which sends one PAT/PMT message and then    *)
(*             one ECM message for each channel it is tuned to; for a     *)
(*             clear channel that is a bare 4-byte "dummy" or an "ecm0"   *)
(*             whose ECM section length is 0.                             *)
(* The messages carry no type: openLoop takes the first one after a       *)
(* switch for PAT/PMT and the next for the ECM.  The socket is never      *)
(* drained, so a message sent for the previous channel can still be       *)
(* queued when the switch resets that order.                              *)
(*                                                                         *)
(* A message is [ch, kind]: the channel it was sent for and its layout.   *)
(* An MVar holding section bytes is [ch, ok]: the channel of the bytes    *)
(* and whether they are the section the variable is named for; NoTable   *)
(* is the empty vector.  Every write of kEcm0 calls its watcher,          *)
(* PSIParser::notifyConfigurationChanged, which sets mPsiParserRunning to *)
(* whether the new value is empty; running is that flag.                  *)
(***************************************************************************)
EXTENDS Integers, Sequences

CONSTANTS
    Channels,     \* URIs open may be called with
    Scrambled     \* channels whose PMT has a VMX CA descriptor

NoCh == "none"
NoTable == [ch |-> NoCh, ok |-> FALSE]
Kinds == {"patpmt", "ecm", "dummy", "ecm0"}

VARIABLES
    tuned,      \* the channel the front end streams, NoCh when none
    sent,       \* messages the front end has sent for that channel
    sock,       \* datagrams queued on mSocketFd
    patRx,      \* mIsPatPmtReceived
    ecmRx,      \* mIsEcmReceived
    chIp,       \* mChannelIp
    kPat, kPmt, kEcm,
    drm,        \* kDrm0
    running     \* PSIParser::mPsiParserRunning, set by the kEcm0 watcher

nokiaVars == <<tuned, sent, sock, patRx, ecmRx, chIp, kPat, kPmt, kEcm, drm,
               running>>

\* The bytes of a section sent for channel c; ok when they are read as the
\* section they are.
Section(c, ok) == [ch |-> c, ok |-> ok]

\* The front end's possible n-th messages (from 0) for channel c.
FeipMessages(c, n) ==
    {[ch |-> c, kind |-> k] :
        k \in IF n = 0 THEN {"patpmt"} ELSE IF c \in Scrambled THEN {"ecm"}
                                           ELSE {"dummy", "ecm0"}}

\* isCaDescriptorPresentInPMT: the PMT in kPmt0 is a PMT (table id 0x02)
\* with a VMX CA descriptor.
CaDescriptorPresent(pmt) == pmt.ok /\ pmt.ch \in Scrambled

(***************************************************************************)
(* parseSections(buffer, res, msgType): rv (0 or -1) and the values of    *)
(* the three MVars afterwards, with ecmW whether kEcm0 was written.       *)
(* A PAT/PMT layout read as an ECM message takes the PAT length for the   *)
(* ECM length.  An ECM layout read as PAT/PMT takes the ECM for the PAT   *)
(* (an ecm0 gives a PAT length of 0, so nothing is copied), then reads the *)
(* PMT length from the bytes after the datagram, left in the receive      *)
(* buffer by an earlier message: junk says whether that length is         *)
(* positive (the PMT does not fit: kPmt0 emptied, -1) or not (nothing     *)
(* copied, 0).  An ecm0 read as an ECM empties kEcm0 and fails (lines     *)
(* 296-300).                                                              *)
(***************************************************************************)
Parsed(rv, pt, pm, e, w) == [rv |-> rv, pat |-> pt, pmt |-> pm, ecm |-> e, ecmW |-> w]

ParseSections(type, m, junk) ==
    IF type = "ECM" THEN
        CASE m.kind = "dummy"  -> Parsed(-1, kPat, kPmt, kEcm, FALSE)
          [] m.kind = "ecm"    -> Parsed(0, kPat, kPmt, Section(m.ch, TRUE), TRUE)
          [] m.kind = "patpmt" -> Parsed(0, kPat, kPmt, Section(m.ch, FALSE), TRUE)
          [] m.kind = "ecm0"   -> Parsed(-1, kPat, kPmt, NoTable, TRUE)
    ELSE
        CASE m.kind = "patpmt" -> Parsed(0, Section(m.ch, TRUE), Section(m.ch, TRUE),
                                         kEcm, FALSE)
          [] m.kind = "ecm"    -> IF junk
                                  THEN Parsed(-1, Section(m.ch, FALSE), NoTable, kEcm, FALSE)
                                  ELSE Parsed(0, Section(m.ch, FALSE), kPmt, kEcm, FALSE)
          [] m.kind = "ecm0"   -> IF junk
                                  THEN Parsed(-1, kPat, NoTable, kEcm, FALSE)
                                  ELSE Parsed(0, kPat, kPmt, kEcm, FALSE)

\* StreamProtectionConfig(HIGH, mChannelIp, ecm, pat, pmt, clear); the ECM
\* section arrives whole, as one piece.
NokiaDrm(e, pt, pm, clr) ==
    [ch |-> chIp, pat |-> pt, pmt |-> pm,
     ecm |-> IF e = NoTable THEN <<>> ELSE <<[ch |-> e.ch, n |-> 0, ok |-> e.ok]>>,
     clear |-> clr]

(***************************************************************************)
(* Actions.                                                                *)
(***************************************************************************)
\* MVar::operator= on kEcm0: under the registry lock, call each watcher
\* with the new value, then store it.  The watcher is PSIParser::
\* notifyConfigurationChanged: mPsiParserRunning = value.empty().
WriteEcm(v) == kEcm' = v /\ running' = (v = NoTable)

\* notifyStreamSwitched: restart the message order and empty the three
\* sections; the empty kEcm0 sets mPsiParserRunning.
NotifyStreamSwitched(c) ==
    /\ chIp' = c
    /\ patRx' = FALSE /\ ecmRx' = FALSE
    /\ WriteEcm(NoTable) /\ kPmt' = NoTable /\ kPat' = NoTable
    /\ UNCHANGED <<tuned, sent, sock, drm>>

\* The front end sends the next message for the channel it is tuned to.
FeipSend ==
    /\ tuned /= NoCh /\ sent < 2
    /\ \E m \in FeipMessages(tuned, sent) : sock' = Append(sock, m)
    /\ sent' = sent + 1
    /\ UNCHANGED <<tuned, patRx, ecmRx, chIp, kPat, kPmt, kEcm, drm, running>>

\* One iteration of openLoop: a dummy before the PAT/PMT and anything
\* after the ECM are dropped; otherwise the message is typed by order,
\* parsed, and the ECM (or a dummy ECM on a clear PMT) published to kDrm0.
Recv ==
    /\ sock /= <<>>
    /\ sock' = Tail(sock)
    /\ LET m == Head(sock)
       IN  IF (~patRx /\ m.kind = "dummy") \/ ecmRx
           THEN UNCHANGED <<patRx, ecmRx, kPat, kPmt, kEcm, drm, running>>
           ELSE LET type == IF patRx THEN "ECM" ELSE "PAT_PMT"
                IN  /\ patRx' = TRUE
                    /\ ecmRx' = (type = "ECM")
                    /\ \E junk \in BOOLEAN :
                         LET r == ParseSections(type, m, junk)
                         IN  /\ kPat' = r.pat /\ kPmt' = r.pmt
                             /\ IF r.ecmW THEN WriteEcm(r.ecm)
                                ELSE UNCHANGED <<kEcm, running>>
                             /\ drm' = CASE type = "ECM" /\ r.rv = 0 ->
                                              NokiaDrm(r.ecm, r.pat, r.pmt, FALSE)
                                         [] type = "ECM" /\ m.kind = "dummy"
                                              /\ ~CaDescriptorPresent(r.pmt) ->
                                              NokiaDrm(r.ecm, r.pat, r.pmt, TRUE)
                                         [] OTHER -> drm
    /\ UNCHANGED <<tuned, sent, chIp>>

(***************************************************************************)
(* The handler on its own: the front end is tuned to the switched channel *)
(* some time after the switch.                                            *)
(***************************************************************************)
Init ==
    /\ tuned = NoCh /\ sent = 0 /\ sock = <<>>
    /\ patRx = TRUE /\ ecmRx = TRUE /\ chIp = NoCh
    /\ kPat = NoTable /\ kPmt = NoTable /\ kEcm = NoTable
    /\ drm = [ch |-> NoCh, pat |-> NoTable, pmt |-> NoTable, ecm |-> <<>>,
              clear |-> FALSE]
    /\ running = FALSE

Tune ==
    /\ chIp /= tuned /\ chIp /= NoCh
    /\ tuned' = chIp /\ sent' = 0
    /\ UNCHANGED <<sock, patRx, ecmRx, chIp, kPat, kPmt, kEcm, drm, running>>

Next == (\E c \in Channels : NotifyStreamSwitched(c)) \/ Tune \/ FeipSend \/ Recv

Spec == Init /\ [][Next]_nokiaVars

================================================================================
