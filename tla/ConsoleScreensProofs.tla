------------------------ MODULE ConsoleScreensProofs ------------------------
(***************************************************************************)
(* The screens, proved for texts of any length, any addresses, QR codes    *)
(* and snapshots.                                                          *)
(***************************************************************************)
EXTENDS ConsoleScreens, SequenceTheorems, TLAPS

-----------------------------------------------------------------------------
(* The camera *)

\* A scanner that scans: everything is held, and nothing was lost.
Scanning == [active |-> TRUE, capturing |-> TRUE, held |-> AllResources, leaked |-> FALSE]

LEMMA ResourceNames ==
    AllResources = {"decoder", "buffer", "texture", "camera", "sensor",
                    "buffer_error_event", "receive_event", "capture"}
  BY DEF AllResources, Resources

\* A scanner is what it holds and its flags.
LEMMA SameScanner ==
    ASSUME NEW r \in Scanners, NEW s \in Scanners,
           r.active <=> s.active, r.capturing <=> s.capturing,
           r.held = s.held, r.leaked <=> s.leaked
    PROVE  r = s
  BY DEF Scanners

LEMMA OffAndScanning ==
    /\ Off \in Scanners
    /\ ~Off.active /\ ~Off.capturing /\ ~Off.leaked /\ Off.held = {}
    /\ Scanning \in Scanners
    /\ Scanning.active /\ Scanning.capturing /\ ~Scanning.leaked
    /\ Scanning.held = AllResources
  BY DEF Scanners, Off, Scanning

\* What stop keeps
Kept(s) ==
    s.held \ ({"receive_event", "buffer_error_event", "buffer", "decoder", "texture"}
              \cup (IF "camera" \in s.held THEN {"camera", "sensor"} ELSE {})
              \cup (IF "camera" \in s.held /\ s.capturing THEN {"capture"} ELSE {}))

LEMMA StoppedFields ==
    ASSUME NEW s \in Scanners
    PROVE  /\ Stopped(s) \in Scanners
           /\ ~Stopped(s).active
           /\ Stopped(s).capturing <=> s.capturing /\ "camera" \notin s.held
           /\ Stopped(s).held = Kept(s)
           /\ Stopped(s).leaked <=> s.leaked
<1>1. Kept(s) \in SUBSET AllResources
  BY DEF Kept, Scanners
<1>2. Stopped(s) = [s EXCEPT !.active = FALSE,
                             !.capturing = @ /\ "camera" \notin s.held,
                             !.held = Kept(s)]
  BY DEF Stopped, Kept
<1> HIDE DEF Kept
<1> QED
  BY <1>1, <1>2 DEF Scanners

\* A scanner that lost nothing and that captures, if at all, with a camera is
\* off once it is stopped, unless it holds what stop does not give back.
LEMMA StoppedIsOff ==
    ASSUME NEW s \in Scanners, ~s.leaked,
           s.capturing => "camera" \in s.held,
           "capture" \in s.held => s.capturing,
           "sensor" \in s.held => "camera" \in s.held
    PROVE  Stopped(s) = Off
<1>1. Kept(s) = {}
  BY ResourceNames DEF Kept, Scanners
<1> QED
  BY <1>1, StoppedFields, OffAndScanning, SameScanner

LEMMA AfterFields ==
    ASSUME NEW k \in 0 .. Len(Resources)
    PROVE  /\ After(Off, k) \in Scanners
           /\ ~After(Off, k).active /\ ~After(Off, k).capturing /\ ~After(Off, k).leaked
           /\ After(Off, k).held = {Resources[i] : i \in 1..k}
<1> DEFINE held == {Resources[i] : i \in 1..k}
<1>1. k \in 0..8
  BY DEF Resources
<1>2. held \in SUBSET AllResources
  BY <1>1 DEF AllResources, Resources
<1>3. After(Off, k) = [Off EXCEPT !.held = Off.held \cup held]
  BY DEF After
<1> HIDE DEF held
<1>4. Off.held \cup held = held
  BY OffAndScanning
<1>5. After(Off, k) = [Off EXCEPT !.held = held]
  BY <1>3, <1>4
<1>6. /\ After(Off, k) \in Scanners
      /\ After(Off, k).held = held
      /\ ~After(Off, k).active /\ ~After(Off, k).capturing /\ ~After(Off, k).leaked
  BY <1>2, <1>5, OffAndScanning DEF Scanners
<1> QED
  BY <1>6 DEF held

\* What a start that failed has taken, stop gives back: without the camera no
\* sensor was taken, and the capture comes last.
LEMMA StopGivesAllBack ==
    ASSUME NEW k \in 0 .. Len(Resources) - 1
    PROVE  Stopped(After(Off, k)) = Off
<1> DEFINE held == {Resources[i] : i \in 1..k}
<1>1. k \in 0..7 /\ k \in 0 .. Len(Resources)
  BY DEF Resources
<1>2. "capture" \notin held
  BY <1>1 DEF Resources
<1>3. "camera" \notin held => "sensor" \notin held
  BY <1>1 DEF Resources
<1>4. After(Off, k).held = held
  BY <1>1, AfterFields
<1> HIDE DEF held
<1> QED
  BY <1>1, <1>2, <1>3, <1>4, AfterFields, StoppedIsOff

\* A start that did all its steps scans, every other one leaves nothing.
LEMMA StartsWholeOrGone == Starts(Off) \subseteq {Off, Scanning}
<1> DEFINE all == After(Off, Len(Resources))
           started == [all EXCEPT !.active = TRUE, !.capturing = TRUE]
<1>1. Stopped(Off) = Off
  BY StoppedIsOff, OffAndScanning
<1>2. Len(Resources) \in 0 .. Len(Resources) /\ AllResources = {Resources[i] : i \in 1 .. Len(Resources)}
  BY DEF Resources, AllResources
<1>3. all \in Scanners /\ all.held = AllResources /\ ~all.leaked
  BY <1>2, AfterFields
<1> HIDE DEF all
<1>4. /\ started \in Scanners
      /\ started.active /\ started.capturing /\ ~started.leaked
      /\ started.held = AllResources
  BY <1>3 DEF Scanners
<1>5. started = Scanning
  BY <1>4, OffAndScanning, SameScanner
<1> QED
  BY <1>1, <1>5, StopGivesAllBack DEF Starts, all

\* While the camera scans, a frame leaves it whole or, if it ends the scan, gone.
LEMMA FrameWholeOrGone ==
    /\ Continues(Scanning) = {Scanning}
    /\ Decodes(Scanning) = Off
    /\ Fails(Scanning) = {Off}
<1> DEFINE closed == EventClosed(Scanning)
<1>1. /\ closed \in Scanners
      /\ closed.active /\ closed.capturing /\ ~closed.leaked
      /\ closed.held = AllResources \ {"receive_event"}
  <2>1. Scanning.held \ {"receive_event"} \in SUBSET AllResources
    BY OffAndScanning
  <2>2. closed = [Scanning EXCEPT !.held = Scanning.held \ {"receive_event"}]
    BY DEF EventClosed
  <2> QED
    BY <2>1, <2>2, OffAndScanning DEF Scanners
<1> HIDE DEF closed
<1>2. queue_frame(closed) = Scanning
  <2>1. "receive_event" \notin closed.held
    BY <1>1
  <2>2. closed.held \cup {"receive_event"} = AllResources
    BY <1>1, ResourceNames
  <2>3. queue_frame(closed) = [closed EXCEPT !.leaked = @ \/ "receive_event" \in closed.held,
                                             !.held = AllResources]
    BY <2>2 DEF queue_frame
  <2>4. /\ queue_frame(closed) \in Scanners
        /\ queue_frame(closed).active /\ queue_frame(closed).capturing
        /\ ~queue_frame(closed).leaked /\ queue_frame(closed).held = AllResources
    BY <1>1, <2>1, <2>3 DEF Scanners
  <2> QED
    BY <2>4, OffAndScanning, SameScanner
<1>3. Stopped(closed) = Off
  BY <1>1, ResourceNames, StoppedIsOff
<1>4. Stopped(Scanning) = Off
  BY OffAndScanning, ResourceNames, StoppedIsOff
<1> QED
  BY <1>2, <1>3, <1>4 DEF Continues, recover_capture, Decodes, Fails, RecoveryFails, closed

-----------------------------------------------------------------------------
(* The entry *)

Characters == {"d", "."}

\* The text of a field
LEMMA FieldTexts ==
    ASSUME NEW e \in Entries, Fits(e)
    PROVE  /\ e.field \in {"code", "ip", "port"}
           /\ e[e.field] \in Seq(Characters)
           /\ e.field # "ip" => e[e.field] \in Seq({"d"})
<1>1. e.code \in Seq({"d"}) /\ e.ip \in Seq(Characters) /\ e.port \in Seq({"d"})
  BY DEF Entries, Characters
<1>2. \A text \in Seq({"d"}) : text \in Seq(Characters)
  BY SeqMonotonic DEF Characters
<1>3. \/ e.field = "code" /\ e[e.field] = e.code
      \/ e.field = "ip" /\ e[e.field] = e.ip
      \/ e.field = "port" /\ e[e.field] = e.port
  BY DEF Entries
<1> QED
  BY <1>1, <1>2, <1>3

LEMMA PrefixOfItself ==
    ASSUME NEW S, NEW s \in Seq(S)
    PROVE  IsPrefix(s, s)
  BY LenProperties DEF IsPrefix

\* What is appended to a text leaves its beginning.
LEMMA PrefixOfAppended ==
    ASSUME NEW S, NEW s \in Seq(S), NEW t \in Seq(S), IsPrefix(s, t), NEW x \in S
    PROVE  IsPrefix(s, Append(t, x))
<1>1. Len(s) \in Nat /\ Len(t) \in Nat /\ Len(s) <= Len(t)
  BY LenProperties DEF IsPrefix
<1>2. Len(Append(t, x)) = Len(t) + 1 /\ \A i \in 1 .. Len(t) : Append(t, x)[i] = t[i]
  OBVIOUS
<1>3. SubSeq(Append(t, x), 1, Len(s)) = SubSeq(t, 1, Len(s))
  BY <1>1, <1>2, \A i \in 1 .. Len(s) : Append(t, x)[i] = t[i]
<1> QED
  BY <1>1, <1>2, <1>3 DEF IsPrefix

\* Each method leaves an entry an entry whose texts fit, and only opening and
\* cancelling change whether it is open.
LEMMA EmptiedIsEntry ==
    ASSUME NEW open \in BOOLEAN, NEW field \in {"code", "ip", "port"}
    PROVE  /\ Emptied(open, field) \in Entries
           /\ Fits(Emptied(open, field))
           /\ Emptied(open, field).open <=> open
           /\ Emptied(open, field).secret = NoSecret
<1>1. <<>> \in Seq({"d"}) /\ <<>> \in Seq(Characters)
  OBVIOUS
<1> QED
  BY <1>1, EntryConstants DEF Emptied, Entries, Fits, Characters

LEMMA SelectedIsEntry ==
    ASSUME NEW e \in Entries, Fits(e), NEW field \in {"code", "ip", "port"}
    PROVE  /\ Selected(e, field) \in Entries
           /\ Fits(Selected(e, field))
           /\ Selected(e, field).open <=> e.open
           /\ \A name \in {"code", "ip", "port", "secret"} : Selected(e, field)[name] = e[name]
  BY DEF Selected, Entries, Fits

LEMMA ScannedIsEntry ==
    ASSUME NEW e \in Entries, Fits(e), e.open, NEW endpoint \in Endpoints
    PROVE  /\ Scanned(e, endpoint) \in Entries
           /\ Fits(Scanned(e, endpoint))
           /\ Scanned(e, endpoint).open
           /\ Scanned(e, endpoint).code = <<>>
           /\ Scanned(e, endpoint).ip = endpoint.host
           /\ Scanned(e, endpoint).port = endpoint.port
           /\ Scanned(e, endpoint).secret = endpoint.secret
<1>1. endpoint.host \in LocalHosts /\ endpoint.port \in Ports /\ endpoint.secret \in Secrets
  BY DEF Endpoints
<1>2. /\ endpoint.host \in Seq({"d", "."}) /\ endpoint.port \in Seq({"d"})
      /\ Len(endpoint.host) <= kMaximumIpLength /\ Len(endpoint.port) <= kMaximumPortLength
  BY <1>1, EntryConstants
<1>3. Scanned(e, endpoint) =
        [e EXCEPT !.field = "code", !.code = <<>>, !.ip = endpoint.host,
                  !.port = endpoint.port, !.secret = endpoint.secret]
  BY DEF Scanned
<1>4. <<>> \in Seq({"d"}) /\ Len(<<>>) = 0 /\ 0 <= kPairingCodeLength
  BY EntryConstants
<1> QED
  BY <1>1, <1>2, <1>3, <1>4 DEF Entries, Fits

\* A typed character goes behind the text of one field; in the code it ends the
\* secret.
LEMMA AppendedIsEntry ==
    ASSUME NEW e \in Entries, Fits(e), NEW x \in Characters
    PROVE  /\ Appended(e, x) \in Entries
           /\ Fits(Appended(e, x))
           /\ Appended(e, x).open <=> e.open
           /\ Appended(e, x).secret # NoSecret =>
                 /\ Appended(e, x).secret = e.secret
                 /\ Appended(e, x).code = e.code
                 /\ Appended(e, x).ip = e.ip \/ \E c \in Characters : Appended(e, x).ip = Append(e.ip, c)
                 /\ Appended(e, x).port = e.port \/ Appended(e, x).port = Append(e.port, "d")
<1> DEFINE new == Appended(e, x)
           text == Append(e[e.field], x)
<1>1. CASE ~CanAppend(e, x)
  <2>1. new = e
    BY <1>1 DEF Appended
  <2> QED BY <2>1
<1>2. CASE CanAppend(e, x)
  <2>1. /\ e.field # "ip" => x = "d"
        /\ e.field = "code" => Len(e.code) < kPairingCodeLength
        /\ e.field = "ip" => Len(e.ip) < kMaximumIpLength
        /\ e.field = "port" => Len(e.port) < kMaximumPortLength
    BY <1>2 DEF CanAppend
  <2>2. /\ text \in Seq(Characters)
        /\ e.field # "ip" => text \in Seq({"d"})
        /\ Len(text) = Len(e[e.field]) + 1 /\ Len(e[e.field]) \in Nat
    BY <2>1, FieldTexts
  <2>3. new = [[e EXCEPT ![e.field] = text] EXCEPT
                  !.secret = IF e.field = "code" THEN NoSecret ELSE e.secret]
    BY <1>2 DEF Appended
  <2>4. e.field \in {"code", "ip", "port"} /\ {kPairingCodeLength, kMaximumIpLength, kMaximumPortLength} \subseteq Nat
    BY EntryConstants, FieldTexts
  <2> HIDE DEF new
  <2>5. CASE e.field = "code"
    <3>1. new = [e EXCEPT !.code = text, !.secret = NoSecret]
      <4> HIDE DEF text
      <4> QED BY <2>3, <2>5 DEF Entries
    <3>2. text \in Seq({"d"}) /\ text = Append(e.code, x)
      BY <2>1, <2>2, <2>5
    <3>3. Len(text) <= kPairingCodeLength
      BY <2>1, <2>2, <2>4, <2>5
    <3> HIDE DEF text
    <3> QED BY <3>1, <3>2, <3>3 DEF Entries, Fits, new
  <2>6. CASE e.field = "ip"
    <3>1. new = [e EXCEPT !.ip = text]
      <4> HIDE DEF text
      <4> QED BY <2>3, <2>6 DEF Entries
    <3>2. text \in Seq(Characters) /\ text = Append(e.ip, x)
      BY <2>1, <2>2, <2>6
    <3>3. Len(text) <= kMaximumIpLength
      BY <2>1, <2>2, <2>4, <2>6
    <3> HIDE DEF text
    <3> QED BY <3>1, <3>2, <3>3 DEF Entries, Fits, Characters, new
  <2>7. CASE e.field = "port"
    <3>1. new = [e EXCEPT !.port = text]
      <4> HIDE DEF text
      <4> QED BY <2>3, <2>7 DEF Entries
    <3>2. text \in Seq({"d"}) /\ text = Append(e.port, x)
      BY <2>1, <2>2, <2>7
    <3>3. Len(text) <= kMaximumPortLength
      BY <2>1, <2>2, <2>4, <2>7
    <3>4. e.field = "port" => x = "d"
      BY <2>1
    <3> HIDE DEF text
    <3> QED BY <3>1, <3>2, <3>3, <3>4, <2>7 DEF Entries, Fits, new
  <2> QED BY <2>4, <2>5, <2>6, <2>7
<1> QED BY <1>1, <1>2

LEMMA ErasedIsEntry ==
    ASSUME NEW e \in Entries, Fits(e), e.open
    PROVE  /\ Erased(e) \in Entries
           /\ Fits(Erased(e))
           /\ Erased(e).open
           /\ Erased(e).secret = NoSecret
<1> DEFINE old == e[e.field]
           text == IF old = <<>> THEN old ELSE SubSeq(old, 1, Len(old) - 1)
<1>1. /\ e.field \in {"code", "ip", "port"}
      /\ old \in Seq(Characters)
      /\ e.field # "ip" => old \in Seq({"d"})
  BY FieldTexts
<1>2. ASSUME NEW S, old \in Seq(S)
      PROVE  text \in Seq(S) /\ Len(text) <= Len(old)
  <2>1. CASE old = <<>>
    BY <2>1, <1>2
  <2>2. CASE old # <<>>
    <3>1. Len(old) \in Nat /\ Len(old) > 0 /\ \A i \in 1 .. Len(old) : old[i] \in S
      BY <2>2, <1>2, EmptySeq, ElementOfSeq, LenProperties
    <3> HIDE DEF old
    <3> QED BY <2>2, <3>1, SubSeqProperties
  <2> QED BY <2>1, <2>2
<1>3. Erased(e) = [[e EXCEPT ![e.field] = text] EXCEPT !.secret = NoSecret]
  BY DEF Erased
<1>4. /\ text \in Seq(Characters)
      /\ e.field # "ip" => text \in Seq({"d"})
      /\ Len(text) <= Len(old) /\ Len(old) \in Nat /\ Len(text) \in Nat
  BY <1>1, <1>2, LenProperties
<1>5. /\ e.field = "code" => Len(old) <= kPairingCodeLength
      /\ e.field = "ip" => Len(old) <= kMaximumIpLength
      /\ e.field = "port" => Len(old) <= kMaximumPortLength
      /\ {kPairingCodeLength, kMaximumIpLength, kMaximumPortLength} \subseteq Nat
  BY EntryConstants DEF Fits
<1> DEFINE new == Erased(e)
<1> HIDE DEF text, old, new
<1>6. CASE e.field = "code"
  <2>1. new = [e EXCEPT !.code = text, !.secret = NoSecret]
    BY <1>3, <1>6 DEF new, Entries
  <2>2. text \in Seq({"d"}) /\ Len(text) <= kPairingCodeLength
    BY <1>4, <1>5, <1>6
  <2> QED BY <2>1, <2>2 DEF Entries, Fits, new
<1>7. CASE e.field = "ip"
  <2>1. new = [e EXCEPT !.ip = text, !.secret = NoSecret]
    BY <1>3, <1>7 DEF new, Entries
  <2>2. text \in Seq(Characters) /\ Len(text) <= kMaximumIpLength
    BY <1>4, <1>5, <1>7
  <2> QED BY <2>1, <2>2 DEF Entries, Fits, Characters, new
<1>8. CASE e.field = "port"
  <2>1. new = [e EXCEPT !.port = text, !.secret = NoSecret]
    BY <1>3, <1>8 DEF new, Entries
  <2>2. text \in Seq({"d"}) /\ Len(text) <= kMaximumPortLength
    BY <1>4, <1>5, <1>8
  <2> QED BY <2>1, <2>2 DEF Entries, Fits, new
<1> QED BY <1>1, <1>6, <1>7, <1>8

\* SecretKeepsItsScan, of any entry and any endpoint scanned last
KeepsScan(e, last) ==
    e.secret # NoSecret =>
        /\ last # Nothing
        /\ e.secret = last.secret
        /\ e.code = <<>>
        /\ IsPrefix(last.host, e.ip)
        /\ IsPrefix(last.port, e.port)

EntryInv(e, last) ==
    /\ e \in Entries
    /\ Fits(e)
    /\ last \in Endpoints \cup {Nothing}
    /\ KeepsScan(e, last)

LEMMA EmptiedKeepsScan ==
    ASSUME NEW last \in Endpoints \cup {Nothing}, NEW open \in BOOLEAN,
           NEW field \in {"code", "ip", "port"}
    PROVE  EntryInv(Emptied(open, field), last)
  BY EmptiedIsEntry DEF EntryInv, KeepsScan

LEMMA SelectedKeepsScan ==
    ASSUME NEW e, NEW last, EntryInv(e, last), NEW field \in {"code", "ip", "port"}
    PROVE  EntryInv(Selected(e, field), last)
  BY SelectedIsEntry DEF EntryInv, KeepsScan

LEMMA ErasedKeepsScan ==
    ASSUME NEW e, NEW last, EntryInv(e, last), e.open
    PROVE  EntryInv(Erased(e), last)
  BY ErasedIsEntry DEF EntryInv, KeepsScan

LEMMA ScannedKeepsScan ==
    ASSUME NEW e, NEW last, EntryInv(e, last), e.open, NEW endpoint \in Endpoints
    PROVE  EntryInv(Scanned(e, endpoint), endpoint)
<1>1. endpoint.host \in Seq({"d", "."}) /\ endpoint.port \in Seq({"d"})
  BY EntryConstants DEF Endpoints
<1>2. IsPrefix(endpoint.host, endpoint.host) /\ IsPrefix(endpoint.port, endpoint.port)
  BY <1>1, PrefixOfItself
<1> QED
  BY <1>2, ScannedIsEntry, NothingIsNoEndpoint DEF EntryInv, KeepsScan

LEMMA AppendedKeepsScan ==
    ASSUME NEW e, NEW last, EntryInv(e, last), NEW x \in Characters
    PROVE  EntryInv(Appended(e, x), last)
<1> DEFINE new == Appended(e, x)
<1>1. new \in Entries /\ Fits(new)
  BY AppendedIsEntry DEF EntryInv
<1>2. ASSUME new.secret # NoSecret
      PROVE  /\ last # Nothing
             /\ new.secret = last.secret
             /\ new.code = <<>>
             /\ IsPrefix(last.host, new.ip)
             /\ IsPrefix(last.port, new.port)
  <2>1. /\ new.secret = e.secret
        /\ new.code = e.code
        /\ new.ip = e.ip \/ \E c \in Characters : new.ip = Append(e.ip, c)
        /\ new.port = e.port \/ new.port = Append(e.port, "d")
    BY <1>2, AppendedIsEntry DEF EntryInv
  <2>2. /\ last \in Endpoints /\ e.secret = last.secret /\ e.code = <<>>
        /\ IsPrefix(last.host, e.ip) /\ IsPrefix(last.port, e.port)
    BY <1>2, <2>1 DEF EntryInv, KeepsScan
  <2>3. /\ last.host \in Seq(Characters) /\ last.port \in Seq({"d"})
        /\ e.ip \in Seq(Characters) /\ e.port \in Seq({"d"})
    BY <2>2, EntryConstants DEF EntryInv, Endpoints, Entries, Characters
  <2>4. \A c \in Characters : IsPrefix(last.host, Append(e.ip, c))
    BY <2>2, <2>3, PrefixOfAppended
  <2>5. IsPrefix(last.port, Append(e.port, "d"))
    BY <2>2, <2>3, PrefixOfAppended
  <2> HIDE DEF new
  <2> QED
    BY <2>1, <2>2, <2>4, <2>5, NothingIsNoEndpoint
<1> QED
  BY <1>1, <1>2 DEF EntryInv, KeepsScan

-----------------------------------------------------------------------------
(* The controls *)

LEMMA FunctionIsSequence ==
    ASSUME NEW n \in Nat, NEW S, NEW f \in [1..n -> S]
    PROVE  f \in Seq(S) /\ Len(f) = n
<1>1. f \in Seq(S)
  BY SeqDef
<1>2. DOMAIN f = 1 .. Len(f) /\ Len(f) \in Nat /\ DOMAIN f = 1..n
  BY <1>1, LenProperties
<1> QED
  BY <1>2

\* The rectangles, in the parts that kLoginControls is put together from
Boxes == [left : Int, top : Int, width : Int, height : Int]
DigitKeys ==
    [i \in 1..9 |-> Box(68 * ((i - 1) % 3) + 8, 34 * ((i - 1) \div 3) + 48, 58, 28)]
BottomKeys == <<Box(8, 150, 58, 28), Box(76, 150, 126, 28)>>
SideButtons == <<kLoginEraseButton, kLoginQrButton, kLoginAcceptButton>>

LEMMA BoxFields ==
    \A l, t, w, h \in Int :
        /\ Box(l, t, w, h) \in Boxes
        /\ Box(l, t, w, h).left = l /\ Box(l, t, w, h).top = t
        /\ Box(l, t, w, h).width = w /\ Box(l, t, w, h).height = h
  BY DEF Box, Boxes

\* joined is s and t in a row, boxes all, of which s has m and t has n.
Joined(joined, s, m, t, n) ==
    /\ joined \in Seq(Boxes) /\ Len(joined) = m + n
    /\ \A i \in 1 .. m : joined[i] = s[i]
    /\ \A i \in m + 1 .. m + n : joined[i] = t[i - m]

LEMMA Concatenated ==
    ASSUME NEW s \in Seq(Boxes), NEW t \in Seq(Boxes)
    PROVE  Joined(s \o t, s, Len(s), t, Len(t))
<1> HIDE DEF Boxes
<1> QED
  BY DEF Joined

LEMMA ControlBoxes ==
    /\ kLoginControls \in Seq(Boxes) /\ Len(kLoginControls) = 17
    /\ \A i \in 1..3 : kLoginControls[i] = Box(104 * i - 96, 8, 96, 28)
    /\ \A i \in 1..9 : kLoginControls[3 + i] =
           Box(68 * ((i - 1) % 3) + 8, 34 * ((i - 1) \div 3) + 48, 58, 28)
    /\ kLoginControls[13] = Box(8, 150, 58, 28)
    /\ kLoginControls[14] = Box(76, 150, 126, 28)
    /\ kLoginControls[15] = kLoginEraseButton
    /\ kLoginControls[16] = kLoginQrButton
    /\ kLoginControls[17] = kLoginAcceptButton
<1>1. /\ kLoginFieldTabs \in Seq(Boxes) /\ Len(kLoginFieldTabs) = 3
      /\ \A i \in 1..3 : kLoginFieldTabs[i] = Box(104 * i - 96, 8, 96, 28)
  <2>1. \A i \in 1..3 : Box(104 * i - 96, 8, 96, 28) \in Boxes
    BY BoxFields
  <2>2. kLoginFieldTabs \in [1..3 -> Boxes]
    BY <2>1 DEF kLoginFieldTabs
  <2>3. kLoginFieldTabs \in Seq(Boxes) /\ Len(kLoginFieldTabs) = 3
    BY <2>2, FunctionIsSequence
  <2> QED BY <2>3 DEF kLoginFieldTabs
<1>2. /\ DigitKeys \in Seq(Boxes) /\ Len(DigitKeys) = 9
      /\ \A i \in 1..9 : DigitKeys[i] =
             Box(68 * ((i - 1) % 3) + 8, 34 * ((i - 1) \div 3) + 48, 58, 28)
  <2>1. \A i \in 1..9 : /\ 68 * ((i - 1) % 3) + 8 \in Int
                        /\ 34 * ((i - 1) \div 3) + 48 \in Int
    <3>1. \A i \in 1..9 : (i - 1) % 3 \in Int /\ (i - 1) \div 3 \in Int
      OBVIOUS
    <3> QED BY <3>1
  <2>2. \A i \in 1..9 :
            Box(68 * ((i - 1) % 3) + 8, 34 * ((i - 1) \div 3) + 48, 58, 28) \in Boxes
    BY <2>1, BoxFields
  <2>3. DigitKeys \in [1..9 -> Boxes]
    BY <2>2 DEF DigitKeys
  <2>4. DigitKeys \in Seq(Boxes) /\ Len(DigitKeys) = 9
    BY <2>3, FunctionIsSequence
  <2> QED BY <2>4 DEF DigitKeys
<1>3. /\ BottomKeys \in Seq(Boxes) /\ Len(BottomKeys) = 2
      /\ BottomKeys[1] = Box(8, 150, 58, 28) /\ BottomKeys[2] = Box(76, 150, 126, 28)
  BY BoxFields DEF BottomKeys
<1>4. /\ SideButtons \in Seq(Boxes) /\ Len(SideButtons) = 3
      /\ SideButtons[1] = kLoginEraseButton /\ SideButtons[2] = kLoginQrButton
      /\ SideButtons[3] = kLoginAcceptButton
  <2>1. {kLoginEraseButton, kLoginQrButton, kLoginAcceptButton} \subseteq Boxes
    BY BoxFields DEF kLoginEraseButton, kLoginQrButton, kLoginAcceptButton
  <2> QED BY <2>1 DEF SideButtons
<1>5. kLoginKeyBounds = DigitKeys \o BottomKeys
  BY DEF kLoginKeyBounds, DigitKeys, BottomKeys
<1>6. /\ kLoginKeyBounds \in Seq(Boxes) /\ Len(kLoginKeyBounds) = 11
      /\ \A i \in 1..9 : kLoginKeyBounds[i] = DigitKeys[i]
      /\ kLoginKeyBounds[10] = BottomKeys[1] /\ kLoginKeyBounds[11] = BottomKeys[2]
  <2>1. Joined(DigitKeys \o BottomKeys, DigitKeys, 9, BottomKeys, 2)
    BY <1>2, <1>3, Concatenated
  <2>2. Joined(kLoginKeyBounds, DigitKeys, 9, BottomKeys, 2)
    BY <1>5, <2>1
  <2> QED BY <2>2 DEF Joined
<1> DEFINE front == kLoginFieldTabs \o kLoginKeyBounds
<1>7. Joined(front, kLoginFieldTabs, 3, kLoginKeyBounds, 11)
  BY <1>1, <1>6, Concatenated
<1> HIDE DEF front
<1>8. kLoginControls = front \o SideButtons
  BY DEF kLoginControls, SideButtons, front
<1>9. Joined(kLoginControls, front, 14, SideButtons, 3)
  <2>1. front \in Seq(Boxes) /\ Len(front) = 14
    BY <1>7 DEF Joined
  <2> QED BY <1>4, <1>8, <2>1, Concatenated
<1>10. \A i \in 1..3 : kLoginControls[i] = Box(104 * i - 96, 8, 96, 28)
  <2> SUFFICES ASSUME NEW i \in 1..3
               PROVE  kLoginControls[i] = Box(104 * i - 96, 8, 96, 28)
    OBVIOUS
  <2>1. kLoginControls[i] = front[i] /\ front[i] = kLoginFieldTabs[i]
    BY <1>7, <1>9 DEF Joined
  <2> QED BY <1>1, <2>1
<1>11. \A i \in 1..9 : kLoginControls[3 + i] = DigitKeys[i]
  <2> SUFFICES ASSUME NEW i \in 1..9 PROVE kLoginControls[3 + i] = DigitKeys[i]
    OBVIOUS
  <2>1. 3 + i \in 4..14 /\ 3 + i - 3 = i
    OBVIOUS
  <2>2. kLoginControls[3 + i] = front[3 + i]
    BY <1>9, <2>1 DEF Joined
  <2>3. front[3 + i] = kLoginKeyBounds[i]
    BY <1>7, <2>1 DEF Joined
  <2> QED BY <1>6, <2>2, <2>3
<1>12. kLoginControls[13] = BottomKeys[1] /\ kLoginControls[14] = BottomKeys[2]
  BY <1>6, <1>7, <1>9 DEF Joined
<1>13. /\ kLoginControls[15] = SideButtons[1] /\ kLoginControls[16] = SideButtons[2]
       /\ kLoginControls[17] = SideButtons[3]
  BY <1>9 DEF Joined
<1> QED
  BY <1>2, <1>3, <1>4, <1>9, <1>10, <1>11, <1>12, <1>13 DEF Joined

LEMMA ControlNumbers == Control = 1..17
<1>1. kLoginControls \in Seq(Boxes) /\ Len(kLoginControls) = 17
  BY ControlBoxes
<1> QED
  BY <1>1, LenProperties DEF Control

\* Twice the centre of a control is where it was measured to be.
CentreX(c) == 2 * kLoginControls[c].left + kLoginControls[c].width
CentreY(c) == 2 * kLoginControls[c].top + kLoginControls[c].height
Centred(c, x, y) == CentreX(c) = x /\ CentreY(c) = y

LEMMA CentreOfBox ==
    ASSUME NEW c, NEW l \in Int, NEW t \in Int, NEW w \in Int, NEW h \in Int,
           kLoginControls[c] = Box(l, t, w, h)
    PROVE  Centred(c, 2 * l + w, 2 * t + h)
<1>1. /\ kLoginControls[c].left = l /\ kLoginControls[c].top = t
      /\ kLoginControls[c].width = w /\ kLoginControls[c].height = h
  BY BoxFields
<1> QED
  BY <1>1 DEF Centred, CentreX, CentreY

LEMMA Centres ==
    /\ Centred(1, 112, 44) /\ Centred(2, 320, 44) /\ Centred(3, 528, 44)
    /\ Centred(4, 74, 124) /\ Centred(5, 210, 124) /\ Centred(6, 346, 124)
    /\ Centred(7, 74, 192) /\ Centred(8, 210, 192) /\ Centred(9, 346, 192)
    /\ Centred(10, 74, 260) /\ Centred(11, 210, 260) /\ Centred(12, 346, 260)
    /\ Centred(13, 74, 328) /\ Centred(14, 278, 328)
    /\ Centred(15, 524, 124) /\ Centred(16, 524, 192) /\ Centred(17, 524, 294)
<1>1. Centred(1, 112, 44) /\ Centred(2, 320, 44) /\ Centred(3, 528, 44)
  <2>1. \A i \in 1..3 : kLoginControls[i] = Box(104 * i - 96, 8, 96, 28)
    BY ControlBoxes
  <2>2. \A i \in 1..3 : Centred(i, 2 * (104 * i - 96) + 96, 2 * 8 + 28)
    <3> SUFFICES ASSUME NEW i \in 1..3
                 PROVE  Centred(i, 2 * (104 * i - 96) + 96, 2 * 8 + 28)
      OBVIOUS
    <3>1. kLoginControls[i] = Box(104 * i - 96, 8, 96, 28) /\ 104 * i - 96 \in Int
      BY <2>1
    <3> HIDE DEF Box
    <3> QED BY <3>1, CentreOfBox
  <2> QED BY <2>2
<1>2. \A row, column \in 0..2 :
          Centred(4 + 3 * row + column, 136 * column + 74, 68 * row + 124)
  <2> SUFFICES ASSUME NEW row \in 0..2, NEW column \in 0..2
               PROVE  Centred(4 + 3 * row + column, 136 * column + 74, 68 * row + 124)
    OBVIOUS
  <2> DEFINE i == 3 * row + column + 1
  <2>1. i \in 1..9 /\ (i - 1) % 3 = column /\ (i - 1) \div 3 = row
    OBVIOUS
  <2>2. kLoginControls[3 + i] = Box(68 * column + 8, 34 * row + 48, 58, 28)
    BY <2>1, ControlBoxes
  <2>3. Centred(3 + i, 2 * (68 * column + 8) + 58, 2 * (34 * row + 48) + 28)
    BY <2>2, CentreOfBox
  <2> QED BY <2>3
<1>3. /\ Centred(4, 74, 124) /\ Centred(5, 210, 124) /\ Centred(6, 346, 124)
      /\ Centred(7, 74, 192) /\ Centred(8, 210, 192) /\ Centred(9, 346, 192)
      /\ Centred(10, 74, 260) /\ Centred(11, 210, 260) /\ Centred(12, 346, 260)
  BY <1>2
<1>4. Centred(13, 74, 328) /\ Centred(14, 278, 328)
  <2>1. kLoginControls[13] = Box(8, 150, 58, 28) /\ kLoginControls[14] = Box(76, 150, 126, 28)
    BY ControlBoxes
  <2>2. Centred(13, 2 * 8 + 58, 2 * 150 + 28)
    BY <2>1, CentreOfBox
  <2>3. Centred(14, 2 * 76 + 126, 2 * 150 + 28)
    BY <2>1, CentreOfBox
  <2> QED BY <2>2, <2>3
<1>5. Centred(15, 524, 124) /\ Centred(16, 524, 192) /\ Centred(17, 524, 294)
  <2>1. /\ kLoginControls[15] = Box(212, 48, 100, 28)
        /\ kLoginControls[16] = Box(212, 82, 100, 28)
        /\ kLoginControls[17] = Box(212, 116, 100, 62)
    BY ControlBoxes DEF kLoginEraseButton, kLoginQrButton, kLoginAcceptButton
  <2>2. /\ Centred(15, 2 * 212 + 100, 2 * 48 + 28)
        /\ Centred(16, 2 * 212 + 100, 2 * 82 + 28)
        /\ Centred(17, 2 * 212 + 100, 2 * 116 + 62)
    BY <2>1, CentreOfBox
  <2> QED BY <2>2
<1> QED BY <1>1, <1>3, <1>4, <1>5

-----------------------------------------------------------------------------

LEMMA CentresAreIntegers ==
    \A c \in Control : /\ CentreX(c) \in Int /\ CentreY(c) \in Int
                       /\ kLoginControls[c] \in Boxes
<1>1. kLoginControls \in Seq(Boxes) /\ Len(kLoginControls) = 17
  BY ControlBoxes
<1>2. \A c \in Control : kLoginControls[c] \in Boxes
  BY <1>1, ControlNumbers, ElementOfSeq
<1> QED
  BY <1>2 DEF Boxes, CentreX, CentreY

LEMMA Distances ==
    ASSUME NEW from \in Control, NEW to \in Control
    PROVE  /\ DeltaX(from, to) = CentreX(to) - CentreX(from)
           /\ DeltaY(from, to) = CentreY(to) - CentreY(from)
<1>1. kLoginControls[from] \in Boxes /\ kLoginControls[to] \in Boxes
  BY CentresAreIntegers
<1> QED
  BY <1>1 DEF Boxes, CentreX, CentreY, DeltaX, DeltaY

LEMMA Scores ==
    ASSUME NEW from \in Control, NEW to \in Control
    PROVE  LET dx == CentreX(to) - CentreX(from)
               dy == CentreY(to) - CentreY(from)
           IN  /\ Primary(from, to, "left") = -dx /\ Primary(from, to, "right") = dx
               /\ Primary(from, to, "up") = -dy /\ Primary(from, to, "down") = dy
               /\ \A direction \in {"left", "right"} :
                      Secondary(from, to, direction) = AbsoluteValue(dy)
               /\ \A direction \in {"up", "down"} :
                      Secondary(from, to, direction) = AbsoluteValue(dx)
<1>1. /\ DeltaX(from, to) = CentreX(to) - CentreX(from)
      /\ DeltaY(from, to) = CentreY(to) - CentreY(from)
  BY Distances
<1>2. /\ Primary(from, to, "left") = -DeltaX(from, to)
      /\ Primary(from, to, "right") = DeltaX(from, to)
      /\ Primary(from, to, "up") = -DeltaY(from, to)
      /\ Primary(from, to, "down") = DeltaY(from, to)
  BY DEF Primary
<1>3. /\ \A direction \in {"left", "right"} :
             Secondary(from, to, direction) = AbsoluteValue(DeltaY(from, to))
      /\ \A direction \in {"up", "down"} :
             Secondary(from, to, direction) = AbsoluteValue(DeltaX(from, to))
  BY DEF Secondary
<1> QED
  BY <1>1, <1>2, <1>3

\* The control that a move leads to is ahead, and better than all others ahead.
Best(from, direction, to) ==
    /\ to # from /\ Primary(from, to, direction) > 0
    /\ \A c \in Control \ {from, to} :
           Primary(from, c, direction) > 0 => Better(from, direction, to, c)

LEMMA MovesAreBest ==
    ASSUME NEW from \in Control, NEW direction \in LoginDirection, NEW to \in Control
    PROVE  <<from, direction, to>> \in Moves <=> Best(from, direction, to)
<1> DEFINE best(f, d) == {c \in Ahead(f, d) : \A e \in Ahead(f, d) \ {c} : Better(f, d, c, e)}
           from_control(f, d) == {<<f, d, c>> : c \in best(f, d)}
<1>1. Moves = UNION {from_control(f, d) : f \in Control, d \in LoginDirection}
  BY DEF Moves
<1>2. <<from, direction, to>> \in Moves <=> to \in best(from, direction)
  <2> HIDE DEF best
  <2>1. \A f, d : <<from, direction, to>> \in from_control(f, d) =>
                      f = from /\ d = direction /\ to \in best(from, direction)
    OBVIOUS
  <2>2. to \in best(from, direction) =>
            <<from, direction, to>> \in from_control(from, direction)
    OBVIOUS
  <2> HIDE DEF from_control
  <2> QED BY <1>1, <2>1, <2>2
<1>3. to \in best(from, direction) <=> Best(from, direction, to)
  BY DEF Ahead, Best
<1> QED
  BY <1>2, <1>3

\* Of two controls ahead one is better at most: so a move leads to one place,
\* which is where the focus goes.
LEMMA ScoresAreIntegers ==
    ASSUME NEW from \in Control, NEW to \in Control, NEW direction \in LoginDirection
    PROVE  /\ Score(from, to, direction) \in Int
           /\ Secondary(from, to, direction) \in Int
<1>1. /\ CentreX(from) \in Int /\ CentreX(to) \in Int
      /\ CentreY(from) \in Int /\ CentreY(to) \in Int
  BY CentresAreIntegers
<1>2. Primary(from, to, direction) \in Int /\ Secondary(from, to, direction) \in Int
  BY <1>1, Scores DEF LoginDirection, AbsoluteValue
<1> QED
  BY <1>2 DEF Score

LEMMA OneMove ==
    ASSUME NEW from \in Control, NEW direction \in LoginDirection,
           NEW a \in Control, NEW b \in Control,
           <<from, direction, a>> \in Moves, <<from, direction, b>> \in Moves
    PROVE  a = b
<1>1. Best(from, direction, a) /\ Best(from, direction, b)
  BY MovesAreBest
<1>2. ASSUME a # b PROVE FALSE
  <2>1. Better(from, direction, a, b) /\ Better(from, direction, b, a)
    BY <1>1, <1>2 DEF Best
  <2>2. a \in Int /\ b \in Int
    BY ControlNumbers
  <2> QED
    BY <2>1, <2>2, ScoresAreIntegers DEF Better
<1> QED
  BY <1>2

LEMMA FocusFollowsMove ==
    ASSUME NEW from \in Control, NEW direction \in LoginDirection, NEW to \in Control,
           <<from, direction, to>> \in Moves
    PROVE  MovedFocus(from, direction) = to
<1>1. {c \in Control : <<from, direction, c>> \in Moves} = {to}
  BY OneMove
<1> QED
  BY <1>1 DEF MovedFocus

LEMMA TheControls ==
    Control = {1, 2, 3, 4, 5, 6, 7, 8, 9, 10, 11, 12, 13, 14, 15, 16, 17}
  BY ControlNumbers

\* A way through all controls and back to the first, twice
Round == <<1, 4, 5, 6, 15, 16, 9, 8, 7, 10, 13, 14, 11, 12, 17, 3, 2>>
Tour == [i \in 1..33 |-> Round[IF i <= 17 THEN i ELSE i - 17]]

LEMMA TourMoves ==
    /\ Best(1, "left", 4)
    /\ Best(4, "right", 5)
    /\ Best(5, "right", 6)
    /\ Best(6, "right", 15)
    /\ Best(15, "down", 16)
    /\ Best(16, "left", 9)
    /\ Best(9, "left", 8)
    /\ Best(8, "left", 7)
    /\ Best(7, "down", 10)
    /\ Best(10, "down", 13)
    /\ Best(13, "right", 14)
    /\ Best(14, "up", 11)
    /\ Best(11, "right", 12)
    /\ Best(12, "right", 17)
    /\ Best(17, "right", 3)
    /\ Best(3, "left", 2)
    /\ Best(2, "left", 1)
<1>1. Best(1, "left", 4)
  BY TheControls, Centres, Scores DEF Best, Centred, Better, Score, AbsoluteValue
<1>2. Best(4, "right", 5)
  BY TheControls, Centres, Scores DEF Best, Centred, Better, Score, AbsoluteValue
<1>3. Best(5, "right", 6)
  BY TheControls, Centres, Scores DEF Best, Centred, Better, Score, AbsoluteValue
<1>4. Best(6, "right", 15)
  BY TheControls, Centres, Scores DEF Best, Centred, Better, Score, AbsoluteValue
<1>5. Best(15, "down", 16)
  BY TheControls, Centres, Scores DEF Best, Centred, Better, Score, AbsoluteValue
<1>6. Best(16, "left", 9)
  BY TheControls, Centres, Scores DEF Best, Centred, Better, Score, AbsoluteValue
<1>7. Best(9, "left", 8)
  BY TheControls, Centres, Scores DEF Best, Centred, Better, Score, AbsoluteValue
<1>8. Best(8, "left", 7)
  BY TheControls, Centres, Scores DEF Best, Centred, Better, Score, AbsoluteValue
<1>9. Best(7, "down", 10)
  BY TheControls, Centres, Scores DEF Best, Centred, Better, Score, AbsoluteValue
<1>10. Best(10, "down", 13)
  BY TheControls, Centres, Scores DEF Best, Centred, Better, Score, AbsoluteValue
<1>11. Best(13, "right", 14)
  BY TheControls, Centres, Scores DEF Best, Centred, Better, Score, AbsoluteValue
<1>12. Best(14, "up", 11)
  BY TheControls, Centres, Scores DEF Best, Centred, Better, Score, AbsoluteValue
<1>13. Best(11, "right", 12)
  BY TheControls, Centres, Scores DEF Best, Centred, Better, Score, AbsoluteValue
<1>14. Best(12, "right", 17)
  BY TheControls, Centres, Scores DEF Best, Centred, Better, Score, AbsoluteValue
<1>15. Best(17, "right", 3)
  BY TheControls, Centres, Scores DEF Best, Centred, Better, Score, AbsoluteValue
<1>16. Best(3, "left", 2)
  BY TheControls, Centres, Scores DEF Best, Centred, Better, Score, AbsoluteValue
<1>17. Best(2, "left", 1)
  BY TheControls, Centres, Scores DEF Best, Centred, Better, Score, AbsoluteValue
<1> QED
  BY <1>1, <1>2, <1>3, <1>4, <1>5, <1>6, <1>7, <1>8, <1>9, <1>10, <1>11, <1>12, <1>13, <1>14, <1>15, <1>16, <1>17

LEMMA TourLeads ==
    \A i \in 1..32 : \E direction \in LoginDirection :
        <<Tour[i], direction, Tour[i + 1]>> \in Moves
<1>1. \A i \in 1..17 : \E direction \in LoginDirection :
          <<Round[i], direction, Round[IF i = 17 THEN 1 ELSE i + 1]>> \in Moves
  <2>1. \A f, t \in Control, d \in LoginDirection : Best(f, d, t) => <<f, d, t>> \in Moves
    BY MovesAreBest
  <2>2. \A i \in 1..17 : \E direction \in LoginDirection :
            Best(Round[i], direction, Round[IF i = 17 THEN 1 ELSE i + 1])
    BY TourMoves DEF Round, LoginDirection
  <2>3. \A i \in 1..17 : Round[i] \in Control
    BY TheControls DEF Round
  <2> QED BY <2>1, <2>2, <2>3
<1>2. SUFFICES ASSUME NEW i \in 1..32
                PROVE  \E k \in 1..17 : /\ Tour[i] = Round[k]
                                        /\ Tour[i + 1] = Round[IF k = 17 THEN 1 ELSE k + 1]
  BY <1>1
<1>3. CASE i <= 17
  BY <1>3 DEF Tour
<1>4. CASE i > 17
  <2>1. i - 17 \in 1..17 /\ Tour[i] = Round[i - 17] /\ Tour[i + 1] = Round[(i - 17) + 1]
    BY <1>4 DEF Tour
  <2>2. i - 17 # 17
    OBVIOUS
  <2> QED BY <2>1, <2>2
<1> QED
  BY <1>3, <1>4

\* The way is walked in doubling lengths, as LeadsTo is put together.
Walked(pairs, length) ==
    \A i, j \in 1..33 : i <= j /\ j <= i + length => <<Tour[i], Tour[j]>> \in pairs

LEMMA TourInControl == \A i \in 1..33 : Tour[i] \in Control
  BY TheControls DEF Tour, Round

\* What one step of paths does
Composed(half) ==
    UNION {{<<first[1], second[2]>> : second \in {p \in half : p[1] = first[2]}} : first \in half}

LEMMA ComposedWalk ==
    ASSUME NEW half, NEW n \in Nat, Walked(half, n)
    PROVE  Walked(Composed(half), 2 * n)
<1> SUFFICES ASSUME NEW i \in 1..33, NEW j \in 1..33, i <= j, j <= i + 2 * n
             PROVE  <<Tour[i], Tour[j]>> \in Composed(half)
  BY DEF Walked
<1> DEFINE m == IF j <= i + n THEN j ELSE i + n
<1>1. /\ m \in 1..33 /\ i <= m /\ m <= i + n /\ m <= j /\ j <= m + n
  OBVIOUS
<1> HIDE DEF m
<1>2. <<Tour[i], Tour[m]>> \in half /\ <<Tour[m], Tour[j]>> \in half
  BY <1>1 DEF Walked
<1>3. <<Tour[m], Tour[j]>> \in {p \in half : p[1] = <<Tour[i], Tour[m]>>[2]}
  BY <1>2
<1>4. <<<<Tour[i], Tour[m]>>[1], <<Tour[m], Tour[j]>>[2]>> = <<Tour[i], Tour[j]>>
  OBVIOUS
<1> QED
  BY <1>2, <1>3, <1>4 DEF Composed

LEMMA AllPairsLead == Control \X Control \subseteq LeadsTo
<1> DEFINE first == {<<move[1], move[3]>> : move \in Moves} \cup {<<c, c>> : c \in Control}
           ArePaths(p) == p = [n \in 0..5 |-> IF n = 0 THEN first ELSE Composed(p[n - 1])]
           paths == CHOOSE p : ArePaths(p)
<1>1. LeadsTo = paths[5]
  BY DEF LeadsTo, Composed
<1>2. ArePaths(paths)
  <2> HIDE DEF first
  <2> DEFINE p1 == Composed(first)
             p2 == Composed(p1)
             p3 == Composed(p2)
             p4 == Composed(p3)
             p5 == Composed(p4)
             built == [n \in 0..5 |-> IF n = 0 THEN first ELSE IF n = 1 THEN p1
                                      ELSE IF n = 2 THEN p2 ELSE IF n = 3 THEN p3
                                      ELSE IF n = 4 THEN p4 ELSE p5]
  <2>1. /\ built[0] = first /\ built[1] = Composed(built[0])
        /\ built[2] = Composed(built[1]) /\ built[3] = Composed(built[2])
        /\ built[4] = Composed(built[3]) /\ built[5] = Composed(built[4])
    <3> HIDE DEF p1
    <3>1. /\ built[0] = first /\ built[1] = p1 /\ built[2] = p2
          /\ built[3] = p3 /\ built[4] = p4 /\ built[5] = p5
      <4> HIDE DEF p2, p3, p4, p5
      <4> QED OBVIOUS
    <3> QED BY <3>1 DEF p1
  <2>2. ASSUME NEW n \in 0..5, n # 0 PROVE built[n] = Composed(built[n - 1])
    <3> HIDE DEF built
    <3>1. n \in {1, 2, 3, 4, 5}
      BY <2>2
    <3> QED BY <2>1, <3>1
  <2>3. \A n \in 0..5 : built[n] = IF n = 0 THEN first ELSE Composed(built[n - 1])
    <3> HIDE DEF built
    <3> QED BY <2>1, <2>2
  <2>4. built = [n \in 0..5 |-> built[n]]
    <3> HIDE DEF p1, p2, p3, p4, p5
    <3> QED OBVIOUS
  <2>5. ArePaths(built)
    <3> HIDE DEF built
    <3> QED BY <2>3, <2>4
  <2> HIDE DEF built, ArePaths
  <2> QED BY <2>5
<1> HIDE DEF paths
<1>3. paths[0] = first /\ \A n \in 1..5 : paths[n] = Composed(paths[n - 1])
  <2> HIDE DEF first
  <2> QED BY <1>2
<1> HIDE DEF ArePaths
<1>4. Walked(first, 1)
  <2> SUFFICES ASSUME NEW i \in 1..33, NEW j \in 1..33, i <= j, j <= i + 1
               PROVE  <<Tour[i], Tour[j]>> \in first
    BY DEF Walked
  <2>1. CASE j = i
    BY <2>1, TourInControl
  <2>2. CASE j = i + 1
    <3>0. i \in 1..32
      BY <2>2
    <3>1. PICK direction \in LoginDirection : <<Tour[i], direction, Tour[j]>> \in Moves
      BY <2>2, <3>0, TourLeads
    <3> DEFINE move == <<Tour[i], direction, Tour[j]>>
    <3>2. <<Tour[i], Tour[j]>> = <<move[1], move[3]>>
      OBVIOUS
    <3> HIDE DEF move
    <3>3. move \in Moves
      BY <3>1 DEF move
    <3> QED BY <3>2, <3>3
  <2> QED BY <2>1, <2>2
<1> HIDE DEF first
<1>5. Walked(paths[5], 32)
  <2>1. Walked(paths[0], 1)
    BY <1>3, <1>4
  <2>2. \A n \in 1..5 : \A length \in Nat :
            Walked(paths[n - 1], length) => Walked(paths[n], 2 * length)
    BY <1>3, ComposedWalk
  <2>3. Walked(paths[1], 2 * 1)
    BY <2>1, <2>2
  <2>4. Walked(paths[2], 2 * 2)
    BY <2>2, <2>3
  <2>5. Walked(paths[3], 2 * 4)
    BY <2>2, <2>4
  <2>6. Walked(paths[4], 2 * 8)
    BY <2>2, <2>5
  <2>7. Walked(paths[5], 2 * 16)
    BY <2>2, <2>6
  <2> QED BY <2>7
<1>6. \A c \in Control : /\ \E i \in 1..17 : Tour[i] = c
                         /\ \E j \in 17..33 : Tour[j] = c
  BY TheControls DEF Tour, Round
<1>7. SUFFICES ASSUME NEW a \in Control, NEW b \in Control PROVE <<a, b>> \in LeadsTo
  OBVIOUS
<1>8. PICK i \in 1..17 : Tour[i] = a
  BY <1>6
<1>9. PICK j \in 17..33 : Tour[j] = b
  BY <1>6
<1>10. i \in 1..33 /\ j \in 1..33 /\ i <= j /\ j <= i + 32
  OBVIOUS
<1>11. <<Tour[i], Tour[j]>> \in paths[5]
  BY <1>5, <1>10 DEF Walked
<1> QED
  BY <1>1, <1>8, <1>9, <1>11

LEMMA MovesToControl ==
    ASSUME NEW from \in Control, NEW direction
    PROVE  MovedFocus(from, direction) \in Control
  BY DEF MovedFocus

LEMMA TouchesControl == TouchTargets \subseteq Control
  BY DEF TouchTargets, login_control_at

-----------------------------------------------------------------------------
(* The login screen *)

(***************************************************************************)
(* SecretKeepsItsScan alone is not inductive: a scan changes the entry only*)
(* while it is open, and it is open because the login screen shows it.     *)
(* Nor is CameraIsWholeOrGone: a camera that is off must be off altogether *)
(* for the next start to be whole, and on the login screen only.           *)
(***************************************************************************)
LoginInv ==
    /\ view \in {"prelogin", "login", "loading", "unavailable", "dashboard"}
    /\ context \in {"none", "resume", "pairing", "refresh"}
    /\ focus \in Control
    /\ EntryInv(entry, scanned)
    /\ view = "login" => entry.open
    /\ scanner \in {Off, Scanning}
    /\ scanner = Scanning => view = "login"

LEMMA LoginInvImplies ==
    LoginInv => LoginTypeOK /\ SecretKeepsItsScan /\ CameraIsWholeOrGone
<1> SUFFICES ASSUME LoginInv PROVE LoginTypeOK /\ SecretKeepsItsScan /\ CameraIsWholeOrGone
  OBVIOUS
<1>1. LoginTypeOK
  BY OffAndScanning DEF LoginInv, LoginTypeOK, EntryInv
<1>2. SecretKeepsItsScan
  BY DEF LoginInv, EntryInv, KeepsScan, SecretKeepsItsScan
<1>3. CameraIsWholeOrGone
  BY OffAndScanning DEF LoginInv, CameraIsWholeOrGone
<1> QED
  BY <1>1, <1>2, <1>3

\* Both ways to the login screen open the entry.
LEMMA WaysToLogin ==
    ASSUME LoginInv, view # "login", OpenEntry \/ open_login
    PROVE  LoginInv'
<1>1. /\ EntryInv(Opened, scanned)
      /\ Opened.open
  BY EmptiedKeepsScan, EmptiedIsEntry DEF LoginInv, EntryInv, Opened
<1>2. EntryInv(entry', scanned') /\ entry'.open
  BY <1>1 DEF OpenEntry, open_login, LoginInv
<1>3. /\ view' = "login" /\ context' = "none" /\ focus' = FirstControl
      /\ scanner' = scanner
  BY DEF OpenEntry, open_login, Show
<1>4. FirstControl \in Control
  BY ControlNumbers DEF FirstControl
<1> QED
  BY <1>2, <1>3, <1>4 DEF LoginInv

\* Another screen is shown, and what belongs to the login screen stays.
LEMMA OtherScreens ==
    ASSUME LoginInv, view # "login", UNCHANGED loginVars,
           view' \in {"prelogin", "loading", "unavailable", "dashboard"},
           context' \in {"none", "resume", "pairing", "refresh"}
    PROVE  LoginInv'
  BY OffAndScanning DEF LoginInv, loginVars

\* What a control does to entry and camera, on the screen that has them
LEMMA ActivateKeeps ==
    ASSUME LoginInv, AtControls, NEW c \in Control, Activate(c)
    PROVE  /\ view' \in {"login", "loading"}
           /\ context' \in {"none", "resume", "pairing", "refresh"}
           /\ EntryInv(entry', scanned)
           /\ entry'.open
           /\ scanner' \in {Off, Scanning}
           /\ scanner' = Scanning => view' = "login"
<1>1. /\ view = "login" /\ scanner = Off /\ entry.open /\ EntryInv(entry, scanned)
      /\ context \in {"none", "resume", "pairing", "refresh"}
      /\ Off # Scanning
  BY OffAndScanning DEF LoginInv, AtControls
<1>2. CASE /\ c \in FieldControls
           /\ entry' = Selected(entry, Field[c])
           /\ UNCHANGED <<view, context, scanner>>
  <2>1. Field[c] \in {"code", "ip", "port"}
    BY <1>2 DEF FieldControls, Field
  <2> QED
    BY <1>1, <1>2, <2>1, SelectedKeepsScan, SelectedIsEntry DEF EntryInv
<1>3. CASE /\ c \in KeyControls
           /\ entry' = Appended(entry, IF c = DotKey THEN "." ELSE "d")
           /\ UNCHANGED <<view, context, scanner>>
  <2> DEFINE x == IF c = DotKey THEN "." ELSE "d"
  <2>1. x \in Characters
    BY DEF Characters
  <2> HIDE DEF x
  <2>2. entry' = Appended(entry, x)
    BY <1>3 DEF x
  <2> QED
    BY <1>1, <1>3, <2>1, <2>2, AppendedKeepsScan, AppendedIsEntry DEF EntryInv
<1>4. CASE /\ c = EraseControl
           /\ entry' = Erased(entry)
           /\ UNCHANGED <<view, context, scanner>>
  BY <1>1, <1>4, ErasedKeepsScan, ErasedIsEntry DEF EntryInv
<1>5. CASE c = QrControl /\ StartScan
  BY <1>1, <1>5, StartsWholeOrGone DEF StartScan
<1>6. CASE /\ c = AcceptControl
           /\ BeginPairing(entry)
           /\ UNCHANGED <<entry, scanner>>
  BY <1>1, <1>6 DEF BeginPairing
<1> QED
  BY <1>2, <1>3, <1>4, <1>5, <1>6 DEF Activate

LEMMA LoginStepKeeps ==
    ASSUME LoginInv, LoginStep
    PROVE  LoginInv' /\ view' \in {"prelogin", "login", "loading"}
<1>0. /\ view = "login" /\ entry.open /\ EntryInv(entry, scanned)
      /\ context \in {"none", "resume", "pairing", "refresh"}
      /\ Off # Scanning /\ FirstControl \in Control
  BY OffAndScanning, ControlNumbers
     DEF LoginInv, LoginStep, ScanContinues, ScanDecoded, ScanEnds, PressX, PressB,
         PressDirection, PressA, Touch, AtControls, AtCamera, FirstControl
<1>1. AtCamera => scanner = Scanning
  BY OffAndScanning DEF LoginInv, AtCamera
<1>2. AtControls => scanner = Off
  BY OffAndScanning DEF LoginInv, AtControls
<1>3. CASE ScanContinues
  BY <1>0, <1>1, <1>3, FrameWholeOrGone DEF ScanContinues, LoginInv
<1>4. CASE ScanDecoded
  <2>1. PICK endpoint \in Endpoints : /\ scanned' = endpoint
                                      /\ entry' = Scanned(entry, endpoint)
                                      /\ focus' = FirstControl
                                      /\ BeginPairing(entry')
    BY <1>4 DEF ScanDecoded
  <2>2. scanner' = Off
    BY <1>1, <1>4, FrameWholeOrGone DEF ScanDecoded
  <2>3. EntryInv(entry', scanned') /\ entry'.open
    BY <1>0, <2>1, ScannedKeepsScan, ScannedIsEntry DEF EntryInv
  <2>4. /\ view' \in {"login", "loading"}
        /\ context' \in {"none", "resume", "pairing", "refresh"}
    BY <1>0, <2>1 DEF BeginPairing
  <2> QED
    BY <1>0, <2>1, <2>2, <2>3, <2>4 DEF LoginInv
<1>5. CASE ScanEnds
  <2>1. Stopped(Scanning) = Off
    BY OffAndScanning, ResourceNames, StoppedIsOff
  <2> QED
    BY <1>0, <1>1, <1>5, <2>1, FrameWholeOrGone DEF ScanEnds, LoginInv
<1>6. CASE PressX
  BY <1>0, <1>2, <1>6, StartsWholeOrGone DEF PressX, StartScan, LoginInv
<1>7. CASE PressB
  <2>1. CASE selected_value_empty(entry)
    <3>1. entry.field \in {"code", "ip", "port"} /\ scanned \in Endpoints \cup {Nothing}
      BY <1>0 DEF EntryInv, Entries
    <3>2. EntryInv(Cancelled(entry), scanned)
      BY <3>1, EmptiedKeepsScan DEF Cancelled
    <3> QED
      BY <1>0, <1>2, <1>7, <2>1, <3>2 DEF PressB, LoginInv
  <2>2. CASE ~selected_value_empty(entry)
    <3>1. EntryInv(Erased(entry), scanned) /\ Erased(entry).open
      BY <1>0, ErasedKeepsScan, ErasedIsEntry DEF EntryInv
    <3> QED
      BY <1>0, <1>2, <1>7, <2>2, <3>1 DEF PressB, LoginInv
  <2> QED BY <2>1, <2>2
<1>8. CASE PressDirection
  <2>1. focus' \in Control
    BY <1>8, MovesToControl DEF PressDirection, LoginInv
  <2>2. EntryInv(entry', scanned) /\ entry'.open
    <3>1. focus' \in FieldControls => Field[focus'] \in {"code", "ip", "port"}
      BY DEF FieldControls, Field
    <3> QED
      BY <1>0, <1>8, <3>1, SelectedKeepsScan, SelectedIsEntry DEF PressDirection, EntryInv
  <2> QED
    BY <1>0, <1>2, <1>8, <2>1, <2>2 DEF PressDirection, LoginInv
<1>9. CASE PressA
  BY <1>9, ActivateKeeps DEF PressA, LoginInv
<1>10. CASE Touch
  <2>1. focus' \in Control
    BY <1>10, TouchesControl DEF Touch
  <2> QED
    BY <1>10, <2>1, ActivateKeeps DEF Touch, LoginInv
<1> QED
  BY <1>3, <1>4, <1>5, <1>6, <1>7, <1>8, <1>9, <1>10 DEF LoginStep

LEMMA LoginInvInductive == Spec => []LoginInv
<1>1. Init => LoginInv
  <2> SUFFICES ASSUME Init PROVE LoginInv
    OBVIOUS
  <2>1. EntryInv(Emptied(FALSE, "code"), Nothing)
    BY EmptiedKeepsScan
  <2>2. Off # Scanning
    BY OffAndScanning
  <2>3. FirstControl \in Control
    BY ControlNumbers DEF FirstControl
  <2> QED
    BY <2>1, <2>2, <2>3 DEF Init, LoginInit, LoginInv
<1>2. LoginInv /\ [Next]_vars => LoginInv'
  <2> SUFFICES ASSUME LoginInv, [Next]_vars PROVE LoginInv'
    OBVIOUS
  <2>1. CASE OpenOffice
    <3>1. CASE start_dashboard_load("resume")
      BY <2>1, <3>1, OtherScreens DEF OpenOffice, start_dashboard_load
    <3>2. CASE OpenEntry
      BY <2>1, <3>2, WaysToLogin DEF OpenOffice
    <3> QED BY <2>1, <3>1, <3>2 DEF OpenOffice
  <2>2. CASE DeleteSession
    BY <2>2 DEF DeleteSession, LoginInv, loginVars
  <2>3. CASE Login
    BY <2>3, LoginStepKeeps DEF Login
  <2>4. CASE ClaimFails
    BY <2>4, WaysToLogin DEF ClaimFails
  <2>5. CASE LoadEnds
    <3>1. CASE open_login
      BY <2>5, <3>1, WaysToLogin DEF LoadEnds
    <3>2. CASE /\ view' \in {"dashboard", "unavailable"} /\ UNCHANGED loginVars
               /\ context' \in {"none", context}
      BY <2>5, <3>2, OtherScreens DEF LoadEnds, LoginInv
    <3> QED BY <2>5, <3>1, <3>2 DEF LoadEnds, Show
  <2>6. CASE Retry
    <3>1. /\ view' \in {"loading", "unavailable"} /\ UNCHANGED loginVars
          /\ context' = IF context = "pairing" THEN "resume" ELSE context
      BY <2>6 DEF Retry, start_dashboard_load
    <3> QED
      BY <2>6, <3>1, OtherScreens DEF Retry, LoginInv
  <2>7. CASE GiveUp
    BY <2>7, OtherScreens, WaysToLogin DEF GiveUp, Show
  <2>8. CASE GoHome
    BY <2>8, OtherScreens DEF GoHome, Show
  <2>9. CASE ChangeSubview
    BY <2>9 DEF ChangeSubview, LoginInv, loginVars
  <2>10. CASE DashboardFrame
    <3>1. CASE open_login
      BY <2>10, <3>1, WaysToLogin DEF DashboardFrame
    <3>2. CASE start_dashboard_load("refresh")
      BY <2>10, <3>2, OtherScreens DEF DashboardFrame, start_dashboard_load
    <3>3. CASE UNCHANGED <<view, context, loginVars>>
      BY <3>3 DEF LoginInv, loginVars
    <3> QED BY <2>10, <3>1, <3>2, <3>3 DEF DashboardFrame
  <2>11. CASE UNCHANGED vars
    BY <2>11 DEF vars, LoginInv, loginVars
  <2> QED
    BY <2>1, <2>2, <2>3, <2>4, <2>5, <2>6, <2>7, <2>8, <2>9, <2>10, <2>11 DEF Next
<1> QED
  BY <1>1, <1>2, PTL DEF Spec

-----------------------------------------------------------------------------
(* The dashboard *)

\* SelectionIsInSnapshot, of any navigation and any snapshot
InSnapshot(n, s) ==
    /\ Within(n.worklog, s.worklog)
    /\ Within(n.absences, s.absences)
    /\ Within(n.activity, Len(s.activity))
    /\ Within(n.recognition, ValueCount(n, s))

LEMMA ClampedIndex ==
    ASSUME NEW index \in Nat, NEW offset \in Int, NEW count \in Nat
    PROVE  /\ clamped_index(index, offset, count) \in Nat
           /\ Within(clamped_index(index, offset, count), count)
  BY DEF clamped_index, Within

LEMMA SnapshotLengths ==
    ASSUME NEW s \in Snapshots, NEW n \in Navigations
    PROVE  /\ s.worklog \in Nat /\ s.absences \in Nat /\ Len(s.activity) \in Nat
           /\ ValueCount(n, s) \in Nat
<1> DEFINE Event == [values : Seq(Int), complete : BOOLEAN]
<1>1. s.worklog \in Nat /\ s.absences \in Nat /\ s.activity \in Seq(Event)
  BY SnapshotsType
<1>2. Len(s.activity) \in Nat
  BY <1>1, LenProperties
<1>3. ValueCount(n, s) \in Nat
  <2>1. CASE ~HasEvent(n, s)
    BY <2>1 DEF ValueCount
  <2>2. CASE HasEvent(n, s)
    <3>1. n.activity + 1 \in 1 .. Len(s.activity)
      BY <2>2, <1>2 DEF HasEvent, Navigations
    <3>2. SelectedEvent(n, s) \in Event
      BY <1>1, <3>1, ElementOfSeq DEF SelectedEvent
    <3>3. SelectedEvent(n, s).values \in Seq(Int)
      BY <3>2
    <3> QED
      BY <2>2, <3>3, LenProperties DEF ValueCount
  <2> QED BY <2>1, <2>2
<1> QED BY <1>1, <1>2, <1>3

\* How many values there are depends on the event alone.
LEMMA SameEventSameValues ==
    ASSUME NEW n, NEW m, NEW s, n.activity = m.activity
    PROVE  ValueCount(n, s) = ValueCount(m, s)
  BY DEF ValueCount, HasEvent, SelectedEvent

LEMMA ResetInSnapshot ==
    ASSUME NEW n \in Navigations, NEW s \in Snapshots
    PROVE  /\ ResetForSnapshot(n, s) \in Navigations
           /\ InSnapshot(ResetForSnapshot(n, s), s)
           /\ ResetForSnapshot(n, s).status = "idle"
<1> DEFINE last == IF s.worklog = 0 THEN 0 ELSE s.worklog - 1
           new == ResetForSnapshot(n, s)
<1>1. s.worklog \in Nat /\ s.absences \in Nat /\ Len(s.activity) \in Nat
  BY SnapshotLengths
<1>2. last \in Nat /\ Within(last, s.worklog)
  BY <1>1 DEF Within
<1>3. new = [n EXCEPT !.worklog = last, !.absences = 0, !.activity = 0, !.recognition = 0,
                      !.status = "idle"]
  BY DEF ResetForSnapshot
<1> HIDE DEF last, new
<1>4. /\ new \in Navigations /\ new.worklog = last /\ new.absences = 0 /\ new.activity = 0
      /\ new.recognition = 0 /\ new.status = "idle"
  BY <1>2, <1>3 DEF Navigations
<1>5. ValueCount(new, s) \in Nat
  BY <1>4, SnapshotLengths
<1>6. InSnapshot(new, s)
  BY <1>1, <1>2, <1>4, <1>5 DEF InSnapshot, Within
<1> QED BY <1>4, <1>6 DEF new

LEMMA ReconcileInSnapshot ==
    ASSUME NEW n \in Navigations, NEW s \in Snapshots
    PROVE  /\ ReconcileSnapshot(n, s) \in Navigations
           /\ InSnapshot(ReconcileSnapshot(n, s), s)
           /\ ReconcileSnapshot(n, s).status = "idle"
<1> DEFINE worklog == clamped_index(n.worklog, 0, s.worklog)
           absences == clamped_index(n.absences, 0, s.absences)
           activity == clamped_index(n.activity, 0, Len(s.activity))
           clamped == [n EXCEPT !.worklog = worklog, !.absences = absences, !.activity = activity]
           recognition == clamped_index(clamped.recognition, 0, ValueCount(clamped, s))
           new == ReconcileSnapshot(n, s)
<1>1. /\ s.worklog \in Nat /\ s.absences \in Nat /\ Len(s.activity) \in Nat
      /\ n.worklog \in Nat /\ n.absences \in Nat /\ n.activity \in Nat /\ n.recognition \in Nat
  BY SnapshotLengths DEF Navigations
<1>2. /\ worklog \in Nat /\ Within(worklog, s.worklog)
      /\ absences \in Nat /\ Within(absences, s.absences)
      /\ activity \in Nat /\ Within(activity, Len(s.activity))
  <2>1. 0 \in Int
    OBVIOUS
  <2>2. worklog \in Nat /\ Within(worklog, s.worklog)
    BY <1>1, <2>1, ClampedIndex
  <2>3. absences \in Nat /\ Within(absences, s.absences)
    BY <1>1, <2>1, ClampedIndex
  <2>4. activity \in Nat /\ Within(activity, Len(s.activity))
    BY <1>1, <2>1, ClampedIndex
  <2> QED BY <2>2, <2>3, <2>4
<1>3. new = [clamped EXCEPT !.recognition = recognition, !.status = "idle"]
  BY DEF ReconcileSnapshot
<1> HIDE DEF worklog, absences, activity
<1>4. /\ clamped \in Navigations /\ clamped.worklog = worklog /\ clamped.absences = absences
      /\ clamped.activity = activity /\ clamped.recognition = n.recognition
  BY <1>2 DEF Navigations
<1> HIDE DEF clamped
<1>5. recognition \in Nat /\ Within(recognition, ValueCount(clamped, s))
  <2>1. ValueCount(clamped, s) \in Nat /\ 0 \in Int /\ clamped.recognition \in Nat
    BY <1>1, <1>4, SnapshotLengths
  <2> QED BY <2>1, ClampedIndex
<1> HIDE DEF recognition, new
<1>6. /\ new \in Navigations /\ new.worklog = worklog /\ new.absences = absences
      /\ new.activity = activity /\ new.recognition = recognition /\ new.status = "idle"
  BY <1>3, <1>4, <1>5 DEF Navigations
<1>7. ValueCount(new, s) = ValueCount(clamped, s)
  BY <1>4, <1>6, SameEventSameValues
<1>8. InSnapshot(new, s)
  BY <1>2, <1>5, <1>6, <1>7 DEF InSnapshot
<1> QED BY <1>6, <1>8 DEF new

\* Another subview keeps what is selected on each.
LEMMA SubviewInSnapshot ==
    ASSUME NEW n \in Navigations, NEW s, InSnapshot(n, s),
           NEW subview \in {"worklog", "absences", "activity"}
    PROVE  /\ SelectSubview(n, subview) \in Navigations
           /\ InSnapshot(SelectSubview(n, subview), s)
           /\ SelectSubview(n, subview).status = "idle"
<1> DEFINE new == SelectSubview(n, subview)
<1>1. /\ new \in Navigations /\ new.worklog = n.worklog /\ new.absences = n.absences
      /\ new.activity = n.activity /\ new.recognition = n.recognition /\ new.status = "idle"
  BY DEF SelectSubview, Navigations
<1>2. ValueCount(new, s) = ValueCount(n, s)
  BY <1>1, SameEventSameValues
<1> HIDE DEF new
<1> QED
  BY <1>1, <1>2 DEF InSnapshot, new

\* A direction moves inside the snapshot, and unless it makes the outcome
\* disappear it leaves the event and the value that the outcome is about.
LEMMA MovedInSnapshot ==
    ASSUME nav \in Navigations, snapshot \in Snapshots, InSnapshot(nav, snapshot),
           NEW horizontal \in {-1, 0, 1}, NEW vertical \in {-1, 0, 1}
    PROVE  LET m == Moved(horizontal, vertical)
           IN  /\ m \in Navigations
               /\ InSnapshot(m, snapshot)
               /\ m.status # "idle" => /\ m.status = nav.status
                                       /\ m.activity = nav.activity
                                       /\ m.recognition = nav.recognition
<1> DEFINE m == Moved(horizontal, vertical)
           s == snapshot
<1>1. /\ s.worklog \in Nat /\ s.absences \in Nat /\ Len(s.activity) \in Nat
      /\ ValueCount(nav, s) \in Nat
      /\ nav.worklog \in Nat /\ nav.absences \in Nat /\ nav.activity \in Nat
      /\ nav.recognition \in Nat
      /\ horizontal \in Int /\ vertical \in Int
      /\ nav.subview \in {"worklog", "absences", "activity"}
  BY SnapshotLengths DEF Navigations
<1>2. CASE m = nav
  BY <1>2
<1>3. CASE nav.subview = "worklog" /\ m = MoveSelection(nav, horizontal, s)
  <2> DEFINE worklog == clamped_index(nav.worklog, horizontal, s.worklog)
  <2>1. worklog \in Nat /\ Within(worklog, s.worklog)
    BY <1>1, ClampedIndex
  <2>2. m = [nav EXCEPT !.worklog = worklog]
    BY <1>3 DEF MoveSelection
  <2> HIDE DEF worklog, m
  <2>3. /\ m \in Navigations /\ m.worklog = worklog /\ m.absences = nav.absences
        /\ m.activity = nav.activity /\ m.recognition = nav.recognition
        /\ m.status = nav.status
    BY <2>1, <2>2 DEF Navigations
  <2> QED
    BY <2>1, <2>3, SameEventSameValues DEF InSnapshot, m
<1>4. CASE nav.subview = "absences" /\ m = MoveSelection(nav, vertical, s)
  <2> DEFINE absences == clamped_index(nav.absences, vertical, s.absences)
  <2>1. absences \in Nat /\ Within(absences, s.absences)
    BY <1>1, ClampedIndex
  <2>2. m = [nav EXCEPT !.absences = absences]
    BY <1>4 DEF MoveSelection
  <2> HIDE DEF absences, m
  <2>3. /\ m \in Navigations /\ m.worklog = nav.worklog /\ m.absences = absences
        /\ m.activity = nav.activity /\ m.recognition = nav.recognition
        /\ m.status = nav.status
    BY <2>1, <2>2 DEF Navigations
  <2> QED
    BY <2>1, <2>3, SameEventSameValues DEF InSnapshot, m
<1>5. CASE nav.subview = "activity" /\ m = MoveSelection(nav, vertical, s)
  <2> DEFINE activity == clamped_index(nav.activity, vertical, Len(s.activity))
  <2>1. activity \in Nat /\ Within(activity, Len(s.activity))
    BY <1>1, ClampedIndex
  <2>2. m = [nav EXCEPT !.activity = activity, !.recognition = 0, !.status = "idle"]
    BY <1>5 DEF MoveSelection
  <2> HIDE DEF activity, m
  <2>3. /\ m \in Navigations /\ m.worklog = nav.worklog /\ m.absences = nav.absences
        /\ m.activity = activity /\ m.recognition = 0 /\ m.status = "idle"
    BY <2>1, <2>2 DEF Navigations
  <2>4. ValueCount(m, s) \in Nat
    BY <2>3, SnapshotLengths
  <2>5. Within(m.recognition, ValueCount(m, s))
    BY <2>3, <2>4 DEF Within
  <2> QED
    BY <2>1, <2>3, <2>5 DEF InSnapshot, m
<1>6. CASE m = MoveRecognition(nav, horizontal, s) /\ m # nav
  <2> DEFINE recognition == clamped_index(nav.recognition, horizontal, ValueCount(nav, s))
  <2>1. recognition \in Nat /\ Within(recognition, ValueCount(nav, s))
    BY <1>1, ClampedIndex
  <2>2. m = [nav EXCEPT !.recognition = recognition, !.status = "idle"]
    BY <1>6 DEF MoveRecognition
  <2> HIDE DEF recognition, m
  <2>3. /\ m \in Navigations /\ m.worklog = nav.worklog /\ m.absences = nav.absences
        /\ m.activity = nav.activity /\ m.recognition = recognition /\ m.status = "idle"
    BY <2>1, <2>2 DEF Navigations
  <2> QED
    BY <2>1, <2>3, SameEventSameValues DEF InSnapshot, m
<1>7. \/ m = nav
      \/ nav.subview = "worklog" /\ m = MoveSelection(nav, horizontal, s)
      \/ nav.subview = "absences" /\ m = MoveSelection(nav, vertical, s)
      \/ nav.subview = "activity" /\ m = MoveSelection(nav, vertical, s)
      \/ m = MoveRecognition(nav, horizontal, s)
  BY <1>1 DEF Moved
<1> QED
  BY <1>2, <1>3, <1>4, <1>5, <1>6, <1>7


(***************************************************************************)
(* The two properties of the dashboard need to know that a dashboard has a *)
(* snapshot, and that no answer is waited for when a frame has ended.      *)
(***************************************************************************)
BoardInv ==
    /\ DashboardTypeOK
    /\ view = "dashboard" => snapshot # None
    /\ nav.status # "pending"
    /\ SelectionIsInSnapshot
    /\ OutcomeIsOfSelection

LEMMA BoardOfIdle ==
    ASSUME nav' \in Navigations, snapshot' \in Snapshots, InSnapshot(nav', snapshot'),
           nav'.status = "idle", sent' = None,
           connection' \in {"unpaired", "current", "offline"}
    PROVE  BoardInv'
<1>1. snapshot' # None
  BY SnapshotsType
<1>2. SelectionIsInSnapshot'
  BY DEF SelectionIsInSnapshot, InSnapshot
<1> QED
  BY <1>1, <1>2 DEF BoardInv, DashboardTypeOK, OutcomeIsOfSelection

\* No snapshot, no dashboard
LEMMA BoardUnpaired ==
    ASSUME mark_unpaired, nav' \in Navigations, nav'.status # "pending",
           view' # "dashboard"
    PROVE  BoardInv'
  BY DEF BoardInv, DashboardTypeOK, mark_unpaired, SelectionIsInSnapshot,
         OutcomeIsOfSelection

\* The dashboard stays as it is behind another screen.
LEMMA BoardBehind ==
    ASSUME BoardInv, UNCHANGED dashboardVars,
           view' = "dashboard" => view = "dashboard" \/ snapshot # None
    PROVE  BoardInv'
  BY DEF BoardInv, DashboardTypeOK, dashboardVars, SelectionIsInSnapshot,
         OutcomeIsOfSelection, ValueCount, HasEvent, SelectedEvent

LEMMA BoardReceives ==
    ASSUME BoardInv, NEW s \in Snapshots, set_snapshot(s)
    PROVE  BoardInv'
<1>1. nav \in Navigations
  BY DEF BoardInv, DashboardTypeOK
<1>2. /\ nav' \in Navigations /\ InSnapshot(nav', s) /\ nav'.status = "idle"
  BY <1>1, ResetInSnapshot, ReconcileInSnapshot DEF set_snapshot
<1> QED
  BY <1>2, BoardOfIdle DEF set_snapshot

\* A navigation inside the snapshot that shows the outcome of the selection
\* still, or none
LEMMA BoardNavigates ==
    ASSUME BoardInv, snapshot \in Snapshots,
           NEW n \in Navigations, NavigationBecomes(n), InSnapshot(n, snapshot),
           n.status # "idle" => /\ n.status = nav.status
                                /\ n.activity = nav.activity
                                /\ n.recognition = nav.recognition
    PROVE  BoardInv'
<1>1. nav' = n /\ snapshot' = snapshot /\ connection' = connection
      /\ sent' = IF n.status = "idle" THEN None ELSE sent
  BY DEF NavigationBecomes
<1>2. snapshot # None
  BY SnapshotsType
<1>3. CASE n.status = "idle"
  BY <1>1, <1>3, BoardOfIdle DEF BoardInv, DashboardTypeOK
<1>4. CASE n.status # "idle"
  <2>1. sent' = sent /\ n.status = nav.status
        /\ n.activity = nav.activity /\ n.recognition = nav.recognition
    BY <1>1, <1>4
  <2>2. SelectionIsInSnapshot'
    BY <1>1 DEF SelectionIsInSnapshot, InSnapshot
  <2> QED
    BY <1>1, <1>2, <2>1, <2>2 DEF BoardInv, DashboardTypeOK, OutcomeIsOfSelection
<1> QED BY <1>3, <1>4

\* An answer is for the selection that was sent, and leaves it where it is.
LEMMA BoardAnswered ==
    ASSUME BoardInv, snapshot \in Snapshots,
           NEW m \in Navigations, InSnapshot(m, snapshot),
           NEW outcome \in {"success", "failure"}, Answered(m, outcome)
    PROVE  BoardInv'
<1> DEFINE n == MarkRecognition(BeginRecognition(m), outcome)
<1>1. /\ n \in Navigations /\ n.worklog = m.worklog /\ n.absences = m.absences
      /\ n.activity = m.activity /\ n.recognition = m.recognition /\ n.status = outcome
  BY DEF MarkRecognition, BeginRecognition, Navigations
<1>2. nav' = n /\ snapshot' = snapshot /\ connection' = connection
      /\ sent' = <<m.activity, m.recognition>>
  BY DEF Answered, begin_recognition
<1> HIDE DEF n
<1>3. sent' \in Nat \X Nat /\ sent' = <<nav'.activity, nav'.recognition>>
  BY <1>1, <1>2 DEF Navigations
<1>4. ValueCount(n, snapshot) = ValueCount(m, snapshot)
  BY <1>1, SameEventSameValues
<1>5. SelectionIsInSnapshot'
  BY <1>1, <1>2, <1>4 DEF SelectionIsInSnapshot, InSnapshot
<1>6. nav' \in Navigations /\ nav'.status # "pending" /\ snapshot' # None
  BY <1>1, <1>2, SnapshotsType
<1> QED
  BY <1>2, <1>3, <1>5, <1>6 DEF BoardInv, DashboardTypeOK, OutcomeIsOfSelection

LEMMA FrameKeeps ==
    ASSUME BoardInv, DashboardFrame
    PROVE  BoardInv'
<1>1. PICK horizontal \in {-1, 0, 1}, vertical \in {-1, 0, 1} :
          LET moved == Moved(horizontal, vertical)
          IN  \/ NavigationBecomes(moved)
              \/ \E outcome \in {"success", "failure"} : Answered(moved, outcome)
              \/ AnsweredUnauthorized(moved) /\ open_login
              \/ handle_touch(moved)
  BY DEF DashboardFrame, CannotSend
<1> DEFINE m == Moved(horizontal, vertical)
<1>2. nav \in Navigations /\ snapshot \in Snapshots /\ InSnapshot(nav, snapshot)
  BY DEF BoardInv, DashboardTypeOK, DashboardFrame, SelectionIsInSnapshot, InSnapshot
<1>3. /\ m \in Navigations
      /\ InSnapshot(m, snapshot)
      /\ m.status # "idle" => /\ m.status = nav.status
                              /\ m.activity = nav.activity
                              /\ m.recognition = nav.recognition
  BY <1>2, MovedInSnapshot
<1> HIDE DEF m
<1>4. CASE NavigationBecomes(m)
  BY <1>2, <1>3, <1>4, BoardNavigates
<1>5. CASE \E outcome \in {"success", "failure"} : Answered(m, outcome)
  BY <1>2, <1>3, <1>5, BoardAnswered
<1>6. CASE AnsweredUnauthorized(m) /\ open_login
  <2>1. nav' \in Navigations /\ nav'.status # "pending"
    BY <1>3, <1>6 DEF AnsweredUnauthorized, MarkRecognition, BeginRecognition, Navigations
  <2> QED
    BY <1>6, <2>1, BoardUnpaired DEF AnsweredUnauthorized, open_login, Show
<1>7. CASE handle_touch(m)
  <2>1. PICK i \in DOMAIN Subview : NavigationBecomes(SelectSubview(m, Subview[i]))
    BY <1>7 DEF handle_touch
  <2>2. Subview[i] \in {"worklog", "absences", "activity"}
    BY DEF Subview
  <2>3. /\ SelectSubview(m, Subview[i]) \in Navigations
        /\ InSnapshot(SelectSubview(m, Subview[i]), snapshot)
        /\ SelectSubview(m, Subview[i]).status = "idle"
    BY <1>3, <2>2, SubviewInSnapshot
  <2> QED
    BY <1>2, <2>1, <2>3, BoardNavigates
<1> QED
  BY <1>1, <1>4, <1>5, <1>6, <1>7 DEF m

LEMMA ChangeSubviewKeeps ==
    ASSUME BoardInv, ChangeSubview
    PROVE  BoardInv'
<1>1. PICK offset \in {-1, 1} : NavigationBecomes(MoveSubview(nav, offset))
  BY DEF ChangeSubview, move_subview
<1>2. nav \in Navigations /\ snapshot \in Snapshots /\ InSnapshot(nav, snapshot)
  BY DEF BoardInv, DashboardTypeOK, ChangeSubview, SelectionIsInSnapshot, InSnapshot
<1> DEFINE index == CHOOSE i \in 1..3 : Subview[i] = nav.subview
           next == Subview[((index + offset + 2) % 3) + 1]
<1>3. \E i \in 1..3 : Subview[i] = nav.subview
  BY <1>2 DEF Subview, Navigations
<1>4. index \in 1..3
  BY <1>3
<1>5. ((index + offset + 2) % 3) + 1 \in 1..3
  <2> HIDE DEF index
  <2> QED BY <1>4
<1>6. next \in {"worklog", "absences", "activity"}
  <2> DEFINE j == ((index + offset + 2) % 3) + 1
  <2>1. j \in {1, 2, 3}
    BY <1>5
  <2> HIDE DEF j
  <2>2. Subview[j] \in {"worklog", "absences", "activity"}
    BY <2>1 DEF Subview
  <2> QED BY <2>2 DEF j
<1>7. NavigationBecomes(SelectSubview(nav, next))
  BY <1>1 DEF MoveSubview
<1> HIDE DEF next
<1>8. /\ SelectSubview(nav, next) \in Navigations
      /\ InSnapshot(SelectSubview(nav, next), snapshot)
      /\ SelectSubview(nav, next).status = "idle"
  BY <1>2, <1>6, SubviewInSnapshot
<1> QED
  BY <1>2, <1>7, <1>8, BoardNavigates

LEMMA BoardInvInductive == Spec => []BoardInv
<1>1. Init => BoardInv
  BY DEF Init, LoginInit, DashboardInit, BoardInv, DashboardTypeOK, InitialNavigation,
         Navigations, SelectionIsInSnapshot, OutcomeIsOfSelection
<1>2. LoginInv /\ BoardInv /\ [Next]_vars => BoardInv'
  <2> SUFFICES ASSUME LoginInv, BoardInv, [Next]_vars PROVE BoardInv'
    OBVIOUS
  <2>0. nav \in Navigations /\ nav.status # "pending"
    BY DEF BoardInv, DashboardTypeOK
  <2>1. CASE OpenOffice
    BY <2>1, BoardBehind DEF OpenOffice, start_dashboard_load, OpenEntry, Show
  <2>2. CASE DeleteSession
    BY <2>0, <2>2, BoardUnpaired DEF DeleteSession
  <2>3. CASE Login
    BY <2>3, LoginStepKeeps, BoardBehind DEF Login
  <2>4. CASE ClaimFails
    BY <2>4, BoardBehind DEF ClaimFails, open_login, Show
  <2>5. CASE LoadEnds
    <3>1. CASE \E s \in Snapshots : set_snapshot(s)
      BY <3>1, BoardReceives
    <3>2. CASE mark_unpaired /\ open_login /\ UNCHANGED nav
      BY <2>0, <3>2, BoardUnpaired DEF open_login, Show
    <3>3. CASE mark_offline /\ view' = "unavailable"
      BY <3>3 DEF mark_offline, BoardInv, DashboardTypeOK, SelectionIsInSnapshot,
                  OutcomeIsOfSelection, ValueCount, HasEvent, SelectedEvent
    <3> QED BY <2>5, <3>1, <3>2, <3>3 DEF LoadEnds
  <2>6. CASE Retry
    BY <2>6, BoardBehind DEF Retry, start_dashboard_load
  <2>7. CASE GiveUp
    BY <2>7, BoardBehind DEF GiveUp, open_login, Show
  <2>8. CASE GoHome
    BY <2>8, BoardBehind DEF GoHome, Show
  <2>9. CASE ChangeSubview
    BY <2>9, ChangeSubviewKeeps
  <2>10. CASE DashboardFrame
    BY <2>10, FrameKeeps
  <2>11. CASE UNCHANGED vars
    BY <2>11, BoardBehind DEF vars
  <2> QED
    BY <2>1, <2>2, <2>3, <2>4, <2>5, <2>6, <2>7, <2>8, <2>9, <2>10, <2>11 DEF Next
<1> QED
  BY <1>1, <1>2, LoginInvInductive, PTL DEF Spec

-----------------------------------------------------------------------------
(* The theorems *)

\* The states are of their types: in particular an entry never grows beyond
\* its fields, nor the focus beyond the controls.
THEOREM ScreensTypeCorrect == Spec => []TypeOK
<1>1. LoginInv /\ BoardInv => TypeOK
  BY LoginInvImplies DEF BoardInv, TypeOK
<1> QED
  BY <1>1, LoginInvInductive, BoardInvInductive, PTL

\* A scanned secret is in force only while no code has been typed since, and
\* only for the address it was scanned with or one that continues it.
THEOREM ScannedSecretKept == Spec => []SecretKeepsItsScan
<1>1. LoginInv => SecretKeepsItsScan
  BY LoginInvImplies
<1> QED
  BY <1>1, LoginInvInductive, PTL

\* Wherever a start of the camera fails and however a scan ends, all that was
\* taken has been given back, and the camera runs on the login screen only.
THEOREM CameraWholeOrGone == Spec => []CameraIsWholeOrGone
<1>1. LoginInv => CameraIsWholeOrGone
  BY LoginInvImplies
<1> QED
  BY <1>1, LoginInvInductive, PTL

\* Each selection is an index into the snapshot drawn, whatever a refresh
\* brought and whatever was pressed in the same frame.
THEOREM SelectionInSnapshot == Spec => []SelectionIsInSnapshot
<1>1. BoardInv => SelectionIsInSnapshot
  BY DEF BoardInv
<1> QED
  BY <1>1, BoardInvInductive, PTL

\* The outcome shown is that of the event and the value that are selected.
THEOREM OutcomeOfSelection == Spec => []OutcomeIsOfSelection
<1>1. BoardInv => OutcomeIsOfSelection
  BY DEF BoardInv
<1> QED
  BY <1>1, BoardInvInductive, PTL

\* The direction keys alone bring the focus from every control of the login
\* screen to every other, with the rectangles that the code draws.
THEOREM EveryControlAlwaysReachable == Spec => []EveryControlReachable
<1>1. LoginInv => EveryControlReachable
  BY AllPairsLead DEF LoginInv, EveryControlReachable
<1> QED
  BY <1>1, LoginInvInductive, PTL

=============================================================================
