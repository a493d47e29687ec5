--------------------------- MODULE SeekMailbox_proofs ---------------------------
(***************************************************************************)
(* The seek slot for any number of requests, clears, rewinds and quanta,   *)
(* on every host: with the two writers taking turns, and with two threads  *)
(* that overlap at any access.  The last part is about the words of the    *)
(* slot on the embedded host.                                              *)
(***************************************************************************)
EXTENDS SeekMailbox, SeqLock, TLAPS

USE RealmAssumption, BoundAssumption

\* Every stamp is of the past.
Stamped == ctl.req.at <= now /\ aud.req.at <= now

\* The callback stores no more than a request has.
Storing == aud.at = "store" => aud.stored < 3

\* What is in the slot when the sequencer has had its turn came after it.
Looked == aud.at \in {"apply", "advance"} /\ kind # "none" => late

Prompt == TypeOK /\ Stamped /\ Storing /\ Looked

LEMMA ThreeStores == Len(StoreOrder) = 3 /\ StoreOrder[1] = "argument" /\ StoreOrder[2] = "frame" /\ StoreOrder[3] = "kind"
  BY DEF StoreOrder

-----------------------------------------------------------------------------
\* One store counts an argument, or passes the number of its request on.
LEMMA NumberTypes ==
  ASSUME ord \in [Places -> Nat], NEW side \in {"control", "audio"}, NEW field, Number(side, field)
  PROVE  /\ ord' \in [Places -> Nat]
         /\ \A p \in Places \ {"argument", "kind", "owed", side} : ord'[p] = ord[p]
         /\ field = "argument" =>
              /\ ord'["argument"] = ord["argument"] + 1 /\ ord'[side] = ord["argument"] + 1
              /\ ord'["kind"] = ord["kind"] /\ ord'["owed"] = ord["owed"]
         /\ field = "kind" =>
              /\ ord'["argument"] = ord["argument"] /\ ord'[side] = ord[side]
              /\ ord'["kind"] = ord[side] /\ ord'["owed"] = ord[side]
         /\ field \notin {"argument", "kind"} => ord' = ord
  <1>1. ord' = IF field = "argument" THEN [ord EXCEPT !["argument"] = @ + 1, ![side] = ord["argument"] + 1]
               ELSE IF field = "kind" THEN [ord EXCEPT !["kind"] = ord[side], !["owed"] = ord[side]]
               ELSE ord
    BY DEF Number
  <1>2. CASE field = "argument"
    BY <1>1, <1>2 DEF Places
  <1>3. CASE field = "kind"
    BY <1>1, <1>3 DEF Places
  <1>4. CASE field \notin {"argument", "kind"}
    BY <1>1, <1>4
  <1> QED BY <1>2, <1>3, <1>4

LEMMA PromptInit == Init => Prompt
  <1> SUFFICES ASSUME Init PROVE Prompt
    OBVIOUS
  <1>1. TypeOK
    <2>1. NoRequest \in Request
      BY DEF NoRequest, Request, Kinds
    <2>2. ctl \in [req : Request, stored : 0 .. Len(StoreOrder)]
      BY <2>1, ThreeStores DEF Init
    <2>3. aud \in [at : {"outside", "quantum", "store", "peekArgument", "peekFrame",
                       "clear", "apply", "advance"},
                 req : Request, stored : 0 .. Len(StoreOrder)]
      BY <2>1, ThreeStores DEF Init
    <2>4. /\ realm \in Realms /\ running \in BOOLEAN /\ kind \in Kinds \cup {"none"} /\ argument \in 0 .. MaxSeeks
          /\ frame \in 0 .. now /\ now \in 0 .. MaxQuanta /\ tap \in 0 .. now
          /\ seeks \in 0 .. MaxSeeks /\ clears \in 0 .. MaxClears
          /\ rewinds \in 0 .. MaxRewinds
      BY DEF Init
    <2>5. late \in BOOLEAN /\ wiped \in BOOLEAN
      BY Zenon DEF Init
    <2> QED BY <2>2, <2>3, <2>4, <2>5 DEF TypeOK
  <1>2. Stamped
    BY DEF Init, Stamped, NoRequest
  <1>3. Storing /\ Looked
    BY DEF Init, Storing, Looked
  <1> QED BY <1>1, <1>2, <1>3 DEF Prompt

LEMMA ControlTypes == ASSUME TypeOK, Stamped, Storing, Control PROVE TypeOK' /\ Stamped' /\ Storing'
  <1> USE ThreeStores DEF TypeOK, Stamped, Storing, Request, Kinds
  <1>1. CASE \E k \in Kinds : ControlRequest(k)
    <2>1. PICK k \in Kinds : ControlRequest(k)
      BY <1>1
    <2>2. ctl' = [req |-> [kind |-> k, arg |-> seeks + 1, at |-> tap], stored |-> 0]
      BY <2>1 DEF ControlRequest, Stamp
    <2>3. ctl' \in [req : Request, stored : 0 .. Len(StoreOrder)] /\ ctl'.req.at <= now
      BY <2>1, <2>2 DEF ControlRequest
    <2> QED BY <2>1, <2>3 DEF ControlRequest
  <1>2. CASE ControlStore
    <2>1. ctl' \in [req : Request, stored : 0 .. Len(StoreOrder)] /\ ctl'.req = ctl.req
      BY <1>2 DEF ControlStore, Writing
    <2>2. /\ argument' \in {argument, ctl.req.arg} /\ frame' \in {frame, ctl.req.at}
          /\ kind' \in {kind, ctl.req.kind} /\ late' \in BOOLEAN /\ wiped' \in BOOLEAN
      BY <1>2 DEF ControlStore, StoreField, Owe
    <2> QED BY <1>2, <2>1, <2>2 DEF ControlStore
  <1>3. CASE ControlClear
    BY <1>3 DEF ControlClear
  <1> QED BY <1>1, <1>2, <1>3 DEF Control

LEMMA AudioTypes == ASSUME TypeOK, Stamped, Storing, Audio PROVE TypeOK' /\ Stamped' /\ Storing'
  <1> USE ThreeStores DEF TypeOK, Stamped, Storing, Request, Kinds, MailboxUnchanged, SlotUnchanged, CountersUnchanged
  <1>1. CASE AudioEnter
    BY <1>1 DEF AudioEnter, Move
  <1>2. CASE AudioRewind
    <2>1. aud' = [at |-> "store", req |-> [kind |-> "frame", arg |-> 0, at |-> now], stored |-> 0]
      BY <1>2 DEF AudioRewind, Rewind
    <2> QED BY <1>2, <2>1 DEF AudioRewind
  <1>3. CASE AudioStore
    <2>1. /\ aud' \in [at : {"store", "quantum"}, req : Request, stored : 0 .. Len(StoreOrder)]
          /\ aud'.req = aud.req /\ Storing'
      <3>1. aud.stored \in 0 .. 2
        BY <1>3 DEF AudioStore
      <3>2. /\ aud' = [at |-> IF aud.stored + 1 = 3 THEN "quantum" ELSE "store",
                       req |-> aud.req, stored |-> aud.stored + 1]
            /\ aud.req \in Request
        <4> HIDE DEF Request
        <4> QED BY <1>3 DEF AudioStore
      <3> HIDE DEF TypeOK, Request
      <3> QED BY <3>1, <3>2
    <2>2. /\ argument' \in {argument, aud.req.arg} /\ frame' \in {frame, aud.req.at}
          /\ kind' \in {kind, aud.req.kind} /\ late' \in BOOLEAN /\ wiped' \in BOOLEAN
      BY <1>3 DEF AudioStore, StoreField, Owe
    <2> QED BY <1>3, <2>1, <2>2 DEF AudioStore
  <1>4. CASE AudioPeekKind
    BY <1>4 DEF AudioPeekKind
  <1>5. CASE AudioPeekArgument
    BY <1>5 DEF AudioPeekArgument
  <1>6. CASE AudioPeekFrame
    <2> DEFINE read == [kind |-> aud.req.kind, arg |-> aud.req.arg, at |-> frame]
    <2>1. aud' = [at |-> IF now >= frame THEN "clear" ELSE "advance",
                  req |-> read, stored |-> aud.stored]
      BY <1>6 DEF AudioPeekFrame
    <2>2. read \in Request /\ read.at <= now /\ aud.stored \in 0 .. Len(StoreOrder)
      OBVIOUS
    <2>3. /\ aud' \in [at : {"clear", "advance"}, req : Request, stored : 0 .. Len(StoreOrder)]
          /\ aud'.req.at <= now
      <3> HIDE DEF read, TypeOK, Request
      <3> QED BY <2>1, <2>2
    <2> QED BY <1>6, <2>3 DEF AudioPeekFrame
  <1>7. CASE AudioClear
    BY <1>7 DEF AudioClear, Move
  <1>8. CASE AudioApply
    BY <1>8 DEF AudioApply, Move
  <1>9. CASE AudioAdvance
    <2>1. now' \in 0 .. MaxQuanta /\ now <= now'
      BY <1>9 DEF AudioAdvance
    <2>2. /\ aud' \in [at : {"quantum"}, req : Request, stored : 0 .. Len(StoreOrder)]
          /\ aud'.req = aud.req
      <3> HIDE DEF Request
      <3> QED BY <1>9 DEF AudioAdvance, Move
    <2>3. frame \in 0 .. now' /\ tap \in 0 .. now' /\ ctl.req.at <= now' /\ aud.req.at <= now'
      BY <2>1
    <2> HIDE DEF Request
    <2> QED BY <1>9, <2>1, <2>2, <2>3 DEF AudioAdvance
  <1>10. CASE AudioExit
    BY <1>10 DEF AudioExit, Move
  <1>11. CASE AudioPlayStop
    BY <1>11 DEF AudioPlayStop
  <1> QED BY <1>1, <1>2, <1>3, <1>4, <1>5, <1>6, <1>7, <1>8, <1>9, <1>10, <1>11 DEF Audio

\* Nothing is in the slot when the sequencer goes on, unless it came late.
LEMMA LookedKept == ASSUME TypeOK, Looked, Next PROVE Looked'
  <1> USE DEF TypeOK, Looked, MailboxUnchanged, SlotUnchanged, Move
  <1>1. CASE Control
    BY <1>1 DEF Control, ControlRequest, ControlStore, ControlClear, StoreField, Owe
  <1>2. CASE AudioStore
    BY <1>2 DEF AudioStore
  <1>3. CASE AudioPeekFrame
    <2>1. now >= frame
      OBVIOUS
    <2> QED BY <1>3, <2>1 DEF AudioPeekFrame
  <1>4. CASE AudioEnter \/ AudioRewind \/ AudioPlayStop
    BY <1>4 DEF AudioEnter, AudioRewind, AudioPlayStop
  <1>6. CASE AudioPeekKind
    BY <1>6 DEF AudioPeekKind
  <1>7. CASE AudioPeekArgument
    BY <1>7 DEF AudioPeekArgument
  <1>5. CASE AudioClear \/ AudioApply \/ AudioAdvance \/ AudioExit
    BY <1>5 DEF AudioClear, AudioApply, AudioAdvance, AudioExit
  <1> QED BY <1>1, <1>2, <1>3, <1>4, <1>5, <1>6, <1>7 DEF Next, Audio

\* The types of the slot and its users, stamps of the past, and the emptiness of the
\* slot after a look.
THEOREM PromptInvariant == Spec => []Prompt
  <1>1. Prompt /\ UNCHANGED vars => Prompt'
    BY DEF Prompt, TypeOK, Stamped, Storing, Looked, vars
  <1>2. Prompt /\ [Next]_vars => Prompt'
    BY <1>1, ControlTypes, AudioTypes, LookedKept DEF Prompt, Next
  <1> QED BY PromptInit, <1>2, PTL DEF Spec

\* The first dispatch after a seek was published takes it, however long a stopped
\* transport held the clock (apply_request).
THEOREM SeeksTakenAtDispatch == Spec => []NextDispatchTakesTheSeek
  <1>1. Prompt => NextDispatchTakesTheSeek
    BY DEF Prompt, Looked, NextDispatchTakesTheSeek
  <1> QED BY <1>1, PromptInvariant, PTL

-----------------------------------------------------------------------------
(* The seeks published: no kind without its argument, and how one is lost *)

Looking == {"peekArgument", "peekFrame", "clear"}

\* A request is numbered when its argument is stored, which is before its kind is,
\* and the sequencer reads the two the other way round.
Numbered ==
    /\ ord["control"] <= ord["argument"] /\ ord["audio"] <= ord["argument"]
    /\ ord["kind"] <= ord["argument"] /\ ord["owed"] <= ord["argument"]
    /\ ord["readKind"] <= ord["argument"]
    /\ Writing(ctl) => ctl.req.kind \in Kinds /\ (ctl.stored >= 1 => ord["control"] # 0)
    /\ aud.at = "store" => aud.req.kind \in Kinds /\ (aud.stored >= 1 => ord["audio"] # 0)
    /\ kind # "none" => ord["kind"] # 0
    /\ aud.at \in Looking \cup {"apply"} => ord["readKind"] # 0
    /\ aud.at \in {"peekFrame", "clear", "apply"} => ord["readKind"] <= ord["readArgument"]

\* The kind in the slot is that of the request owed, and so is the kind taken from it,
\* unless that request was published after the look had begun.
Kept ==
    /\ owed # NoRequest => owed.kind \in Kinds
    /\ kind # "none" => owed # NoRequest /\ kind = owed.kind /\ ord["kind"] = ord["owed"]
    /\ aud.at \in Looking /\ owed # NoRequest => kind # "none"
    /\ aud.at \in Looking /\ owed # NoRequest /\ ~late =>
           aud.req.kind = owed.kind /\ ord["readKind"] = ord["owed"]
    /\ aud.at = "apply" /\ kind = "none" /\ owed # NoRequest =>
           wiped \/ (aud.req.kind = owed.kind /\ ord["readKind"] = ord["owed"])
    /\ aud.at # "apply" /\ kind = "none" /\ owed # NoRequest =>
           wiped \/ (applied.kind = owed.kind /\ ord["owed"] <= ord["applied"])

\* Where the writers take turns nothing comes late, and the argument is the request's own.
Exact ==
    realm = "worklet" =>
    /\ ~late /\ ~wiped
    /\ Writing(ctl) => aud.at = "outside"
    /\ Writing(ctl) /\ ctl.stored >= 1 => ord["control"] = ord["argument"]
    /\ aud.at = "store" /\ aud.stored >= 1 => ord["audio"] = ord["argument"]
    /\ kind # "none" /\ ~Writing(ctl) /\ aud.at # "store" => ord["argument"] = ord["owed"]
    /\ owed # NoRequest /\ aud.at \in {"peekFrame", "clear", "apply"} =>
           ord["readArgument"] = ord["owed"]
    /\ owed # NoRequest /\ kind = "none" /\ aud.at # "apply" => ord["applied"] = ord["owed"]

Ledger == NumbersOK /\ Numbered /\ Kept /\ Exact

LEMMA LedgerInit == Init => Ledger
  <1> SUFFICES ASSUME Init PROVE Ledger
    OBVIOUS
  <1>1. /\ aud.at = "outside" /\ ctl.stored = 3 /\ kind = "none" /\ owed = NoRequest
    BY ThreeStores DEF Init
  <1>0. ~late /\ ~wiped
    BY Zenon DEF Init
  <1>2. NumbersOK /\ \A p \in Places : ord[p] = 0
    BY DEF Init, NumbersOK
  <1>3. Numbered
    BY <1>1, <1>2, ThreeStores DEF Numbered, Places, Writing, Looking
  <1>4. Kept
    BY <1>1 DEF Kept, Looking
  <1>5. Exact
    BY <1>0, <1>1, ThreeStores DEF Exact, Writing
  <1> QED BY <1>2, <1>3, <1>4, <1>5 DEF Ledger

\* A request begins: it has no number yet.
LEMMA BeginsKeeps ==
  ASSUME TypeOK, Ledger, (\E k \in Kinds : ControlRequest(k)) \/ AudioRewind
  PROVE  Ledger'
  <1> USE ThreeStores DEF Writing
  <1>1. CASE \E k \in Kinds : ControlRequest(k)
    <2>1. PICK k \in Kinds : ControlRequest(k)
      BY <1>1
    <2>2. ctl'.stored = 0 /\ ctl'.req.kind = k
      BY <2>1 DEF ControlRequest
    <2>3. /\ NumbersOK' /\ ord'["control"] = 0
          /\ \A p \in Places \ {"control"} : ord'[p] = ord[p]
      BY <2>1 DEF ControlRequest, Ledger, NumbersOK, Places
    <2>4. /\ realm = "worklet" => aud.at = "outside"
          /\ ctl.stored = 3
          /\ UNCHANGED <<realm, kind, aud, owed, late, wiped, applied>>
      BY <2>1 DEF ControlRequest, ControlMayRun, TypeOK
    <2>5. Numbered'
      BY <2>2, <2>3, <2>4 DEF Ledger, NumbersOK, Numbered, Places
    <2>6. Kept'
      BY <2>3, <2>4 DEF Ledger, Kept, Places
    <2>7. Exact'
      BY <2>2, <2>3, <2>4 DEF Ledger, Exact, Places
    <2> QED BY <2>3, <2>5, <2>6, <2>7 DEF Ledger
  <1>2. CASE AudioRewind
    <2>1. /\ aud.at = "quantum" /\ aud'.at = "store" /\ aud'.stored = 0 /\ aud'.req.kind = "frame"
      BY <1>2 DEF AudioRewind, Rewind
    <2>2. /\ NumbersOK' /\ ord'["audio"] = 0
          /\ \A p \in Places \ {"audio"} : ord'[p] = ord[p]
      BY <1>2 DEF AudioRewind, Ledger, NumbersOK, Places
    <2>3. UNCHANGED <<realm, kind, ctl, owed, late, wiped, applied>>
      BY <1>2 DEF AudioRewind, MailboxUnchanged, SlotUnchanged
    <2>4. Numbered'
      BY <2>1, <2>2, <2>3 DEF Ledger, NumbersOK, Numbered, Places, Kinds, Looking
    <2>5. Kept'
      BY <2>1, <2>2, <2>3 DEF Ledger, Kept, Places, Looking
    <2>6. Exact'
      BY <2>1, <2>2, <2>3 DEF Ledger, Exact, Places
    <2> QED BY <2>2, <2>4, <2>5, <2>6 DEF Ledger
  <1> QED BY <1>1, <1>2

\* The three stores of the control thread.
LEMMA ControlStoreKeeps == ASSUME TypeOK, Ledger, ControlStore PROVE Ledger'
  <1> USE ThreeStores DEF Writing
  <1> DEFINE field == StoreOrder[ctl.stored + 1]
  <1>1. /\ ctl.stored \in 0 .. 2 /\ ctl'.stored = ctl.stored + 1 /\ ctl'.req = ctl.req
        /\ UNCHANGED <<realm, aud, applied>>
    BY DEF ControlStore, TypeOK
  <1>2. StoreField(ctl.req, field) /\ Number("control", field)
    BY DEF ControlStore
  <1>3. /\ field = IF ctl.stored = 0 THEN "argument" ELSE IF ctl.stored = 1 THEN "frame" ELSE "kind"
    BY <1>1
  <1>4. NumbersOK'
    BY <1>2, NumberTypes DEF Ledger, NumbersOK
  <1>5. ctl.req.kind \in Kinds /\ (ctl.stored >= 1 => ord["control"] # 0)
    BY <1>1 DEF Ledger, Numbered
  <1>6. CASE ctl.stored = 0
    <2>1. UNCHANGED <<kind, owed, late>> /\ wiped' = wiped
      BY <1>2, <1>3, <1>6 DEF StoreField, Owe, TypeOK
    <2>2. /\ ord'["argument"] = ord["argument"] + 1 /\ ord'["control"] = ord["argument"] + 1
          /\ \A p \in Places \ {"argument", "control"} : ord'[p] = ord[p]
      <3>1. field = "argument"
        BY <1>3, <1>6
      <3> QED BY <1>2, <3>1, NumberTypes DEF Ledger, NumbersOK, Places
    <2>3. Numbered'
      BY <1>1, <1>5, <1>6, <2>1, <2>2 DEF Ledger, NumbersOK, Numbered, Places
    <2>4. Kept'
      BY <1>1, <2>1, <2>2 DEF Ledger, Kept, Places
    <2>5. Exact'
      BY <1>1, <1>6, <2>1, <2>2 DEF Ledger, Exact, Places
    <2> QED BY <1>4, <2>3, <2>4, <2>5 DEF Ledger
  <1>7. CASE ctl.stored = 1
    <2>1. UNCHANGED <<kind, owed, late>> /\ wiped' = wiped
      BY <1>2, <1>3, <1>7 DEF StoreField, Owe, TypeOK
    <2>2. ord' = ord
      <3>1. field \notin {"argument", "kind"}
        BY <1>3, <1>7
      <3> QED BY <1>2, <3>1, NumberTypes DEF Ledger, NumbersOK
    <2>3. Numbered'
      BY <1>1, <1>5, <1>7, <2>1, <2>2 DEF Ledger, Numbered
    <2>4. Kept'
      BY <1>1, <2>1, <2>2 DEF Ledger, Kept
    <2>5. Exact'
      BY <1>1, <1>7, <2>1, <2>2 DEF Ledger, Exact
    <2> QED BY <1>4, <2>3, <2>4, <2>5 DEF Ledger
  <1>8. CASE ctl.stored = 2
    <2>1. /\ kind' = ctl.req.kind /\ owed' = ctl.req /\ ~wiped'
          /\ late' <=> aud.at \notin {"outside", "quantum", "store"}
      BY <1>2, <1>3, <1>8 DEF StoreField, Owe
    <2>2. /\ ord'["kind"] = ord["control"] /\ ord'["owed"] = ord["control"]
          /\ \A p \in Places \ {"kind", "owed"} : ord'[p] = ord[p]
      <3>1. field = "kind"
        BY <1>3, <1>8
      <3> QED BY <1>2, <3>1, NumberTypes DEF Ledger, NumbersOK, Places
    <2>3. ~Writing(ctl)' /\ owed' # NoRequest
      BY <1>1, <1>5, <1>8, <2>1 DEF NoRequest, Kinds
    <2>4. Numbered'
      BY <1>1, <1>5, <1>8, <2>1, <2>2, <2>3 DEF Ledger, NumbersOK, Numbered, Places
    <2>5. Kept'
      BY <1>1, <1>5, <2>1, <2>2, <2>3 DEF Ledger, Kept, Places, Looking, Kinds
    <2>6. Exact'
      BY <1>1, <1>5, <1>8, <2>1, <2>2, <2>3 DEF Ledger, Exact, Places, Kinds
    <2> QED BY <1>4, <2>4, <2>5, <2>6 DEF Ledger
  <1> QED BY <1>1, <1>6, <1>7, <1>8

\* The three stores of a rewind, at a quantum boundary.
LEMMA AudioStoreKeeps == ASSUME TypeOK, Storing, Ledger, AudioStore PROVE Ledger'
  <1> USE ThreeStores DEF Writing
  <1> DEFINE field == StoreOrder[aud.stored + 1]
  <1>1. /\ aud.at = "store" /\ aud.stored \in 0 .. 2 /\ aud'.stored = aud.stored + 1
        /\ aud'.req = aud.req /\ aud'.at = IF aud.stored = 2 THEN "quantum" ELSE "store"
        /\ UNCHANGED <<realm, ctl, applied>>
    BY DEF AudioStore, TypeOK, Storing
  <1>2. StoreField(aud.req, field) /\ Number("audio", field)
    BY DEF AudioStore
  <1>3. /\ field = IF aud.stored = 0 THEN "argument" ELSE IF aud.stored = 1 THEN "frame" ELSE "kind"
    BY <1>1
  <1>4. NumbersOK'
    BY <1>2, NumberTypes DEF Ledger, NumbersOK
  <1>5. aud.req.kind \in Kinds /\ (aud.stored >= 1 => ord["audio"] # 0)
    BY <1>1 DEF Ledger, Numbered
  <1>6. CASE aud.stored = 0
    <2>1. UNCHANGED <<kind, owed, late>> /\ wiped' = wiped
      BY <1>2, <1>3, <1>6 DEF StoreField, Owe, TypeOK
    <2>2. /\ ord'["argument"] = ord["argument"] + 1 /\ ord'["audio"] = ord["argument"] + 1
          /\ \A p \in Places \ {"argument", "audio"} : ord'[p] = ord[p]
      <3>1. field = "argument"
        BY <1>3, <1>6
      <3> QED BY <1>2, <3>1, NumberTypes DEF Ledger, NumbersOK, Places
    <2>3. Numbered'
      BY <1>1, <1>5, <1>6, <2>1, <2>2 DEF Ledger, NumbersOK, Numbered, Places, Looking
    <2>4. Kept'
      BY <1>1, <1>6, <2>1, <2>2 DEF Ledger, Kept, Places, Looking
    <2>5. Exact'
      BY <1>1, <1>6, <2>1, <2>2 DEF Ledger, Exact, Places
    <2> QED BY <1>4, <2>3, <2>4, <2>5 DEF Ledger
  <1>7. CASE aud.stored = 1
    <2>1. UNCHANGED <<kind, owed, late>> /\ wiped' = wiped
      BY <1>2, <1>3, <1>7 DEF StoreField, Owe, TypeOK
    <2>2. ord' = ord
      <3>1. field \notin {"argument", "kind"}
        BY <1>3, <1>7
      <3> QED BY <1>2, <3>1, NumberTypes DEF Ledger, NumbersOK
    <2>3. Numbered'
      BY <1>1, <1>5, <1>7, <2>1, <2>2 DEF Ledger, Numbered, Looking
    <2>4. Kept'
      BY <1>1, <1>7, <2>1, <2>2 DEF Ledger, Kept, Looking
    <2>5. Exact'
      BY <1>1, <1>7, <2>1, <2>2 DEF Ledger, Exact
    <2> QED BY <1>4, <2>3, <2>4, <2>5 DEF Ledger
  <1>8. CASE aud.stored = 2
    <2>1. /\ kind' = aud.req.kind /\ owed' = aud.req /\ ~wiped' /\ ~late' /\ aud'.at = "quantum"
      BY <1>1, <1>2, <1>3, <1>8 DEF StoreField, Owe
    <2>2. /\ ord'["kind"] = ord["audio"] /\ ord'["owed"] = ord["audio"]
          /\ \A p \in Places \ {"kind", "owed"} : ord'[p] = ord[p]
      <3>1. field = "kind"
        BY <1>3, <1>8
      <3> QED BY <1>2, <3>1, NumberTypes DEF Ledger, NumbersOK, Places
    <2>3. owed' # NoRequest
      BY <1>5, <2>1 DEF NoRequest, Kinds
    <2>4. Numbered'
      BY <1>1, <1>5, <1>8, <2>1, <2>2, <2>3 DEF Ledger, NumbersOK, Numbered, Places, Looking
    <2>5. Kept'
      BY <1>5, <2>1, <2>2, <2>3 DEF Ledger, Kept, Places, Looking, Kinds
    <2>6. Exact'
      BY <1>1, <1>5, <1>8, <2>1, <2>2, <2>3 DEF Ledger, Exact, Places, Kinds
    <2> QED BY <1>4, <2>4, <2>5, <2>6 DEF Ledger
  <1> QED BY <1>1, <1>6, <1>7, <1>8

\* The sequencer's look, the kind before the argument.
LEMMA LookKeeps ==
  ASSUME TypeOK, Ledger, AudioPeekKind \/ AudioPeekArgument \/ AudioPeekFrame
  PROVE  Ledger'
  <1> USE ThreeStores DEF Writing
  <1>1. UNCHANGED <<realm, kind, ctl, owed, late, wiped, applied>>
    BY DEF AudioPeekKind, AudioPeekArgument, AudioPeekFrame, MailboxUnchanged, SlotUnchanged
  <1>2. CASE AudioPeekKind
    <2>1. /\ aud.at = "quantum" /\ aud'.req.kind = kind
          /\ aud'.at = IF kind = "none" THEN "advance" ELSE "peekArgument"
      BY <1>2 DEF AudioPeekKind, TypeOK, Request
    <2>2. /\ NumbersOK' /\ ord'["readKind"] = ord["kind"]
          /\ \A p \in Places \ {"readKind"} : ord'[p] = ord[p]
      BY <1>2 DEF AudioPeekKind, Ledger, NumbersOK, Places
    <2>3. Numbered'
      BY <1>1, <2>1, <2>2 DEF Ledger, NumbersOK, Numbered, Places, Looking
    <2>4. Kept'
      BY <1>1, <2>1, <2>2 DEF Ledger, Kept, Places, Looking
    <2>5. Exact'
      BY <1>1, <2>1, <2>2 DEF Ledger, Exact, Places
    <2> QED BY <2>2, <2>3, <2>4, <2>5 DEF Ledger
  <1>3. CASE AudioPeekArgument
    <2>1. /\ aud.at = "peekArgument" /\ aud'.req.kind = aud.req.kind /\ aud'.at = "peekFrame"
      BY <1>3 DEF AudioPeekArgument, TypeOK, Request
    <2>2. /\ NumbersOK' /\ ord'["readArgument"] = ord["argument"]
          /\ \A p \in Places \ {"readArgument"} : ord'[p] = ord[p]
      BY <1>3 DEF AudioPeekArgument, Ledger, NumbersOK, Places
    <2>3. Numbered'
      BY <1>1, <2>1, <2>2 DEF Ledger, NumbersOK, Numbered, Places, Looking
    <2>4. Kept'
      BY <1>1, <2>1, <2>2 DEF Ledger, Kept, Places, Looking
    <2>5. Exact'
      <3>1. owed # NoRequest => kind # "none"
        BY <2>1 DEF Ledger, Kept, Looking
      <3> QED BY <1>1, <2>1, <2>2, <3>1 DEF Ledger, Exact, Places
    <2> QED BY <2>2, <2>3, <2>4, <2>5 DEF Ledger
  <1>4. CASE AudioPeekFrame
    <2>1. /\ aud.at = "peekFrame" /\ aud'.req.kind = aud.req.kind /\ aud'.at = "clear"
          /\ ord' = ord
      BY <1>4 DEF AudioPeekFrame, TypeOK, Request
    <2>2. Numbered'
      BY <1>1, <2>1 DEF Ledger, NumbersOK, Numbered, Looking
    <2>3. Kept'
      BY <1>1, <2>1 DEF Ledger, Kept, Looking
    <2>4. Exact'
      BY <1>1, <2>1 DEF Ledger, Exact
    <2> QED BY <2>1, <2>2, <2>3, <2>4 DEF Ledger, NumbersOK
  <1> QED BY <1>2, <1>3, <1>4

\* The clears of either side, and acting on what was read.
LEMMA TakeKeeps ==
  ASSUME TypeOK, Ledger, ControlClear \/ AudioClear \/ AudioApply
  PROVE  Ledger'
  <1> USE ThreeStores DEF Writing
  <1>1. CASE ControlClear
    <2>1. /\ ~Writing(ctl) /\ (realm = "worklet" => aud.at = "outside")
          /\ kind' = "none" /\ owed' = NoRequest
          /\ UNCHANGED <<realm, ctl, aud, late, wiped, ord, applied>>
      BY <1>1 DEF ControlClear, ControlMayRun
    <2>2. Numbered'
      BY <2>1 DEF Ledger, Numbered
    <2>3. Kept'
      BY <2>1 DEF Ledger, Kept
    <2>4. Exact'
      BY <2>1 DEF Ledger, Exact
    <2> QED BY <2>1, <2>2, <2>3, <2>4 DEF Ledger, NumbersOK
  <1>2. CASE AudioClear
    <2>1. /\ aud.at = "clear" /\ aud'.at = "apply" /\ aud'.req = aud.req /\ kind' = "none"
          /\ wiped' = (late \/ wiped)
          /\ UNCHANGED <<realm, ctl, owed, late, ord, applied>>
      BY <1>2 DEF AudioClear, Move, TypeOK
    <2>2. Numbered'
      BY <2>1 DEF Ledger, Numbered, Looking
    <2>3. Kept'
      BY <2>1 DEF Ledger, Kept, Looking
    <2>4. Exact'
      BY <2>1 DEF Ledger, Exact
    <2> QED BY <2>1, <2>2, <2>3, <2>4 DEF Ledger, NumbersOK
  <1>3. CASE AudioApply
    <2>1. /\ aud.at = "apply" /\ aud'.at = "advance" /\ applied' = aud.req
          /\ UNCHANGED <<realm, kind, ctl, owed, late, wiped>>
      BY <1>3 DEF AudioApply, Move, MailboxUnchanged, SlotUnchanged, TypeOK
    <2>2. /\ NumbersOK' /\ ord'["applied"] = ord["readArgument"]
          /\ \A p \in Places \ {"applied"} : ord'[p] = ord[p]
      BY <1>3 DEF AudioApply, Ledger, NumbersOK, Places
    <2>3. Numbered'
      BY <2>1, <2>2 DEF Ledger, NumbersOK, Numbered, Places, Looking
    <2>4. Kept'
      BY <2>1, <2>2 DEF Ledger, Numbered, Kept, Places, Looking
    <2>5. Exact'
      BY <2>1, <2>2 DEF Ledger, Exact, Places
    <2> QED BY <2>2, <2>3, <2>4, <2>5 DEF Ledger
  <1> QED BY <1>1, <1>2, <1>3

\* The steps between two looks.
LEMMA QuantumKeeps ==
  ASSUME TypeOK, Ledger, AudioEnter \/ AudioPlayStop \/ AudioAdvance \/ AudioExit
  PROVE  Ledger'
  <1> USE ThreeStores DEF Writing
  <1>1. /\ UNCHANGED <<realm, kind, ctl, owed, wiped, ord, applied>>
        /\ aud.at \in {"outside", "quantum", "advance"}
        /\ aud'.at \in {"outside", "quantum", "advance"}
    BY DEF AudioEnter, AudioPlayStop, AudioAdvance, AudioExit, MailboxUnchanged, SlotUnchanged,
           Move, TypeOK
  <1>2. realm = "worklet" /\ Writing(ctl) => aud'.at = "outside"
    BY <1>1 DEF AudioEnter, AudioPlayStop, AudioAdvance, AudioExit, Ledger, Exact
  <1>3. ~late => ~late'
    BY DEF AudioEnter, AudioPlayStop, AudioAdvance, AudioExit, MailboxUnchanged
  <1>4. Numbered'
    BY <1>1 DEF Ledger, Numbered, Looking
  <1>5. Kept'
    BY <1>1 DEF Ledger, Kept, Looking
  <1>6. Exact'
    BY <1>1, <1>2, <1>3 DEF Ledger, Exact
  <1> QED BY <1>1, <1>4, <1>5, <1>6 DEF Ledger, NumbersOK

\* The ledger of what was published, on every host and for any number of requests, clears
\* and rewinds that overlap.
THEOREM LedgerInvariant == Spec => [](Prompt /\ Ledger)
  <1>1. Init => Prompt /\ Ledger
    BY PromptInit, LedgerInit
  <1>2. Prompt /\ Ledger /\ [Next]_vars => Ledger'
    <2>1. Ledger /\ UNCHANGED vars => Ledger'
      BY DEF Ledger, NumbersOK, Numbered, Kept, Exact, Writing, vars
    <2> QED BY <2>1, BeginsKeeps, ControlStoreKeeps, AudioStoreKeeps, LookKeeps, TakeKeeps,
               QuantumKeeps DEF Prompt, Next, Control, Audio
  <1> QED BY <1>1, <1>2, PromptInvariant, PTL DEF Spec

\* No reader sees a kind whose argument has not arrived, whoever else is writing.
THEOREM KindsHaveArguments == Spec => []KindHasItsArgument
  <1>1. Ledger => KindHasItsArgument
    BY DEF Ledger, Numbered, KindHasItsArgument, Looking
  <1> QED BY <1>1, LedgerInvariant, PTL

\* A published seek is never lost but between a look and its clear, on two threads.
THEOREM LossesNeedALook == Spec => []LastSeekLostOnlyUnderALook
  <1>1. Prompt /\ Ledger => LastSeekLostOnlyUnderALook
    <2> SUFFICES ASSUME Prompt, Ledger, Quiet, owed # NoRequest, ~(wiped /\ realm = "threads")
                 PROVE  \/ kind # "none" /\ Stands(kind, ord["argument"])
                        \/ kind = "none" /\ Stands(applied.kind, ord["applied"])
      BY DEF LastSeekLostOnlyUnderALook
    <2>1. ~wiped
      BY DEF Ledger, Exact, Prompt, TypeOK
    <2>2. CASE kind # "none"
      <3>1. kind = owed.kind /\ ord["owed"] <= ord["argument"]
        BY <2>2 DEF Ledger, Kept, Numbered
      <3>2. realm = "worklet" => ord["argument"] = ord["owed"]
        BY <2>2 DEF Ledger, Exact, Quiet
      <3> QED BY <2>2, <3>1, <3>2 DEF Stands, Ledger, NumbersOK, Places
    <2>3. CASE kind = "none"
      <3>1. applied.kind = owed.kind /\ ord["owed"] <= ord["applied"]
        BY <2>1, <2>3 DEF Ledger, Kept, Quiet
      <3>2. realm = "worklet" => ord["applied"] = ord["owed"]
        BY <2>3 DEF Ledger, Exact, Quiet
      <3> QED BY <2>3, <3>1, <3>2 DEF Stands, Ledger, NumbersOK, Places
    <2> QED BY <2>2, <2>3
  <1> QED BY <1>1, LedgerInvariant, PTL

(***************************************************************************)
(* The words of the mailbox on the embedded host, which has no 64-bit      *)
(* atomics, are SeqlockU64s (argument, frame): SeqLock implements          *)
(* Register, for every set of halves and every number of attempts and      *)
(* stores.  A load takes effect at its check and a store when it closes;   *)
(* what has to be shown is that a check that finds the version even and    *)
(* unmoved holds two halves of one value.                                  *)
(***************************************************************************)
USE HalvesAssumption, AttemptsAssumption

\* The writer's side: an even version means that no store is under way, and then the
\* slot holds the last stored value.
SlotWhole ==
    /\ Even(version) <=> writing = "idle"
    /\ writing = "idle" => <<low, high>> = stored
    /\ writing = "close" => low = next[1] /\ high = next[2]
    /\ writing = "high" => low = next[1]

\* The reader's side: what it has read of the slot is still there if the version has
\* stayed where it was, and even.
ReadWhole ==
    /\ reading # "version" => before <= version
    /\ reading \in {"high", "check"} /\ Undisturbed => seenLow = low
    /\ reading = "check" /\ Undisturbed => seenHigh = high

WordInv == WordTypeOK /\ SlotWhole /\ ReadWhole

LEMMA Parity == ASSUME NEW n \in Nat PROVE Even(n + 1) <=> ~Even(n)
  BY DEF Even

\* The inductive invariant holds in a fresh slot.
LEMMA WordBegins == ASSUME WordInit PROVE WordInv
  <1> USE DEF WordInit
  <1>1. WordTypeOK
    BY DEF WordTypeOK
  <1>2. SlotWhole
    BY DEF SlotWhole, Even
  <1>3. ReadWhole
    BY DEF ReadWhole
  <1> QED BY <1>1, <1>2, <1>3 DEF WordInv

\* The writer keeps it: the version moves before a half is written, and on to the next
\* even number only when both are.
LEMMA StoreKeeps == ASSUME WordInv, Store PROVE WordInv'
  <1> USE DEF WordInv
  <1>1. CASE Open
    <2> USE <1>1 DEF Open, reader
    <2>1. WordTypeOK'
      BY DEF WordTypeOK
    <2>2. SlotWhole'
      BY Parity DEF WordTypeOK, SlotWhole
    <2>3. ReadWhole'
      BY DEF WordTypeOK, ReadWhole, Undisturbed
    <2> QED BY <2>1, <2>2, <2>3
  <1>2. CASE StoreLow
    <2> USE <1>2 DEF StoreLow, reader
    <2>1. WordTypeOK'
      BY DEF WordTypeOK
    <2>2. SlotWhole'
      BY DEF WordTypeOK, SlotWhole, Even
    <2>3. ReadWhole'
      BY DEF WordTypeOK, SlotWhole, ReadWhole, Undisturbed, Even
    <2> QED BY <2>1, <2>2, <2>3
  <1>3. CASE StoreHigh
    <2> USE <1>3 DEF StoreHigh, reader
    <2>1. WordTypeOK'
      BY DEF WordTypeOK
    <2>2. SlotWhole'
      BY DEF WordTypeOK, SlotWhole, Even
    <2>3. ReadWhole'
      BY DEF WordTypeOK, SlotWhole, ReadWhole, Undisturbed, Even
    <2> QED BY <2>1, <2>2, <2>3
  <1>4. CASE Close
    <2> USE <1>4 DEF Close, reader
    <2>1. WordTypeOK'
      BY DEF WordTypeOK
    <2>2. SlotWhole'
      BY Parity DEF WordTypeOK, SlotWhole
    <2>3. ReadWhole'
      BY DEF WordTypeOK, ReadWhole, Undisturbed
    <2> QED BY <2>1, <2>2, <2>3
  <1> QED BY <1>1, <1>2, <1>3, <1>4 DEF Store

\* The reader keeps it.
LEMMA LoadKeeps == ASSUME WordInv, Load PROVE WordInv'
  <1> USE DEF WordInv, slot, writer
  <1>0. SlotWhole'
    BY DEF SlotWhole, Load, Begin, ReadVersion, ReadLow, ReadHigh, Check, Even
  <1>1. CASE Begin
    <2>1. WordTypeOK'
      BY <1>1 DEF Begin, WordTypeOK
    <2>2. ReadWhole'
      BY <1>1 DEF Begin, ReadWhole, WordTypeOK
    <2> QED BY <1>0, <2>1, <2>2
  <1>2. CASE ReadVersion
    <2>1. WordTypeOK'
      BY <1>2 DEF ReadVersion, WordTypeOK
    <2>2. ReadWhole'
      BY <1>2 DEF ReadVersion, ReadWhole, WordTypeOK
    <2> QED BY <1>0, <2>1, <2>2
  <1>3. CASE ReadLow
    <2>1. WordTypeOK'
      BY <1>3 DEF ReadLow, WordTypeOK
    <2>2. ReadWhole'
      BY <1>3 DEF ReadLow, ReadWhole, WordTypeOK, Undisturbed
    <2> QED BY <1>0, <2>1, <2>2
  <1>4. CASE ReadHigh
    <2>1. WordTypeOK'
      BY <1>4 DEF ReadHigh, WordTypeOK
    <2>2. ReadWhole'
      BY <1>4 DEF ReadHigh, ReadWhole, WordTypeOK, Undisturbed
    <2> QED BY <1>0, <2>1, <2>2
  <1>5. CASE Check
    <2>1. attempt' \in 1 .. ReadAttempts
      <3>1. CASE attempt' = attempt + 1 /\ attempt < ReadAttempts
        BY <3>1 DEF WordTypeOK
      <3>2. CASE attempt' = attempt
        BY <3>2 DEF WordTypeOK
      <3> QED BY <1>5, <3>1, <3>2 DEF Check, Answer, TryAgain
    <2>2. answer' \in [sure : BOOLEAN, value : Halves \X Halves]
      <3>1. <<seenLow, seenHigh>> \in Halves \X Halves
        BY DEF WordTypeOK
      <3>2. answer' = answer \/ \E sure \in BOOLEAN :
                answer' = [sure |-> sure, value |-> <<seenLow, seenHigh>>]
        BY <1>5 DEF Check, Answer, TryAgain
      <3> QED BY <3>1, <3>2 DEF WordTypeOK
    <2>3. reading' \in {"idle", "version"}
      BY <1>5 DEF Check, Answer, TryAgain
    <2>4. WordTypeOK'
      BY <1>5, <2>1, <2>2, <2>3 DEF Check, WordTypeOK
    <2>5. ReadWhole'
      BY <1>5 DEF Check, Answer, TryAgain, ReadWhole, WordTypeOK
    <2> QED BY <1>0, <2>4, <2>5
  <1> QED BY <1>1, <1>2, <1>3, <1>4, <1>5 DEF Load

\* A slot is never torn behind an even version, and a reader holds two halves of one
\* value when it has met no store.
THEOREM SlotInvariant == WordSpec => []WordInv
  <1>1. WordInv /\ UNCHANGED wordVars => WordInv'
    BY DEF WordInv, WordTypeOK, SlotWhole, ReadWhole, Undisturbed, Even, wordVars, slot, writer, reader
  <1>2. WordInv /\ [WordNext]_wordVars => WordInv'
    BY <1>1, StoreKeeps, LoadKeeps DEF WordNext
  <1> QED BY WordBegins, <1>2, PTL DEF WordSpec

\* Every step of a store or of a load is a step of the register, or none.
LEMMA StepRefines == ASSUME WordInv, [WordNext]_wordVars PROVE [Abstract!Next]_<<stored, answer>>
  <1> USE DEF WordInv
  <1>1. CASE Close
    BY <1>1 DEF Close, WordTypeOK, reader, Abstract!Next, Abstract!Store
  <1>2. CASE Check
    <2>1. CASE Undisturbed
      <3>1. Even(version)
        BY <2>1 DEF Undisturbed
      <3>2. <<seenLow, seenHigh>> = stored
        BY <1>2, <2>1, <3>1 DEF Check, SlotWhole, ReadWhole
      <3> QED
        BY <1>2, <2>1, <3>2 DEF Check, Answer, writer, Abstract!Next, Abstract!Load
    <2>2. CASE ~Undisturbed /\ attempt < ReadAttempts
      BY <1>2, <2>2 DEF Check, TryAgain, writer
    <2>3. CASE ~Undisturbed /\ ~(attempt < ReadAttempts)
      <3>1. answer' \in Abstract!Answers /\ ~answer'.sure
        <4>1. <<seenLow, seenHigh>> \in Halves \X Halves
          BY DEF WordTypeOK
        <4>2. answer' = [sure |-> FALSE, value |-> <<seenLow, seenHigh>>]
          BY <1>2, <2>3 DEF Check, Answer
        <4> QED BY <4>1, <4>2 DEF Abstract!Answers
      <3> QED
        BY <1>2, <2>3, <3>1 DEF Check, writer, Abstract!Next, Abstract!GiveUp
    <2> QED BY <2>1, <2>2, <2>3
  <1>3. CASE Open \/ StoreLow \/ StoreHigh
    BY <1>3 DEF Open, StoreLow, StoreHigh, reader
  <1>4. CASE Begin \/ ReadVersion \/ ReadLow \/ ReadHigh
    BY <1>4 DEF Begin, ReadVersion, ReadLow, ReadHigh, writer
  <1>5. CASE UNCHANGED wordVars
    BY <1>5 DEF wordVars, writer, reader
  <1> QED BY <1>1, <1>2, <1>3, <1>4, <1>5 DEF WordNext, Store, Load

\* The slot is a register (SeqlockU64): a load that does not give up answers with the
\* value that was stored last.
THEOREM ImplementsRegister == WordSpec => IsRegister
  <1>1. WordInit => Abstract!Init
    BY DEF WordInit, Abstract!Init
  <1>2. WordInv /\ [WordNext]_wordVars => [Abstract!Next]_<<stored, answer>>
    BY StepRefines
  <1> QED BY <1>1, <1>2, SlotInvariant, PTL DEF WordSpec, IsRegister, Abstract!Spec
================================================================================
