------------------------- MODULE RemoteInput_proofs -------------------------
(***************************************************************************)
(* Proofs about RemoteInput for any number of sessions, buttons and texts. *)
(***************************************************************************)
EXTENDS RemoteInput, TLAPS

\* The one thread that may be injecting.
Active(t) == IF t = Ui THEN ui = "lifting" ELSE sess[t] \in {"open", "closing"}

OneActive ==
    /\ \A t, u \in Thread : Active(t) /\ Active(u) => t = u
    /\ \A t \in Thread : ~Active(t) => at[t] = "idle"
    /\ ui \in {"lifting", "stopped"} => \A c \in Conn : Gone(c)

\* button_down and the operating system differ only for a SendInput in flight.
Agree ==
    /\ \A i \in Button : os_down[i] = button_down[i] \/ \E t \in Thread : at[t] = "send" /\ b[t] = i
    /\ \A t \in Thread : at[t] = "send" => button_down[b[t]] = down[t]

\* A lifting thread leaves every button it has passed up.
Lifts ==
    \A t \in Thread :
        IF Active(t) /\ Lifting(t)
        THEN /\ at[t] # "idle" /\ (at[t] = "send" => ~down[t])
             /\ \A i \in Button : i < b[t] => ~button_down[i]
        ELSE at[t] \in {"idle", "send"}

\* Somebody is there for every held button, and the page agrees with it.
Held ==
    /\ (\A t \in Thread : ~Active(t)) => \A i \in Button : ~button_down[i]
    /\ \A c \in Conn : finger[c] = IF sess[c] = "open" THEN {i \in Button : button_down[i]} ELSE {}

Inv == Types /\ OneActive /\ Agree /\ Lifts /\ Held

\* What holds also when sessions overlap: a thread injects only in its session
\* and lifts only at its end, and a page that is gone holds nothing.
Always ==
    /\ Types
    /\ \A t \in Thread :
          (~Active(t) => at[t] = "idle") /\ (at[t] \in {"load", "store"} => Lifting(t))
    /\ \A c \in Conn : sess[c] # "open" => finger[c] = {}

ButtonInv == Always /\ crossed \in BOOLEAN /\ (~crossed => Inv)

USE Parameters DEF Inv, Always, Types, OneActive, Agree, Lifts, Held, Active, Lifting, Gone, Thread, Button,
    inject

LEMMA InitInv == Init => Inv /\ Always
<1> SUFFICES ASSUME Init PROVE Inv /\ Always
  OBVIOUS
<1> USE DEF Init
<1>1. Types
  OBVIOUS
<1>2. \A t \in Thread : ~Active(t) /\ at[t] = "idle"
  OBVIOUS
<1>3. OneActive /\ Agree /\ Lifts
  BY <1>2
<1>4. Held
  OBVIOUS
<1> QED
  BY <1>1, <1>3, <1>4

\* The turn of release_held_buttons's loop, or its end, for any thread in it.
LEMMA NextButtonAlways ==
  ASSUME Always, NEW t \in Thread, Lifting(t), NextButton(t), UNCHANGED << down, finger, shut, button_down >>,
         os_down' \in [Button -> BOOLEAN]
  PROVE  Always'
<1> USE DEF NextButton, Buttons
<1>1. CASE b[t] + 1 < Count
  <2>1. /\ b' = [b EXCEPT ![t] = b[t] + 1] /\ b[t] + 1 \in Button
        /\ at' = [at EXCEPT ![t] = "load"] /\ UNCHANGED << sess, ui >>
    BY <1>1
  <2> HIDE DEF NextButton
  <2> QED
    BY <2>1
<1>2. CASE ~(b[t] + 1 < Count)
  <2>1. /\ at' = [at EXCEPT ![t] = "idle"] /\ b' = b
        /\ IF t = Ui THEN ui' = "stopped" /\ sess' = sess
                     ELSE sess' = [sess EXCEPT ![t] = "closed"] /\ ui' = ui
    BY <1>2
  <2> HIDE DEF NextButton
  <2>2. CASE t = Ui
    BY <2>1, <2>2
  <2>3. CASE t \in Conn
    <3>1. sess' = [sess EXCEPT ![t] = "closed"] /\ ui' = ui
      BY <2>1, <2>3
    <3>2. sess' \in [Conn -> {"new", "open", "closing", "closed"}]
      BY <3>1
    <3>3. \A u \in Thread : (~Active(u)' => at'[u] = "idle") /\ (at'[u] \in {"load", "store"} => Lifting(u)')
      BY <2>1, <3>1
    <3>4. \A c \in Conn : sess'[c] # "open" => finger'[c] = {}
      BY <2>3, <3>1
    <3> QED
      BY <2>1, <3>1, <3>2, <3>3, <3>4
  <2> QED
    BY <2>2, <2>3
<1> QED
  BY <1>1, <1>2

LEMMA NextAlways == Always /\ [Next]_vars => Always'
<1> SUFFICES ASSUME Always, [Next]_vars PROVE Always'
  OBVIOUS
<1>1. ASSUME NEW t \in Thread, ReleaseLoad(t) PROVE Always'
  <2> USE <1>1 DEF ReleaseLoad
  <2>1. Lifting(t) /\ b[t] \in Button /\ os_down' \in [Button -> BOOLEAN]
    OBVIOUS
  <2>2. CASE button_down[b[t]]
    BY <2>1, <2>2
  <2>3. CASE ~button_down[b[t]]
    BY <2>1, <2>3, NextButtonAlways
  <2> QED
    BY <2>2, <2>3
<1>2. ASSUME NEW t \in Thread, ReleaseStore(t) PROVE Always'
  <2> USE <1>2 DEF ReleaseStore, Store
  <2>1. Active(t) /\ b[t] \in Button
    OBVIOUS
  <2>2. button_down' \in [Button -> BOOLEAN] /\ down' \in [Thread -> BOOLEAN]
    BY <2>1
  <2>3. at' \in [Thread -> {"idle", "load", "store", "send"}] /\ b' \in [Thread -> Button]
    BY <2>1
  <2> QED
    BY <2>1, <2>2, <2>3
<1>3. ASSUME NEW t \in Thread, SendInput(t) PROVE Always'
  <2> USE <1>3 DEF SendInput, Sent
  <2>1. Active(t) /\ os_down' \in [Button -> BOOLEAN]
    OBVIOUS
  <2>2. CASE ~Lifting(t)
    <3>1. at' = [at EXCEPT ![t] = "idle"] /\ UNCHANGED << b, down, sess, ui, shut, button_down, finger >>
      BY <2>2
    <3> QED
      BY <2>1, <3>1
  <2>3. CASE Lifting(t)
    BY <2>1, <2>3, NextButtonAlways
  <2> QED
    BY <2>2, <2>3
<1>4. ASSUME NEW c \in Conn, Open(c) \/ Close(c) \/ \E i \in Button : Press(c, i) PROVE Always'
  <2>1. CASE Open(c)
    BY <2>1 DEF Open
  <2>2. CASE Close(c)
    BY <2>2 DEF Close, StartLifting
  <2>3. ASSUME NEW i \in Button, Press(c, i) PROVE Always'
    <3>1. button_down' \in [Button -> BOOLEAN] /\ down' \in [Thread -> BOOLEAN]
      BY <2>3 DEF Press, Store
    <3>2. at' \in [Thread -> {"idle", "load", "store", "send"}] /\ b' \in [Thread -> Button]
      BY <2>3 DEF Press, Store
    <3>3. finger' \in [Conn -> SUBSET Button]
      BY <2>3 DEF Press
    <3> QED
      BY <2>3, <3>1, <3>2, <3>3 DEF Press, Store
  <2> QED
    BY <1>4, <2>1, <2>2, <2>3
<1>5. ASSUME StopBegins \/ StopReturns PROVE Always'
  BY <1>5 DEF StopBegins, StopReturns, StartLifting
<1>6. CASE UNCHANGED vars
  BY <1>6 DEF vars
<1> QED
  BY <1>1, <1>2, <1>3, <1>4, <1>5, <1>6 DEF Next

\* The lifting thread goes on to the next button, with this one up.
LEMMA NextButtonPreserves ==
  ASSUME Inv, NEW t \in Thread, Active(t), Lifting(t), NextButton(t),
         UNCHANGED << down, shut, finger, button_down >>,
         ~button_down[b[t]],
         os_down' \in [Button -> BOOLEAN],
         \A i \in Button : os_down'[i] = button_down[i]
  PROVE  Inv'
<1> USE DEF NextButton, Buttons
<1>1. \A u \in Thread : u # t => ~Active(u) /\ at[u] = "idle" /\ at'[u] = at[u] /\ b'[u] = b[u]
  OBVIOUS
<1>2. CASE b[t] + 1 < Count
  <2>1. /\ b' = [b EXCEPT ![t] = b[t] + 1] /\ b[t] + 1 \in Button
        /\ at' = [at EXCEPT ![t] = "load"] /\ UNCHANGED << sess, ui >>
    BY <1>2
  <2>2. \A i \in Button : i < b[t] + 1 => ~button_down[i]
    OBVIOUS
  <2> HIDE DEF NextButton
  <2>3. Types' /\ OneActive'
    BY <2>1
  <2>4. Agree' /\ Lifts' /\ Held'
    BY <2>1, <2>2, <1>1
  <2> QED
    BY <2>3, <2>4
<1>3. CASE ~(b[t] + 1 < Count)
  <2>1. /\ at' = [at EXCEPT ![t] = "idle"] /\ b' = b
        /\ IF t = Ui THEN ui' = "stopped" /\ sess' = sess
                     ELSE sess' = [sess EXCEPT ![t] = "closed"] /\ ui' = ui
    BY <1>3
  <2>2. \A i \in Button : ~button_down[i]
    BY <1>3
  <2> HIDE DEF NextButton
  <2>3. \A u \in Thread : ~Active(u)' /\ at'[u] = "idle"
    <3>1. CASE t = Ui
      BY <2>1, <1>1, <3>1
    <3>2. CASE t \in Conn
      BY <2>1, <1>1, <3>2
    <3> QED
      BY <3>1, <3>2
  <2>4. Types'
    <3>1. CASE t = Ui
      BY <2>1, <3>1
    <3>2. CASE t \in Conn
      <4>1. sess' = [sess EXCEPT ![t] = "closed"] /\ ui' = ui
        BY <2>1, <3>2
      <4> QED
        BY <2>1, <4>1
    <3> QED
      BY <3>1, <3>2
  <2>5. OneActive'
    <3>1. CASE t = Ui
      BY <2>1, <2>3, <3>1
    <3>2. CASE t \in Conn
      BY <2>1, <2>3, <3>2
    <3> QED
      BY <3>1, <3>2
  <2>6. Agree' /\ Lifts'
    BY <2>3, <2>4
  <2>7. Held'
    <3>1. \A c \in Conn : sess[c] # "open" /\ sess'[c] # "open"
      BY <2>3, <1>1
    <3> QED
      BY <2>2, <3>1
  <2> QED
    BY <2>4, <2>5, <2>6, <2>7
<1> QED
  BY <1>2, <1>3

LEMMA ReleasePreserves == \A t \in Thread : Inv /\ (ReleaseLoad(t) \/ ReleaseStore(t)) => Inv'
<1> SUFFICES ASSUME NEW t \in Thread, Inv, ReleaseLoad(t) \/ ReleaseStore(t) PROVE Inv'
  OBVIOUS
<1>1. /\ Active(t) /\ Lifting(t)
      /\ \A u \in Thread : u # t => ~Active(u) /\ at[u] = "idle"
  BY DEF ReleaseLoad, ReleaseStore
<1>2. \A i \in Button : at[t] # "send" => os_down[i] = button_down[i]
  BY <1>1
<1>3. CASE ReleaseLoad(t) /\ button_down[b[t]]
  BY <1>1, <1>3 DEF ReleaseLoad
<1>4. CASE ReleaseLoad(t) /\ ~button_down[b[t]]
  BY <1>1, <1>2, <1>4, NextButtonPreserves DEF ReleaseLoad
<1>5. CASE ReleaseStore(t)
  BY <1>1, <1>2, <1>5 DEF ReleaseStore, Store
<1> QED
  BY <1>3, <1>4, <1>5

LEMMA SendPreserves == \A t \in Thread : Inv /\ SendInput(t) => Inv'
<1> SUFFICES ASSUME NEW t \in Thread, Inv, SendInput(t) PROVE Inv'
  OBVIOUS
<1> USE DEF SendInput, Sent
<1>1. Active(t) /\ \A u \in Thread : u # t => ~Active(u) /\ at[u] = "idle"
  OBVIOUS
<1>2. /\ os_down' = [os_down EXCEPT ![b[t]] = down[t]]
      /\ \A i \in Button : os_down'[i] = button_down[i]
      /\ os_down' \in [Button -> BOOLEAN]
  BY <1>1
<1>3. CASE Lifting(t)
  <2>1. ~button_down[b[t]]
    BY <1>1, <1>3
  <2> QED
    BY <1>1, <1>2, <1>3, <2>1, NextButtonPreserves
<1>4. CASE ~Lifting(t)
  BY <1>1, <1>2, <1>4
<1> QED
  BY <1>3, <1>4

\* A session that finds nobody there finds every button up, or starts anew
\* when they are.
LEMMA OpenPreserves == \A c \in Conn : ButtonInv /\ Open(c) => (~crossed' => Inv')
<1> SUFFICES ASSUME NEW c \in Conn, ButtonInv, Open(c), ~crossed' PROVE Inv'
  OBVIOUS
<1> USE DEF ButtonInv, Open
<1>1. \A t \in Thread : ~Active(t) /\ at[t] = "idle"
  OBVIOUS
<1>2. AllUp
  BY <1>1 DEF AllUp
<1>3. Types' /\ OneActive' /\ Agree' /\ Lifts'
  BY <1>1, <1>2 DEF AllUp
<1>4. Held'
  BY <1>1, <1>2 DEF AllUp
<1> QED
  BY <1>3, <1>4

LEMMA SessionPreserves ==
  Inv /\ (\E c \in Conn : Close(c) \/ \E i \in Button : Press(c, i)) => Inv'
<1> SUFFICES ASSUME Inv, NEW c \in Conn, Close(c) \/ \E i \in Button : Press(c, i)
             PROVE  Inv'
  OBVIOUS
<1>2. CASE Close(c)
  <2> USE DEF Close, StartLifting
  <2>1. \A u \in Thread : u # c => ~Active(u) /\ at[u] = "idle" /\ ~Active(u)' /\ at'[u] = "idle"
    BY <1>2
  <2>2. Types' /\ OneActive'
    BY <1>2, <2>1
  <2>3. Agree'
    BY <1>2, <2>1
  <2>4. Lifts'
    BY <1>2, <2>1
  <2>5. \A d \in Conn : sess'[d] # "open" /\ finger'[d] = {}
    BY <1>2, <2>1
  <2>6. Active(c)'
    BY <1>2
  <2> QED
    BY <2>2, <2>3, <2>4, <2>5, <2>6
<1>3. ASSUME NEW i \in Button, Press(c, i) PROVE Inv'
  <2> USE DEF Press, Store
  <2>1. \A u \in Thread : u # c => ~Active(u) /\ at[u] = "idle"
    BY <1>3
  <2>2. \A j \in Button : os_down[j] = button_down[j]
    BY <1>3, <2>1
  <2>3. Types' /\ OneActive' /\ Lifts'
    BY <1>3, <2>1
  <2>4. Agree'
    BY <1>3, <2>1, <2>2
  <2>5. Held'
    <3>1. \A d \in Conn : d # c => sess[d] # "open"
      BY <2>1
    <3>2. finger'[c] = {j \in Button : button_down'[j]}
      <4>1. finger[c] = {j \in Button : button_down[j]}
        BY <1>3
      <4>2. \A j \in Button : button_down'[j] = IF j = i THEN i \notin finger[c] ELSE button_down[j]
        BY <1>3
      <4> HIDE DEF Types, OneActive, Agree, Lifts, Held
      <4>3. CASE i \in finger[c] /\ finger'[c] = finger[c] \ {i}
        BY <4>1, <4>2, <4>3
      <4>4. CASE i \notin finger[c] /\ finger'[c] = finger[c] \cup {i}
        BY <4>1, <4>2, <4>4
      <4>5. finger'[c] = IF i \in finger[c] THEN finger[c] \ {i} ELSE finger[c] \cup {i}
        BY <1>3 DEF Types
      <4> QED
        BY <4>3, <4>4, <4>5
    <3>3. \A d \in Conn : finger'[d] = IF sess'[d] = "open" THEN {j \in Button : button_down'[j]} ELSE {}
      BY <1>3, <3>1, <3>2, ZenonT(60)
    <3>4. Active(c)'
      BY <1>3
    <3> QED
      BY <3>3, <3>4
  <2> QED
    BY <2>3, <2>4, <2>5
<1> QED
  BY <1>2, <1>3

LEMMA StopPreserves == Inv /\ (StopBegins \/ StopReturns) => Inv'
<1>1. Inv /\ StopBegins => Inv'
  BY DEF StopBegins
<1>2. ASSUME Inv, StopReturns PROVE Inv'
  <2> USE <1>2 DEF StopReturns, StartLifting
  <2>1. \A t \in Thread : ~Active(t) /\ at[t] = "idle"
    OBVIOUS
  <2>2. \A c \in Conn : ~Active(c)' /\ at'[c] = "idle"
    BY <2>1
  <2>3. Types' /\ OneActive'
    BY <2>1, <2>2
  <2>4. Agree' /\ Held'
    BY <2>1, <2>2
  <2>5. Lifts'
    BY <2>1, <2>2
  <2> QED
    BY <2>3, <2>4, <2>5
<1> QED
  BY <1>1, <1>2

LEMMA NextInv == ButtonInv /\ [Next]_vars => ButtonInv'
<1> HIDE DEF Inv, Always
<1>a. ButtonInv /\ [Next]_vars => crossed' \in BOOLEAN
  BY Zenon DEF ButtonInv, Next, vars, ReleaseLoad, ReleaseStore, SendInput, StopBegins, StopReturns,
      Open, Close, Press
<1> SUFFICES ASSUME ButtonInv, [Next]_vars, ~crossed' PROVE Inv'
  BY <1>a, NextAlways DEF ButtonInv
<1>1. CASE \E c \in Conn : Open(c)
  BY <1>1, OpenPreserves
<1>2. CASE UNCHANGED vars
  BY <1>2 DEF ButtonInv, Inv, vars
<1>3. CASE \E t \in Thread : ReleaseLoad(t) \/ ReleaseStore(t) \/ SendInput(t)
  <2>1. ~crossed
    BY <1>3 DEF ReleaseLoad, ReleaseStore, SendInput
  <2> QED
    BY <1>3, <2>1, ReleasePreserves, SendPreserves DEF ButtonInv
<1>4. CASE (\E c \in Conn : Close(c) \/ \E i \in Button : Press(c, i)) \/ StopBegins \/ StopReturns
  <2>1. ~crossed
    BY <1>4 DEF Close, Press, StopBegins, StopReturns
  <2> QED
    BY <1>4, <2>1, SessionPreserves, StopPreserves DEF ButtonInv
<1> QED
  BY <1>1, <1>2, <1>3, <1>4 DEF Next

\* No mouse button is left down when the phone is gone, whenever it left, and no
\* drag is cut short while it is there, also while texts are typed in between,
\* unless sessions overlapped since every button was up with nobody there.
THEOREM NoButtonStuck == InputSpec => [](TypeOK /\ NothingStuck /\ DragHolds)
<1>1. InputInit => ButtonInv
  BY InitInv DEF InputInit, ButtonInv, Init
<1>2. [InputNext]_inputVars => [Next]_vars
  <2>1. CASE ButtonStep
    BY <2>1, Zenon DEF ButtonStep
  <2>2. CASE (\E c \in Conn : TextStep(c)) \/ TypingStep \/ ElsewhereStep
    BY <2>2, Zenon DEF TextStep, TypingStep, ElsewhereStep
  <2>3. CASE UNCHANGED inputVars
    BY <2>3 DEF inputVars
  <2> QED BY <2>1, <2>2, <2>3 DEF InputNext
<1>3. ButtonInv /\ [InputNext]_inputVars => ButtonInv'
  BY <1>2, NextInv
<1>4. ButtonInv => TypeOK /\ NothingStuck /\ DragHolds
  <2> SUFFICES ASSUME ButtonInv PROVE TypeOK /\ NothingStuck /\ DragHolds
    OBVIOUS
  <2>1. TypeOK
    BY Zenon DEF ButtonInv, TypeOK
  <2>2. NothingStuck
    BY DEF ButtonInv, NothingStuck
  <2>3. ASSUME NEW c \in Conn, ~crossed, sess[c] = "open", at[c] = "idle"
        PROVE  finger[c] = {i \in Button : os_down[i]}
    <3>1. \A t \in Thread : at[t] = "idle"
      BY <2>3 DEF ButtonInv
    <3>2. \A i \in Button : os_down[i] = button_down[i]
      BY <2>3, <3>1 DEF ButtonInv
    <3> QED BY <2>3, <3>2 DEF ButtonInv
  <2> QED BY <2>1, <2>2, <2>3 DEF DragHolds
<1> QED
  BY <1>1, <1>3, <1>4, PTL DEF InputSpec

-----------------------------------------------------------------------------
(* The clipboard                                                           *)

\* What the user should have back: nothing went wrong since the last copy.
Owed == owned # Empty /\ ~hindered /\ mixed = {}

\* A text that comes alone is the only paste on its way, and the clipboard
\* holds it until the target reads it or the 400 ms are over.  One that does
\* not is mixed, and so are those it came between.
PasteInv ==
    /\ text \notin mixed /\ pastes # << >> =>
          pastes = << text >> /\ typing \in {"spawn", "idle"}
    /\ text \notin mixed \cup slow /\ pastes # << >> => clipboard = text
    /\ text \notin mixed /\ pastes # << >> /\ text \in due => text \in slow
    /\ text \notin mixed /\ typing \in {"paste", "spawn"} => clipboard = text
    /\ text \notin mixed /\ typing # "idle" => restores = {}
    /\ text \in mixed => \A i \in DOMAIN pastes : pastes[i] \in mixed
    /\ \A t \in due : \E r \in restores : r[1] = t
    /\ typing # "idle" \/ pastes # << >> => text \in Text
    /\ mixed \cup slow \subseteq sent
    /\ \A i \in DOMAIN pastes : pastes[i] \in sent
    /\ \A r \in restores : r[1] \in sent
    /\ typing # "idle" => text \in sent

\* The user's copy is on the clipboard, saved, or waiting to be put back.
ReturnInv ==
    /\ Owed /\ typing \in {"save", "set"} => clipboard = owned
    /\ Owed /\ typing \in {"set", "paste", "spawn"} => prev = owned
    /\ Owed /\ typing = "idle" /\ restores = {} => clipboard = owned
    /\ \A r \in restores : (text \notin mixed => r[1] = text) /\ (Owed => r[2] = owned)

HIDE Parameters DEF Inv, Always, Types, OneActive, Agree, Lifts, Held, Active, Lifting, Gone, Thread, Button,
    inject

ClipInv == ClipTypeOK /\ PasteInv /\ ReturnInv /\ TypedAsSent

LEMMA ClipInitInv == ClipInit => ClipInv
<1> SUFFICES ASSUME ClipInit PROVE ClipInv
  OBVIOUS
<1>1. ClipTypeOK
  <2>1. << >> \in Seq(Text) /\ {} \subseteq Text \X (Content \ {Empty}) /\ {} \subseteq Text \X Content
    OBVIOUS
  <2>2. Empty \in Content
    BY DEF Content
  <2> QED
    BY <2>1, <2>2 DEF ClipInit, ClipTypeOK
<1>2. PasteInv /\ ReturnInv /\ TypedAsSent
  BY DEF ClipInit, PasteInv, ReturnInv, Owed, TypedAsSent
<1> QED
  BY <1>1, <1>2 DEF ClipInv

LEMMA ClipNextInv == ClipInv /\ [ClipNext]_clipVars => ClipInv'
<1> SUFFICES ASSUME ClipInv, [ClipNext]_clipVars PROVE ClipInv'
  OBVIOUS
<1> USE ClipParameters DEF ClipInv, ClipTypeOK, PasteInv, ReturnInv, Owed, TypedAsSent, Content
<1>1. ASSUME NEW t \in Text, Receive(t) PROVE ClipInv'
  <2> USE <1>1 DEF Receive
  <2>1. ClipTypeOK'
    <3>1. mixed' \subseteq Text
      BY DEF Pending
    <3> QED
      BY <3>1
  <2>2. mixed' \cup slow' \subseteq sent' /\ text' \in Text /\ typing' = "save" /\ text' \notin slow'
    <3>1. Pending \subseteq sent
      BY DEF Pending, InQueue
    <3> QED
      BY <3>1
  <2>3. CASE InUse
    <3>1. text' \in mixed'
      BY <2>3
    <3>2. \A i \in DOMAIN pastes' : pastes'[i] \in mixed'
      BY <2>3 DEF Pending, InQueue
    <3>3. mixed \subseteq mixed'
      BY <2>3
    <3> QED
      BY <2>1, <2>2, <3>1, <3>2, <3>3
  <2>4. CASE ~InUse
    <3>1. due' = {} /\ restores' = {} /\ pastes' = << >> /\ text' \notin mixed'
      BY <2>4 DEF InUse
    <3> QED
      BY <2>1, <2>2, <2>4, <3>1 DEF InUse
  <2> QED
    BY <2>3, <2>4
<1>2. ASSUME Save PROVE ClipInv'
  BY <1>2 DEF Save, Saved
<1>3. ASSUME Set PROVE ClipInv'
  <2>1. UNCHANGED << owned, text, sent, pastes, typed, restores, due, mixed, slow >> /\ typing = "set"
    BY <1>3 DEF Set
  <2>2. CASE clipboard' = text /\ typing' = "paste" /\ hindered' = hindered /\ prev' = prev
    BY <2>1, <2>2
  <2>3. CASE clipboard' \in {clipboard, Empty} /\ typing' = "idle" /\ prev' = Empty
             /\ hindered' = (hindered \/ clipboard' # clipboard)
    <3>1. ClipTypeOK' /\ TypedAsSent'
      BY <2>1, <2>3
    <3>2. text \notin mixed => pastes = << >>
      BY <2>1
    <3>3. PasteInv'
      BY <2>1, <2>3, <3>2
    <3>4. ReturnInv'
      BY <2>1, <2>3
    <3> QED
      BY <3>1, <3>3, <3>4
  <2> QED
    BY <1>3, <2>2, <2>3 DEF Set, SetFails
<1>4. ASSUME PressCtrlV PROVE ClipInv'
  <2>1. /\ text \in Text /\ pastes' = Append(pastes, text) /\ pastes' \in Seq(Text)
        /\ typing = "paste" /\ typing' = "spawn"
        /\ UNCHANGED << clipboard, owned, text, prev, sent, restores, due, typed, hindered, mixed, slow >>
    BY <1>4 DEF PressCtrlV, histories
  <2>2. ClipTypeOK' /\ TypedAsSent' /\ ReturnInv'
    BY <2>1
  <2>3. \A i \in DOMAIN pastes' : pastes'[i] \in sent' /\ (text \in mixed => pastes'[i] \in mixed)
    BY <2>1
  <2>4. CASE text \in mixed
    BY <2>1, <2>2, <2>3, <2>4
  <2>5. CASE text \notin mixed
    <3>1. pastes = << >> /\ restores = {} /\ due = {} /\ clipboard = text
      BY <2>1, <2>5
    <3>2. pastes' = << text >>
      BY <2>1, <3>1
    <3> QED
      BY <2>1, <2>2, <2>3, <2>5, <3>1, <3>2
  <2> QED
    BY <2>4, <2>5
<1>5. ASSUME Spawn PROVE ClipInv'
  <2>1. /\ text \in Text /\ typing = "spawn" /\ typing' = "idle" /\ prev' = Empty
        /\ restores' = IF prev # Empty THEN restores \cup {<< text, prev >>} ELSE restores
        /\ UNCHANGED << clipboard, owned, text, sent, pastes, due, typed, hindered, mixed, slow >>
    BY <1>5 DEF Spawn, Kept, histories
  <2>2. restores' \subseteq Text \X (Content \ {Empty})
    BY <2>1
  <2>3. ReturnInv'
    <3>1. CASE text \in mixed
      BY <2>1, <3>1
    <3>2. CASE text \notin mixed
      <4>1. \A r \in restores' : r[1] = text /\ r[2] = prev
        BY <2>1, <3>2
      <4>2. Owed => prev = owned /\ restores' # {}
        BY <2>1, <3>2
      <4> QED
        BY <2>1, <4>1, <4>2
    <3> QED
      BY <3>1, <3>2
  <2>4. PasteInv'
    <3>1. \A r \in restores' : r[1] \in sent'
      BY <2>1
    <3>2. \A t \in due' : \E r \in restores' : r[1] = t
      BY <2>1
    <3> QED
      BY <2>1, <3>1, <3>2
  <2> QED
    BY <2>1, <2>2, <2>3, <2>4
<1>6. ASSUME TargetReads PROVE ClipInv'
  <2>1. /\ pastes # << >> /\ text \in Text /\ Head(pastes) \in Text /\ pastes' = Tail(pastes)
        /\ pastes' \in Seq(Text) /\ typed' = {<< Head(pastes), clipboard >>}
        /\ UNCHANGED << clipboard, owned, hindered, typing, text, prev, sent, restores, due, mixed, slow >>
    BY <1>6 DEF TargetReads
  <2>2. ClipTypeOK' /\ ReturnInv'
    BY <2>1
  <2>3. \A i \in DOMAIN pastes' : pastes'[i] \in sent
    BY <2>1
  <2>4. CASE text \in mixed
    <3>1. Head(pastes) \in mixed
      BY <2>1, <2>4
    <3>2. \A i \in DOMAIN pastes' : pastes'[i] \in mixed
      BY <2>1, <2>4
    <3> QED
      BY <2>1, <2>2, <2>3, <2>4, <3>1, <3>2
  <2>5. CASE text \notin mixed
    <3>1. pastes = << text >> /\ (text \notin slow => clipboard = text)
      BY <2>1, <2>5
    <3>2. Head(pastes) = text /\ Tail(pastes) = << >>
      BY <3>1
    <3> QED
      BY <2>1, <2>2, <2>3, <2>5, <3>1, <3>2
  <2> QED
    BY <2>4, <2>5
<1>7. ASSUME NEW r \in restores, SleepEnds(r) PROVE ClipInv'
  <2>1. /\ r[1] \in Text /\ r[1] \in sent /\ due' = due \cup {r[1]}
        /\ slow' = IF \E i \in DOMAIN pastes : pastes[i] = r[1] THEN slow \cup {r[1]} ELSE slow
        /\ UNCHANGED << clipboard, owned, hindered, typing, text, prev, sent, pastes, typed, restores,
                        mixed >>
    BY <1>7 DEF SleepEnds, InQueue
  <2>2. ClipTypeOK' /\ TypedAsSent' /\ ReturnInv'
    BY <2>1
  <2>3. text \notin mixed /\ pastes # << >> /\ text \in due' => text \in slow'
    <3> SUFFICES ASSUME text \notin mixed, pastes # << >>, text = r[1] PROVE text \in slow'
      BY <2>1
    <3>1. pastes = << text >>
      OBVIOUS
    <3>2. 1 \in DOMAIN pastes /\ pastes[1] = text
      BY <3>1
    <3> QED
      BY <2>1, <3>2
  <2>4. \A t \in due' : \E q \in restores' : q[1] = t
    BY <2>1
  <2> QED
    BY <2>1, <2>2, <2>3, <2>4
<1>8. ASSUME NEW r \in restores, Restore(r) PROVE ClipInv'
  <2>1. /\ ClipTypeOK' /\ UNCHANGED << owned, typing, text, prev, sent, pastes, typed, mixed, slow >>
        /\ restores' = restores \ {r} /\ due' = due \ {r[1]} /\ r[1] \in due
        /\ \/ clipboard' = r[2] /\ hindered' = hindered
           \/ hindered'
    BY <1>8 DEF Restore, Waits, SetFails
  <2>2. \A t \in due' : \E q \in restores' : q[1] = t
    BY <2>1
  <2>3. CASE text \in mixed
    BY <2>1, <2>2, <2>3
  <2>4. CASE text \notin mixed
    <3>1. typing = "idle" /\ r[1] = text /\ (Owed => r[2] = owned)
      BY <1>8, <2>4
    <3>2. pastes # << >> => text \in slow
      BY <2>1, <2>4, <3>1
    <3>3. Owed' => Owed /\ clipboard' = owned
      BY <2>1, <3>1
    <3> QED
      BY <2>1, <2>2, <2>4, <3>1, <3>2, <3>3
  <2> QED
    BY <2>3, <2>4
<1>9. ASSUME NEW c \in Copy, UserCopies(c) PROVE ClipInv'
  <2>1. /\ clipboard' = c /\ owned' = c
        /\ UNCHANGED << typing, text, prev, sent, pastes, restores, due >>
    BY <1>9 DEF UserCopies
  <2>2. CASE ~InUse
    <3>1. typed' = {} /\ hindered' = FALSE /\ mixed' = {} /\ slow' = {}
      BY <1>9, <2>2 DEF UserCopies
    <3> QED
      BY <2>1, <2>2, <3>1 DEF InUse
  <2>3. CASE InUse
    <3>1. mixed' = mixed \cup Underway /\ UNCHANGED << typed, hindered, slow >>
      BY <1>9, <2>3 DEF UserCopies
    <3>2. Pending \subseteq Underway /\ Underway \subseteq Text /\ Underway \subseteq sent
      BY DEF Underway, Pending, InQueue
    <3>3. \A i \in DOMAIN pastes : pastes[i] \in mixed'
      BY <3>1, <3>2 DEF Pending, InQueue
    <3>4. \A q \in restores : q[1] \in mixed'
      BY <3>1, <3>2 DEF Pending
    <3>5. typing \in {"set", "paste", "spawn"} => text \in mixed'
      BY <3>1 DEF Underway
    <3>6. ClipTypeOK' /\ TypedAsSent'
      BY <2>1, <3>1, <3>2
    <3>7. text \notin mixed' => pastes = << >>
      <4> SUFFICES ASSUME text \notin mixed', pastes # << >> PROVE FALSE
        OBVIOUS
      <4>1. text \notin mixed
        BY <3>1
      <4>2. pastes = << text >>
        BY <4>1
      <4> QED
        BY <4>2, <3>3
    <3>8. PasteInv'
      BY <2>1, <3>1, <3>2, <3>3, <3>5, <3>7
    <3>9. typing = "idle" => mixed' # {}
      <4> SUFFICES ASSUME typing = "idle" PROVE mixed' # {}
        OBVIOUS
      <4>1. CASE restores # {}
        BY <3>4, <4>1
      <4>2. CASE pastes # << >>
        BY <3>7, <4>2
      <4> QED
        BY <2>3, <4>1, <4>2 DEF InUse
    <3>10. mixed' = {} => typing = "save" /\ restores = {}
      BY <3>4, <3>5, <3>9
    <3>11. \A q \in restores : text \notin mixed' => q[1] = text
      BY <3>1
    <3>12. ReturnInv'
      BY <2>1, <3>10, <3>11
    <3> QED
      BY <3>6, <3>8, <3>12
  <2> QED
    BY <2>2, <2>3
<1>10. CASE UNCHANGED clipVars
  BY <1>10 DEF clipVars, histories
<1> QED
  BY <1>1, <1>2, <1>3, <1>4, <1>5, <1>6, <1>7, <1>8, <1>9, <1>10 DEF ClipNext

LEMMA TextsInvariant == InputSpec => []ClipInv
<1>1. InputInit => ClipInv
  BY ClipInitInv DEF InputInit
<1>2. [InputNext]_inputVars => [ClipNext]_clipVars
  BY DEF InputNext, inputVars, ButtonStep, TextStep, TypingStep, ElsewhereStep, ClipNext, clipVars, histories
<1>3. ClipInv /\ [InputNext]_inputVars => ClipInv'
  BY <1>2, ClipNextInv
<1> QED
  BY <1>1, <1>3, PTL DEF InputSpec

\* A text that no other text and no copy comes between, and that the target
\* reads within 400 ms, is pasted as the phone sent it, however the target's
\* reads, the detached restores, drops of the session, held clipboards and the
\* user's copies interleave.
THEOREM TextsArePastedAsSent ==
  InputSpec => [](ClipTypeOK /\ TypedAsSent)
<1>1. ClipInv => ClipTypeOK /\ TypedAsSent
  BY DEF ClipInv
<1> QED
  BY <1>1, TextsInvariant, PTL

\* As long as every text was through before the next text or copy, the user
\* has the latest copy back when no text is under way, whatever the target
\* does, unless an access to the clipboard failed in a way that lost it.
THEOREM UsersClipboardComesBack ==
  InputSpec => []ClipboardComesBack
<1>1. ClipInv => ClipboardComesBack
  BY DEF ClipInv, ReturnInv, Owed, ClipboardComesBack, CopySurvives, InUse
<1> QED
  BY <1>1, TextsInvariant, PTL
=============================================================================
