-------------------------- MODULE RemoteClipboard --------------------------
(***************************************************************************)
(* core/remote_control.cpp, inject_text: a phone's text is typed through   *)
(* the clipboard.  The connection thread saves the clipboard, puts the     *)
(* text there and sends Ctrl-V; the target application reads the paste in  *)
(* its own time; a detached thread puts the saved text back 400 ms later.  *)
(* Each access may fail: another application holds the clipboard, or memory *)
(* is short; and the user may copy something at any time.                  *)
(***************************************************************************)
EXTENDS Naturals, Sequences

CONSTANTS Text,       \* texts the phone sends, each once
          Copy        \* what the user copies on the host

Empty == "empty"
Content == Text \cup Copy \cup {Empty}

ASSUME ClipParameters ==
    Text \cap Copy = {} /\ Empty \notin Text \cup Copy

VARIABLES
    clipboard,  \* the clipboard's text
    owned,      \* what the user copied last
    typing, text,   \* inject_text: "idle", "save", "set", "paste", "spawn"; its argument
    prev,       \* its saved text; Empty: had_prev is false, or it has returned
    sent,       \* texts the phone has sent
    pastes,     \* Ctrl-V the target has not handled yet, each with its text
    restores,   \* detached threads: the texts they will put back, and for whom
    due,        \* of those, the ones whose Sleep(400) is over
    (* Histories, since the user's last copy with no text under way:         *)
    typed,      \* what the target got for the last paste: {<< text, content >>}
    hindered,   \* saving, or putting back, failed, or a failure emptied the clipboard
    mixed,      \* texts that another text, or a copy, came between
    slow        \* texts the target had not read when the 400 ms were over

histories == << typed, hindered, mixed, slow >>
clipVars == << clipboard, owned, typing, text, prev, sent, pastes, restores, due, histories >>

ClipTypeOK ==
    /\ clipboard \in Content /\ owned \in Copy \cup {Empty} /\ hindered \in BOOLEAN
    /\ typing \in {"idle", "save", "set", "paste", "spawn"}
    /\ text \in Content /\ prev \in Content
    /\ sent \subseteq Text
    /\ pastes \in Seq(Text)
    /\ typed \subseteq Text \X Content /\ mixed \subseteq Text /\ slow \subseteq Text
    /\ restores \subseteq Text \X (Content \ {Empty}) /\ due \subseteq Text

ClipInit ==
    /\ clipboard = Empty /\ owned = Empty /\ hindered = FALSE
    /\ typing = "idle" /\ text = Empty /\ prev = Empty
    /\ sent = {} /\ pastes = << >> /\ restores = {} /\ due = {}
    /\ typed = {} /\ mixed = {} /\ slow = {}

InUse == typing # "idle" \/ restores # {} \/ pastes # << >>

InQueue(t) == \E i \in DOMAIN pastes : pastes[i] = t

\* The texts that are not through.
Pending == { t \in Text : InQueue(t) \/ \E r \in restores : r[1] = t }

\* handle_message, type "text".  One inject_text runs at a time: what a second
\* one could do to the first, the restore thread and the target do already.
Receive(t) ==
    /\ typing = "idle" /\ t \notin sent
    /\ mixed' = IF InUse THEN mixed \cup Pending \cup {t} ELSE mixed
    /\ typing' = "save" /\ text' = t /\ sent' = sent \cup {t}
    /\ UNCHANGED << clipboard, owned, hindered, prev, pastes, typed, restores, due, slow >>

Saved_Nothing == Empty                       \* mutant: the clipboard is not saved
Saved == clipboard

\* GetClipboardData; nothing, when another application holds the clipboard.
Save ==
    /\ typing = "save" /\ typing' = "set"
    /\ \/ prev' = Saved /\ UNCHANGED hindered
       \/ prev' = Empty /\ hindered' = TRUE
    /\ UNCHANGED << clipboard, owned, text, sent, pastes, typed, restores, due, mixed, slow >>

\* set_clipboard_text fails: the clipboard is held by another application or
\* memory is short; or it was emptied, and then SetClipboardData failed.
SetFails == UNCHANGED clipboard \/ clipboard' = Empty

\* set_clipboard_text(w); when it fails, inject_text returns.
Set ==
    /\ typing = "set"
    /\ \/ clipboard' = text /\ typing' = "paste" /\ UNCHANGED << hindered, prev >>
       \/ /\ SetFails /\ typing' = "idle" /\ prev' = Empty
          /\ hindered' = (hindered \/ clipboard' # clipboard)
    /\ UNCHANGED << owned, text, sent, pastes, typed, restores, due, mixed, slow >>

PressCtrlV ==
    /\ typing = "paste" /\ typing' = "spawn"
    /\ pastes' = Append(pastes, text)
    /\ UNCHANGED << clipboard, owned, text, prev, sent, restores, due, histories >>

Kept == prev # Empty

\* The detached thread, if there is something to put back.
Spawn ==
    /\ typing = "spawn" /\ typing' = "idle" /\ prev' = Empty
    /\ restores' = IF Kept THEN restores \cup {<< text, prev >>} ELSE restores
    /\ UNCHANGED << clipboard, owned, text, sent, pastes, due, histories >>

\* The target handles its oldest Ctrl-V.
TargetReads ==
    /\ pastes # << >>
    /\ typed' = {<< Head(pastes), clipboard >>}
    /\ pastes' = Tail(pastes)
    /\ UNCHANGED << clipboard, owned, hindered, typing, text, prev, sent, restores, due, mixed, slow >>

\* 400 ms are over; the target may have read that thread's paste, or not.
SleepEnds(r) ==
    /\ r \in restores /\ r[1] \notin due
    /\ due' = due \cup {r[1]}
    /\ slow' = IF InQueue(r[1]) THEN slow \cup {r[1]} ELSE slow
    /\ UNCHANGED << clipboard, owned, hindered, typing, text, prev, sent, pastes, typed, restores,
                    mixed >>

Waits_Not(r) == TRUE                         \* mutant: no Sleep(400)
Waits(r) == r[1] \in due

\* After Sleep(400): set_clipboard_text(prev), or its failure.
Restore(r) ==
    /\ r \in restores /\ Waits(r)
    /\ \/ clipboard' = r[2] /\ UNCHANGED hindered
       \/ SetFails /\ hindered' = TRUE
    /\ restores' = restores \ {r} /\ due' = due \ {r[1]}
    /\ UNCHANGED << owned, typing, text, prev, sent, pastes, typed, mixed, slow >>

\* The texts a copy made now would come between: inject_text has saved the
\* clipboard already, or is not through with an earlier text.
Underway == Pending \cup IF typing \in {"set", "paste", "spawn"} THEN {text} ELSE {}

\* The user copies something, while a text is under way or not.
UserCopies(c) ==
    /\ clipboard' = c /\ owned' = c
    /\ IF InUse THEN mixed' = mixed \cup Underway /\ UNCHANGED << typed, hindered, slow >>
                ELSE typed' = {} /\ hindered' = FALSE /\ mixed' = {} /\ slow' = {}
    /\ UNCHANGED << typing, text, prev, sent, pastes, restores, due >>

ClipNext ==
    \/ Save \/ Set \/ PressCtrlV \/ Spawn \/ TargetReads
    \/ \E t \in Text : Receive(t)
    \/ \E r \in restores : SleepEnds(r) \/ Restore(r)
    \/ \E c \in Copy : UserCopies(c)

ClipSpec == ClipInit /\ [][ClipNext]_clipVars

-----------------------------------------------------------------------------

\* "A paste inserts the literal characters" (inject_text): the target gets
\* the text the phone sent, and nothing that was on the clipboard before,
\* unless another text or a copy came before this one was through, or the
\* target took longer than 400 ms ("once the target has had time to read").
TypedAsSent == \A p \in typed : p[1] \notin mixed \cup slow => p[1] = p[2]

\* "The previous clipboard text is restored shortly after the paste reads it"
\* (inject_text): at rest, a user who had copied something still has it, if
\* no access to the clipboard failed in saving it, replacing it or putting it
\* back.
CopySurvives == ~InUse /\ owned # Empty /\ ~hindered => clipboard = owned

\* The same, as long as each text was through before the next one was sent or
\* the next copy was made; how slow the target is does not matter.
ClipboardComesBack == mixed = {} => CopySurvives
=============================================================================
