--------------------------- MODULE InputInjection ---------------------------
(***************************************************************************)
(* Keyboard and mouse, from the client's window to the server's desktop:   *)
(* the window procedure (sardp-win/src/display.rs), the InputForwarder of  *)
(* sardp-client.rs, the `input' stream, the InputInjection of              *)
(* sardp-server.rs with the state machines of src/src/input_state.rs, and  *)
(* the injector thread (sardp-win/src/inject.rs, worker_handle.rs) that    *)
(* carries its commands out.                                               *)
(*                                                                         *)
(* The window's channel and the stream are both in order and are one queue *)
(* here, `wire'.  No client of the repository sends an ImeModeChange; the  *)
(* client here may, and then follows the modes it announced.               *)
(***************************************************************************)
EXTENDS Naturals, Sequences, FiniteSets

CONSTANTS
  Keys,            \* physical keys
  CharacterKeys,   \* is_character_key
  ShortcutKeys,    \* the keys behind CTRL, ALT and META
  Buttons,         \* mouse buttons
  NoInput,         \* the input of a message that presses nothing
  HandshakeInput,  \* the input permissions of AuthResult
  MaxLead,         \* how far ahead of the next event a mode change may lie
  MaxEvents,       \* bound on the events of the client
  MaxFlips         \* bound on its mode changes

Inputs == Keys \cup Buttons

ASSUME InputAssumption ==
  /\ IsFiniteSet(Keys) /\ IsFiniteSet(Buttons)
  /\ Keys \cap Buttons = {}
  /\ CharacterKeys \subseteq Keys
  /\ ShortcutKeys \subseteq Keys \ CharacterKeys
  /\ NoInput \notin Inputs
  /\ HandshakeInput \subseteq {"keyboard", "mouse"}
  /\ MaxLead \in Nat /\ MaxEvents \in Nat /\ MaxFlips \in Nat

VARIABLES
  held,       \* what the user holds down
  composing,  \* WindowState.composing
  flips,      \* the mode changes the client announced
  nextId,     \* InputForwarder.next_event_id
  keyed,      \* the last event the client sent that a mode applies to
  reported,   \* InputForwarder.pressed
  wire,       \* messages the server has not read
  stream,     \* the input stream: opened, accepted by the server, ended
  granted,    \* the input bits of the server's PermissionSm
  ime,        \* ImeModeSm
  pressed,    \* InputInjection.pressed
  session,    \* active, over (run_active_session returned), joined (dropped)
  commands,   \* InjectCommands the injector thread has not carried out
  desktop,    \* the keys and buttons that are down on the server's desktop
  clean,      \* history: no event was dropped for want of a permission
  typed,      \* history: characters the user typed
  arrived     \* history: characters passed on to the injector

clientVars == <<held, composing, flips, nextId, keyed, reported>>
serverVars == <<stream, granted, ime, pressed, session>>
vars == <<held, composing, flips, nextId, keyed, reported, wire, stream, granted,
          ime, pressed, session, commands, desktop, clean, typed, arrived>>

-----------------------------------------------------------------------------
(* Messages and commands.  `under' is no field of the wire format: it      *)
(* records the mode the client announced for the event.  `shortcut' says   *)
(* whether modifiers has a bit of CTRL, ALT or META.                       *)
Mode == {"client", "remote"}
Kind == {"key", "text", "composition", "button", "pointer", "mode"}
CarriesInput(m) ==
  CASE m.kind = "key" -> m.input \in Keys
    [] m.kind = "button" -> m.input \in Buttons
    [] OTHER -> m.input = NoInput
Message ==
  {m \in [kind : Kind, id : Nat, input : Inputs \cup {NoInput}, down : BOOLEAN,
          shortcut : BOOLEAN, under : Mode] : CarriesInput(m)}
Command == [kind : {"key", "text", "button", "pointer"},
            input : Inputs \cup {NoInput}, down : BOOLEAN]

Flip == [mode : Mode, after : Nat, settled : BOOLEAN]

(* The mode of an event according to the announcements made before it: the *)
(* latest one whose boundary lies below the event.                         *)
Announced(fs, id) ==
  LET past == {i \in DOMAIN fs : fs[i].after < id}
  IN  IF past = {} THEN "client"
      ELSE fs[CHOOSE i \in past : \A j \in past : j <= i].mode

Event(kind, n, x, down, shortcut) ==
  [kind |-> kind, id |-> nextId + n, input |-> x, down |-> down,
   shortcut |-> shortcut, under |-> Announced(flips, nextId + n)]

Act(kind, x, down) == [kind |-> kind, input |-> x, down |-> down]
KindOf(x) == IF x \in Keys THEN "key" ELSE "button"

(* Some order of a finite set; the code's is the numeric one.              *)
Listing(S) ==
  CHOOSE f \in [1 .. Cardinality(S) -> S] :
    \A x \in S : \E i \in 1 .. Cardinality(S) : f[i] = x

(* Mutant: only the keys are released.                                     *)
TakeReleases_KeysOnly(S) == Listing(S \cap Keys)

(* PressedInputs::take_releases: the buttons, then the keys.               *)
TakeReleases(S) == Listing(S \cap Buttons) \o Listing(S \cap Keys)

(* PressedInputs::on_key, on_button.                                       *)
OnInput(S, x, down) == IF down THEN S \cup {x} ELSE S \ {x}

-----------------------------------------------------------------------------
(* ImeModeSm.                                                              *)
NoMode == [mode |-> "none", after |-> 0]

(* Mutant: the boundary event itself already has the new mode.             *)
Crosses_AtBoundary(m, id) == m.pending # NoMode /\ id >= m.pending.after

Crosses(m, id) == m.pending # NoMode /\ id > m.pending.after

ModeFor(m, id) ==
  IF Crosses(m, id) THEN [current |-> m.pending.mode, pending |-> NoMode]
  ELSE m

(* Mutant: every key is injected, whoever makes the characters.            *)
ShouldInjectKey_Always(mode, k, shortcut) == TRUE

ShouldInjectKey(mode, k, shortcut) ==
  mode = "remote" \/ shortcut \/ k \notin CharacterKeys

-----------------------------------------------------------------------------
Init ==
  /\ held = {} /\ composing = FALSE /\ flips = << >>
  /\ nextId = 1 /\ keyed = 0 /\ reported = {}
  /\ wire = << >> /\ stream = "opened"
  /\ granted = HandshakeInput
  /\ ime = [current |-> "client", pending |-> NoMode]
  /\ pressed = {} /\ session = "active"
  /\ commands = << >> /\ desktop = {}
  /\ clean = TRUE /\ typed = 0 /\ arrived = 0

(* The client is up, and n more events stay within the bound.              *)
Sends(n) ==
  /\ stream # "ended"
  /\ nextId + n <= MaxEvents + 1

Keyboard == "keyboard" \in HandshakeInput
Mouse == "mouse" \in HandshakeInput
Shortcut(h) == h \cap ShortcutKeys # {}

(* WM_KEYDOWN while a composition is in progress: the IME gets the key.    *)
ComposingKey(k, down) ==
  /\ composing
  /\ stream # "ended"
  /\ held' = OnInput(held, k, down) /\ held' # held
  /\ UNCHANGED <<composing, flips, nextId, keyed, reported, wire, serverVars,
                 commands, desktop, clean, typed, arrived>>

(* WM_KEYDOWN and WM_KEYUP of a key that makes no character, and the       *)
(* forwarding of the event.                                                *)
Key(k, down) ==
  LET shortcut == Shortcut(held')
  IN  /\ ~ composing
      /\ Keyboard
      /\ down \/ k \in held
      /\ down => k \notin CharacterKeys \/ Shortcut(held)
      /\ Sends(1)
      /\ held' = OnInput(held, k, down)
      /\ reported' = OnInput(reported, k, down)
      /\ wire' = Append(wire, Event("key", 0, k, down, shortcut))
      /\ nextId' = nextId + 1
      /\ keyed' = nextId
      /\ UNCHANGED <<composing, flips, serverVars, commands, desktop, clean,
                     typed, arrived>>

(* A keystroke that makes a character: WM_KEYDOWN, and while the client    *)
(* composes text (CLIENT_SIDE) the WM_CHAR that follows it.  No mode       *)
(* change lies between the two events.                                     *)
Character(k) ==
  LET key  == Event("key", 0, k, TRUE, FALSE)
      text == Event("text", 1, NoInput, FALSE, FALSE)
  IN  /\ ~ composing
      /\ Keyboard
      /\ ~ Shortcut(held)
      /\ key.under = text.under
      /\ held' = held \cup {k}
      /\ reported' = reported \cup {k}
      /\ typed' = typed + 1
      /\ \/ /\ key.under = "client"
            /\ Sends(2)
            /\ wire' = wire \o <<key, text>>
            /\ nextId' = nextId + 2
            /\ keyed' = nextId + 1
         \/ /\ key.under = "remote"
            /\ Sends(1)
            /\ wire' = Append(wire, key)
            /\ nextId' = nextId + 1
            /\ keyed' = nextId
      /\ UNCHANGED <<composing, flips, serverVars, commands, desktop, clean,
                     arrived>>

(* WM_IME_STARTCOMPOSITION, while the client composes.                     *)
StartComposition ==
  /\ stream # "ended" /\ ~ composing /\ Keyboard
  /\ Announced(flips, nextId) = "client"
  /\ composing' = TRUE
  /\ UNCHANGED <<held, flips, nextId, keyed, reported, wire, serverVars,
                 commands, desktop, clean, typed, arrived>>

(* The result string (WM_CHAR) and WM_IME_ENDCOMPOSITION.                  *)
Commit ==
  LET text == Event("text", 0, NoInput, FALSE, FALSE)
      done == Event("composition", 1, NoInput, FALSE, FALSE)
  IN  /\ composing
      /\ Sends(2)
      /\ text.under = "client" /\ done.under = "client"
      /\ composing' = FALSE
      /\ wire' = wire \o <<text, done>>
      /\ nextId' = nextId + 2
      /\ keyed' = nextId + 1
      /\ typed' = typed + 1
      /\ UNCHANGED <<held, flips, reported, serverVars, commands, desktop,
                     clean, arrived>>

(* WM_IME_COMPOSITION, and the WM_IME_ENDCOMPOSITION of a cancelled one.   *)
Composition(ends) ==
  LET text == Event("composition", 0, NoInput, FALSE, FALSE)
  IN  /\ composing
      /\ Sends(1)
      /\ text.under = "client"
      /\ composing' = ~ ends
      /\ wire' = Append(wire, text)
      /\ nextId' = nextId + 1
      /\ keyed' = nextId
      /\ UNCHANGED <<held, flips, reported, serverVars, commands, desktop,
                     clean, typed, arrived>>

(* MouseButton; MouseMove and Wheel.                                       *)
Button(b, down) ==
  /\ Mouse
  /\ down \/ b \in held
  /\ Sends(1)
  /\ held' = OnInput(held, b, down)
  /\ reported' = OnInput(reported, b, down)
  /\ wire' = Append(wire, Event("button", 0, b, down, FALSE))
  /\ nextId' = nextId + 1
  /\ UNCHANGED <<composing, flips, keyed, serverVars, commands, desktop, clean,
                 typed, arrived>>

Pointer ==
  /\ Mouse
  /\ Sends(1)
  /\ wire' = Append(wire, Event("pointer", 0, NoInput, FALSE, FALSE))
  /\ nextId' = nextId + 1
  /\ UNCHANGED <<held, composing, flips, keyed, reported, serverVars, commands,
                 desktop, clean, typed, arrived>>

(* Mutant: the client forgets what is pressed before it reports it.        *)
FocusLost_ReportsNothing ==
  /\ Sends(Cardinality(reported))
  /\ composing' = FALSE /\ held' = {} /\ reported' = {}
  /\ UNCHANGED <<flips, nextId, keyed, wire, serverVars, commands, desktop,
                 clean, typed, arrived>>

(* WM_KILLFOCUS, and release_all: an up for everything reported as down,   *)
(* with no modifiers.  Shutdown does the same before it closes the         *)
(* session.                                                                *)
FocusLost ==
  LET ups == TakeReleases(reported)
  IN  /\ Sends(Len(ups))
      /\ composing' = FALSE
      /\ held' = {}
      /\ reported' = {}
      /\ wire' = wire \o [i \in 1 .. Len(ups) |->
                   Event(KindOf(ups[i]), i - 1, ups[i], FALSE, FALSE)]
      /\ nextId' = nextId + Len(ups)
      /\ keyed' = IF reported \cap Keys = {} THEN keyed ELSE nextId' - 1
      /\ UNCHANGED <<flips, serverVars, commands, desktop, clean, typed,
                     arrived>>

(* The last announcement has been used by an event the client sent; a      *)
(* change that holds from the next event on replaces it without loss.      *)
Settled(after) ==
  \/ flips = << >>
  \/ after = nextId - 1
  \/ flips # << >> /\ keyed > flips[Len(flips)].after

(* ImeModeChange; `settled' is history.                                    *)
AnnounceMode(mode, after) ==
  /\ stream # "ended"
  /\ ~ composing
  /\ Len(flips) < MaxFlips
  /\ flips' = Append(flips, [mode |-> mode, after |-> after,
                             settled |-> Settled(after)])
  /\ wire' = Append(wire, [kind |-> "mode", id |-> after, input |-> NoInput,
               down |-> FALSE, shortcut |-> FALSE, under |-> mode])
  /\ UNCHANGED <<held, composing, nextId, keyed, reported, serverVars, commands,
                 desktop, clean, typed, arrived>>

-----------------------------------------------------------------------------
(* accept_incoming_uni: the first input stream.                            *)
AcceptStream ==
  /\ stream = "opened"
  /\ session = "active"
  /\ stream' = "accepted"
  /\ UNCHANGED <<clientVars, wire, granted, ime, pressed, session, commands,
                 desktop, clean, typed, arrived>>

(* Admin commands change the input bits of this session.  What a command   *)
(* does to the other bit is in Permissions; one bit at a time reaches      *)
(* every combination.                                                      *)
Toggle(bit) ==
  /\ session = "active"
  /\ granted' = IF bit \in granted THEN granted \ {bit} ELSE granted \cup {bit}
  /\ UNCHANGED <<clientVars, wire, stream, ime, pressed, session, commands,
                 desktop, clean, typed, arrived>>

(* read_message has the next message for InputInjection::handle.           *)
Reads(kinds) ==
  /\ session = "active" /\ stream = "accepted"
  /\ wire # << >> /\ Head(wire).kind \in kinds
  /\ wire' = Tail(wire)

(* The event is dropped: permission not granted.                           *)
Drops ==
  /\ clean' = FALSE
  /\ UNCHANGED <<pressed, commands, arrived>>

HandleMode ==
  /\ Reads({"mode"})
  /\ ime' = [ime EXCEPT !.pending =
       [mode |-> Head(wire).under, after |-> Head(wire).id]]
  /\ UNCHANGED <<clientVars, stream, granted, pressed, session, commands,
                 desktop, clean, typed, arrived>>

(* Mutant: pressed follows every key event, injected or not.               *)
HandleKey_TracksSkipped ==
  LET m == Head(wire)
  IN  /\ Reads({"key"})
      /\ ime' = ModeFor(ime, m.id)
      /\ \/ "keyboard" \notin granted /\ Drops
         \/ /\ "keyboard" \in granted
            /\ pressed' = OnInput(pressed, m.input, m.down)
            /\ clean' = clean
            /\ arrived' = arrived
            /\ commands' =
                 IF ShouldInjectKey(ime'.current, m.input, m.shortcut)
                 THEN Append(commands, Act("key", m.input, m.down))
                 ELSE commands
      /\ UNCHANGED <<clientVars, stream, granted, session, desktop, typed>>

HandleKey ==
  LET m == Head(wire)
      inject == ShouldInjectKey(ime'.current, m.input, m.shortcut)
  IN  /\ Reads({"key"})
      /\ ime' = ModeFor(ime, m.id)
      /\ \/ "keyboard" \notin granted /\ Drops
         \/ /\ "keyboard" \in granted /\ ~ inject
            /\ UNCHANGED <<pressed, commands, clean, arrived>>
         \/ /\ "keyboard" \in granted /\ inject
            /\ pressed' = OnInput(pressed, m.input, m.down)
            /\ commands' = Append(commands, Act("key", m.input, m.down))
            /\ arrived' = IF m.input \in CharacterKeys /\ m.down /\ ~ m.shortcut
                          THEN arrived + 1 ELSE arrived
            /\ clean' = clean
      /\ UNCHANGED <<clientVars, stream, granted, session, desktop, typed>>

(* TextInput and ImeComposition, in a mode that allows them.               *)
HandleText ==
  LET m == Head(wire)
  IN  /\ Reads({"text", "composition"})
      /\ ime' = ModeFor(ime, m.id)
      /\ ime'.current = "client"
      /\ \/ "keyboard" \notin granted /\ Drops
         \/ /\ "keyboard" \in granted /\ m.kind = "text"
            /\ commands' = Append(commands, Act("text", NoInput, FALSE))
            /\ arrived' = arrived + 1
            /\ UNCHANGED <<pressed, clean>>
         \/ /\ "keyboard" \in granted /\ m.kind = "composition"
            /\ UNCHANGED <<pressed, commands, clean, arrived>>
      /\ UNCHANGED <<clientVars, stream, granted, session, desktop, typed>>

(* MouseButton: the position first, then the button.  MouseMove, Wheel.    *)
HandleMouse ==
  LET m == Head(wire)
  IN  /\ Reads({"button", "pointer"})
      /\ \/ "mouse" \notin granted /\ Drops
         \/ /\ "mouse" \in granted /\ m.kind = "button"
            /\ pressed' = OnInput(pressed, m.input, m.down)
            /\ commands' = commands \o <<Act("pointer", NoInput, FALSE),
                                         Act("button", m.input, m.down)>>
            /\ UNCHANGED <<clean, arrived>>
         \/ /\ "mouse" \in granted /\ m.kind = "pointer"
            /\ commands' = Append(commands, Act("pointer", NoInput, FALSE))
            /\ UNCHANGED <<pressed, clean, arrived>>
      /\ UNCHANGED <<clientVars, stream, granted, ime, session, desktop, typed>>

(* InputInjection::release_all.                                            *)
ReleaseAll ==
  LET ups == TakeReleases(pressed)
  IN  /\ pressed' = {}
      /\ commands' = commands \o [i \in 1 .. Len(ups) |->
                       Act(KindOf(ups[i]), ups[i], FALSE)]

(* The stream is finished, reset or unreadable; the session goes on.  The  *)
(* server would accept another one, but the client opens one only.         *)
StreamEnds ==
  /\ session = "active" /\ stream = "accepted"
  /\ stream' = "ended"
  /\ wire' = << >>
  /\ ReleaseAll
  /\ UNCHANGED <<clientVars, granted, ime, session, desktop, clean, typed,
                 arrived>>

(* run_active_session returns: SessionClose, shutdown, a timeout, a lost   *)
(* connection, an error of another arm.                                    *)
SessionEnds ==
  /\ session = "active"
  /\ session' = "over"
  /\ stream' = "ended"
  /\ wire' = << >>
  /\ ReleaseAll
  /\ UNCHANGED <<clientVars, granted, ime, desktop, clean, typed, arrived>>

(* check_text_allowed fails: PROTOCOL.UNEXPECTED_MESSAGE ends the session. *)
RefuseText ==
  /\ session = "active" /\ stream = "accepted"
  /\ wire # << >> /\ Head(wire).kind \in {"text", "composition"}
  /\ ime' = ModeFor(ime, Head(wire).id)
  /\ ime'.current = "remote"
  /\ session' = "over"
  /\ stream' = "ended"
  /\ wire' = << >>
  /\ ReleaseAll
  /\ UNCHANGED <<clientVars, granted, desktop, clean, typed, arrived>>

(* Mutant: the thread leaves its loop as soon as the handle is dropped.    *)
Inject_StopsAtClose ==
  /\ commands # << >>
  /\ session = "active"
  /\ desktop' = IF Head(commands).input = NoInput THEN desktop
                ELSE OnInput(desktop, Head(commands).input, Head(commands).down)
  /\ commands' = Tail(commands)
  /\ UNCHANGED <<clientVars, wire, serverVars, clean, typed, arrived>>

(* The injector thread carries out its next command.                       *)
Inject ==
  /\ commands # << >>
  /\ desktop' = IF Head(commands).input = NoInput THEN desktop
                ELSE OnInput(desktop, Head(commands).input, Head(commands).down)
  /\ commands' = Tail(commands)
  /\ UNCHANGED <<clientVars, wire, serverVars, clean, typed, arrived>>

(* Mutant: the drop does not wait for the thread.                          *)
Joined_Detached ==
  /\ session = "over"
  /\ session' = "joined"
  /\ UNCHANGED <<clientVars, wire, stream, granted, ime, pressed, commands,
                 desktop, clean, typed, arrived>>

(* WorkerHandle::drop: the thread has finished the queue.                  *)
Joined ==
  /\ session = "over"
  /\ commands = << >>
  /\ session' = "joined"
  /\ UNCHANGED <<clientVars, wire, stream, granted, ime, pressed, commands,
                 desktop, clean, typed, arrived>>

Client ==
  \/ \E k \in Keys, down \in BOOLEAN : ComposingKey(k, down) \/ Key(k, down)
  \/ \E k \in CharacterKeys : Character(k)
  \/ \E b \in Buttons, down \in BOOLEAN : Button(b, down)
  \/ StartComposition
  \/ Commit
  \/ \E ends \in BOOLEAN : Composition(ends)
  \/ Pointer
  \/ FocusLost
  \/ \E mode \in Mode, after \in (nextId - 1) .. (nextId - 1 + MaxLead) :
       AnnounceMode(mode, after)

Server ==
  \/ AcceptStream
  \/ \E bit \in {"keyboard", "mouse"} : Toggle(bit)
  \/ HandleMode \/ HandleKey \/ HandleText \/ HandleMouse
  \/ StreamEnds \/ SessionEnds \/ RefuseText

Next == Client \/ Server \/ Inject \/ Joined

(* The thread runs, and the drop returns when the thread has.              *)
Spec ==
  Init /\ [][Next]_vars /\ WF_vars(Inject) /\ WF_vars(Joined)

-----------------------------------------------------------------------------
(* The variables have their types.                                         *)
TypeOK ==
  /\ held \subseteq Inputs /\ reported \subseteq Inputs
  /\ pressed \subseteq Inputs /\ desktop \subseteq Inputs
  /\ composing \in BOOLEAN /\ clean \in BOOLEAN
  /\ flips \in Seq(Flip)
  /\ nextId \in Nat \ {0} /\ keyed \in Nat
  /\ wire \in Seq(Message)
  /\ stream \in {"opened", "accepted", "ended"}
  /\ granted \subseteq {"keyboard", "mouse"}
  /\ ime \in [current : Mode,
              pending : [mode : Mode, after : Nat] \cup {NoMode}]
  /\ session \in {"active", "over", "joined"}
  /\ commands \in Seq(Command)
  /\ typed \in Nat /\ arrived \in Nat

(* What is down after the messages or commands of q, if S was before.      *)
LastFor(q, i, x) ==
  /\ q[i].input = x
  /\ \A j \in DOMAIN q : j > i => q[j].input # x
DownAfter(S, q) ==
  {x \in Inputs :
     \/ \E i \in DOMAIN q : q[i].down /\ LastFor(q, i, x)
     \/ x \in S /\ \A i \in DOMAIN q : q[i].input # x}

(* The inputs that the server never filters by the modifiers.              *)
Solid == Inputs \ CharacterKeys

(* The server's pressed set is what will be down on its desktop once the   *)
(* injector thread has caught up: whatever was injected, skipped, dropped  *)
(* or revoked in between, a release_all knows everything it must release   *)
(* ("tracked from the `down' flags of the events that were actually        *)
(* injected", input_state.rs).                                             *)
DesktopFollowsPressed == DownAfter(desktop, commands) = pressed

(* When the connection task has let go of its session, by whatever path,   *)
(* no key or button is down on the server's desktop (spec 4.4.2; Drop of   *)
(* InputInjection and of WorkerHandle).                                    *)
NothingStaysDown == session = "joined" => desktop = {}

(* As long as no permission was revoked under an event, client and server  *)
(* agree on the mouse buttons and on the keys that make no character, up   *)
(* to the messages on the way: neither mode changes, compositions nor lost *)
(* focus can leave one of them down at one end only.                       *)
EndsAgree ==
  clean /\ stream # "ended" =>
    DownAfter(pressed, wire) \cap Solid = reported \cap Solid

(* No announcement replaced one that was still to take effect: ImeModeSm   *)
(* keeps one, "the client can't usefully queue two flips".                 *)
Orderly == \A i \in DOMAIN flips : flips[i].settled

(* The server reads an event in the mode an orderly client announced for   *)
(* it (ImeModeSm::mode_for): strictly after the boundary, and not before.  *)
ModeAsAnnounced ==
  Orderly /\ stream = "accepted" /\ wire # << >> /\
  Head(wire).kind \in {"key", "text", "composition"} =>
    ModeFor(ime, Head(wire).id).current = Head(wire).under

(* A character typed without CTRL, ALT or META at an orderly client        *)
(* reaches the desktop once: as a key or as text, never as both and never  *)
(* as neither (spec 2.12).                                                 *)
CharactersOnce ==
  Orderly /\ clean /\ stream = "accepted" /\ wire = << >> => arrived = typed

(* The inductive invariant.                                                *)
InputInv ==
  /\ TypeOK
  /\ DesktopFollowsPressed
  /\ EndsAgree
  /\ session # "active" => stream = "ended" /\ pressed = {}
  /\ session = "joined" => commands = << >>

(* The second inductive invariant: the modes on their way.  An event whose *)
(* kind is one of Moded asks ImeModeSm for its mode.                       *)
Moded == {"key", "text", "composition"}

ModesIn(w, i) == {j \in DOMAIN w : j < i /\ w[j].kind = "mode"}
LastMode(w, i, j) == j \in ModesIn(w, i) /\ \A k \in ModesIn(w, i) : k <= j

(* An event between positions j and i of w lies beyond the boundary.       *)
Used(w, j, i, after) ==
  \E k \in DOMAIN w : j < k /\ k < i /\ w[k].kind \in Moded /\ w[k].id > after

(* When the server, in state im, has read w up to position j, its mode is  *)
(* mode and no announcement is pending.                                    *)
InForce(w, im, j, mode) ==
  \/ ModesIn(w, j) = {} /\ im.pending = NoMode /\ mode = im.current
  \/ /\ ModesIn(w, j) = {} /\ im.pending # NoMode
     /\ mode = im.pending.mode /\ Used(w, 0, j, im.pending.after)
  \/ \E p \in DOMAIN w :
       LastMode(w, j, p) /\ mode = w[p].under /\ Used(w, p, j, w[p].id)

(* Then it reads an event id at position i in this mode.                   *)
ReadIn(w, im, i, id, mode) ==
  \/ ModesIn(w, i) = {} /\ mode = ModeFor(im, id).current
  \/ \E j \in DOMAIN w :
       /\ LastMode(w, i, j)
       /\ \/ id > w[j].id /\ mode = w[j].under
          \/ id <= w[j].id /\ InForce(w, im, j, mode)

End == Len(wire) + 1

(* Event ids rise along the wire; keyed is the last one with a mode.       *)
IdsRise ==
  /\ keyed < nextId
  /\ \A i \in DOMAIN wire : wire[i].kind # "mode" => wire[i].id < nextId
  /\ \A i \in DOMAIN wire : wire[i].kind \in Moded => wire[i].id <= keyed
  /\ \A i, j \in DOMAIN wire :
       i < j /\ wire[i].kind # "mode" /\ wire[j].kind # "mode" => wire[i].id < wire[j].id

(* Where the latest announcement is: on the wire, pending, or in force.    *)
LatestMode ==
  IF flips = << >> THEN ModesIn(wire, End) = {} /\ ime = [current |-> "client", pending |-> NoMode]
  ELSE LET f == flips[Len(flips)]
       IN  \/ \E j \in DOMAIN wire :
                /\ LastMode(wire, End, j) /\ wire[j].id = f.after /\ wire[j].under = f.mode
                /\ keyed > f.after => Used(wire, j, End, f.after)
           \/ /\ ModesIn(wire, End) = {} /\ ime.pending = [mode |-> f.mode, after |-> f.after]
              /\ keyed > f.after => Used(wire, 0, End, f.after)
           \/ /\ ModesIn(wire, End) = {} /\ ime = [current |-> f.mode, pending |-> NoMode]
              /\ keyed > f.after

(* Every event on the wire, and every event still to be sent, is read in   *)
(* the mode announced for it.                                              *)
ModesFollow ==
  Orderly =>
    /\ \A i \in DOMAIN wire :
         wire[i].kind \in Moded => ReadIn(wire, ime, i, wire[i].id, wire[i].under)
    /\ \A id \in Nat : id >= nextId => ReadIn(wire, ime, End, id, Announced(flips, id))

(* The messages on the wire that will make a character.                    *)
Counts(m) ==
  \/ m.kind = "text"
  \/ /\ m.kind = "key" /\ m.input \in CharacterKeys
     /\ m.down /\ ~ m.shortcut /\ m.under = "remote"
Coming(w) == {i \in DOMAIN w : Counts(w[i])}

CharactersKept ==
  Orderly /\ clean => typed = arrived + Cardinality(Coming(wire))

ModesInv ==
  stream # "ended" => IdsRise /\ LatestMode /\ ModesFollow /\ CharactersKept

(* Once the session is over, the desktop gets rid of everything it held    *)
(* down: the thread finishes the queue before the drop returns.            *)
DesktopSettles == session = "over" ~> session = "joined" /\ desktop = {}

=============================================================================
