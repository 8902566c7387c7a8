SPECIFICATION Spec
CONSTANTS
  Keys = {"ctrl", "c"}
  CharacterKeys = {"c"}
  ShortcutKeys = {"ctrl"}
  Buttons = {"left"}
  NoInput = NoInput
  HandshakeInput <- MCInput
  MaxLead = 1
  MaxEvents = 3
  MaxFlips = 3
CONSTRAINT ModesOrButtons
INVARIANTS
  DesktopFollowsPressed
  NothingStaysDown
  EndsAgree
  ModeAsAnnounced
  CharactersOnce
PROPERTIES
  DesktopSettles
CHECK_DEADLOCK FALSE
