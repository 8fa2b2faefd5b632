\* The decoder against every sequence of key events.
SPECIFICATION Spec
CONSTANTS
    Letters = {"A"}
    Others = {"SLASH"}
    Silents = {"CTRL"}
    Beyond = {"NUM"}
    Plain <- PlainKeys
    Extended <- ExtendedKeys
    KEYBOARD_BUFFER_SIZE = 4
INVARIANTS
    TypeOK
    InStep
    NoStuckShift
PROPERTIES
    ReleaseSilent
    InStepPressTyped
