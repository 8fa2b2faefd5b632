\* A release without a character makes the next press go missing: expected to fail.
SPECIFICATION Spec
CONSTANTS
    Letters = {"A"}
    Others = {"SLASH"}
    Silents = {"CTRL"}
    Beyond = {"NUM"}
    Plain <- PlainKeys
    Extended <- ExtendedKeys
    KEYBOARD_BUFFER_SIZE = 4
PROPERTY PressTyped
