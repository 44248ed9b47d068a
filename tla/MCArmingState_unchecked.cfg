SPECIFICATION Spec
CONSTANTS
    c1 = c1
    Consoles <- OneConsole
PROPERTIES
    PrearmCheckDecides
