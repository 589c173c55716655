SPECIFICATION GatesSpec
CONSTANTS
  Segments = {"project", "domain", "application", "infrastructure", "core", "launcher", "composition_root",
              "service_registration", "lifecycle", "__init__", "task", "service", "adapter",
              "psycopg", "connect", "typing"}
  Stdlib = {"typing"}
  ApplicationClasses = {"TaskService"}
  Opaque = "opaque"
  Checkout <- MCCheckout
  Statements <- MCStatements
  MaxEdits = 2
INVARIANTS
  GreenMeansLayered
  GreenMeansRouted
  GreenMeansServed
CHECK_DEADLOCK FALSE
