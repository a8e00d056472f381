CONSTANTS
  Kinds = {"mux"}
  RetryMax = 2
  MaxEvents = 1
SPECIFICATION AuthSpec
INVARIANTS Agreement
CHECK_DEADLOCK FALSE
