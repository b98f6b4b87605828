CONSTANTS
  Slots = {m1, m2}
  Kinds = {"has-manilha", "no-manilha", "hold"}
  Greetings = {"weak-hand"}
  Advice = {"pressure"}
  Ttl = 2
  Cooldown = 1
  MaxTalk = 2
  MaxTime = 3
  MaxHands = 2
  MaxRounds = 2
SYMMETRY MessageSymmetry
SPECIFICATION Spec
INVARIANTS
  SignalsFitTheHand
PROPERTIES
  ReplacedInTurn
CHECK_DEADLOCK FALSE
