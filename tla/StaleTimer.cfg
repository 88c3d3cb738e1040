\* Three handlers, a threshold of two: failures recorded by requests admitted before
\* the breaker opened spawn timers that outlive the cooldown.
CONSTANTS
  Handlers = {h1, h2, h3}
  TimerIds = {1, 2, 3, 4}
  Threshold = 2
  ResetTimeout = 2
SPECIFICATION FairSpec
PROPERTIES
  CooldownLasts
