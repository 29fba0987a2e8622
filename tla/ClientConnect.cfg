\* The doc's claim that a TCP connect leads to OnClientHandshake.
SPECIFICATION ClientConnectSpec
PROPERTY ConnectedShakesHands
CHECK_DEADLOCK FALSE
