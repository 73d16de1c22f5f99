SPECIFICATION Spec
CONSTANTS
    Point <- MCPoint
    Kept = {"string"}
    Asking = {"asked", "map"}
    Placing = {"map"}
    Listening = {"route"}
    Listeners <- MCListeners
    Actors <- MCActors
    Producers <- MCProducers
    Consumers <- MCConsumers
    StateConsumers <- MCStateConsumers
    ProducerOf <- MCProducerOf
    MaxPushes = 3
INVARIANTS ViewIsCurrent FollowersAgree ListenerFollows MissingIsAsked
CHECK_DEADLOCK FALSE
