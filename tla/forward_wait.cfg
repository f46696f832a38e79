SPECIFICATION ForwardSpec
CONSTANTS
    FORWARD_QUEUE_DEPTH = 3
PROPERTY
    EmergencyIsForwarded
