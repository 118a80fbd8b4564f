SPECIFICATION FairGateSpec
CONSTANTS
    Chats = {chat1, chat2}
    Handlers = {h1, h2, h3}
INVARIANTS GateTypeOK BusyIffOwned 
PROPERTIES OneReplyPerInbound ChatFreed
