CONSTANT Sock = {"s1", "s2"}
SPECIFICATION PoliteSpec
INVARIANTS TypeOK ReadyMeansServing PollIndexes  
PROPERTIES ExitHonoured SocketsServed 
