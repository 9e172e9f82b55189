CONSTANT Sock = {"s1"}
SPECIFICATION FairSpec
PROPERTIES ExitHonoured
