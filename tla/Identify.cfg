CONSTANTS
    Device <- Devices
    Credentials = {"none", "good", "bad"}
    Timeout = {15, 20, 30}
SPECIFICATION Spec
INVARIANT TypeOK
INVARIANT NothingInvented
INVARIANT CredentialsAreAsked
INVARIANT SameAnswer
INVARIANT UnicastOnly
