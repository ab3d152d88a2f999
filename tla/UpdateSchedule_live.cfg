SPECIFICATION LiveSpec
CONSTANTS
  c1 = c1
  NoClient = NoClient
  Clients = {c1}
  CanResize = {c1}
  FullFrames = {FALSE}
  Encodings <- StillImages
  Refreshes = {"none", "full"}
  Networks <- AnyNetwork
  Rights = {"view"}
  Successes = {TRUE}
  MaxBlock = 1
PROPERTIES UpdatesSent LossRepaired
