SPECIFICATION Spec
CONSTANTS
    old = old
    new1 = new1
    new2 = new2
    Instances <- Deploying
    NoInstance = none
    Requests = {q1}
    Newest = 2
    Latest <- DeployingLatest
PROPERTIES
    StartupSurvivesOutage
